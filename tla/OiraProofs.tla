------------------------------ MODULE OiraProofs ------------------------------
\* That a session of Oira keeps the types of its variables, and what IdealOira
\* promises.  First the mathematics: folds in any order, sums, words as a group
\* and a field, the shuffle, the multiplication, the lookup.  Then the inductive
\* invariant: each socket holds a window of a stream of messages that the
\* session's sets, values and randomness determine, and each vector is what the
\* place of its party says.
EXTENDS OiraInvariant, FiniteSetTheorems, WellFoundedInduction, TLAPS

(* Induction, from the well-foundedness of < on the natural numbers. *)

LessThan == {p \in Nat \X Nat : p[1] < p[2]}

\* < on the natural numbers has no endless descent.
LEMMA LessThanWellFounded == IsWellFoundedOn(LessThan, Nat)
<1>1. LessThan = OpToRel(<, Nat)
  BY DEF LessThan, OpToRel
<1> QED BY <1>1, NatLessThanWellFounded

\* Every set of natural numbers that is not empty has a least member.
LEMMA Least == ASSUME NEW T \in SUBSET Nat, T # {} PROVE \E x \in T : \A y \in T : x <= y
<1>1. PICK x \in T : \A y \in T : <<y, x>> \notin LessThan
  BY LessThanWellFounded, WFMin
<1>2. ASSUME NEW y \in T PROVE x <= y
  <2>1. <<y, x>> \in Nat \X Nat /\ <<y, x>> \notin LessThan
    BY <1>1
  <2>2. ~(y < x)
    BY <2>1 DEF LessThan
  <2> QED BY <2>2
<1> QED BY <1>2

\* What holds of 0, and of n + 1 when of n, holds of all.
LEMMA Induct == ASSUME NEW S, 0 \in S, \A n \in Nat : n \in S => n + 1 \in S PROVE Nat \subseteq S
<1> DEFINE T == Nat \ S
<1> SUFFICES ASSUME T # {} PROVE FALSE
  OBVIOUS
<1>1. PICK x \in T : \A y \in T : x <= y
  BY Least
<1>2. x \in Nat /\ x # 0 /\ x - 1 \in Nat /\ x - 1 \notin T
  BY <1>1
<1> QED BY <1>2

\* The same over the numbers up to m.
LEMMA InductUpTo ==
  ASSUME NEW m \in Nat, NEW S, 0 \in S, \A n \in 0..(m - 1) : n \in S => n + 1 \in S
  PROVE 0..m \subseteq S
<1> DEFINE T == {n \in Nat : n <= m => n \in S}
<1>1. 0 \in T /\ \A n \in Nat : n \in T => n + 1 \in T
  OBVIOUS
<1>2. Nat \subseteq T
  <2> HIDE DEF T
  <2> QED BY <1>1, Induct
<1> QED BY <1>2

\* The functions that a primitive recursion defines up to n.
Begun(H, S, a, n) == {f \in [0..n -> S] : f[0] = a /\ \A k \in 0..(n - 1) : f[k + 1] = H[k][f[k]]}

\* Two of them agree as far as both go.
LEMMA BegunAgree ==
  ASSUME NEW S, NEW H, NEW a, NEW n \in Nat, NEW m \in Nat, m <= n,
         NEW f \in Begun(H, S, a, n), NEW g \in Begun(H, S, a, m)
  PROVE \A k \in 0..m : f[k] = g[k]
<1> DEFINE T == {k \in 0..m : f[k] = g[k]}
<1>1. 0 \in T
  BY DEF Begun
<1>2. ASSUME NEW k \in 0..(m - 1), k \in T PROVE k + 1 \in T
  <2>1. f[k + 1] = H[k][f[k]] /\ g[k + 1] = H[k][g[k]]
    BY DEF Begun
  <2> QED BY <1>2, <2>1
<1>3. 0..m \subseteq T
  <2> HIDE DEF T
  <2> QED BY <1>1, <1>2, InductUpTo
<1> QED BY <1>3

\* A function defined by its first value and a step.
Iterates(f, S, a, H) == f \in [Nat -> S] /\ f[0] = a /\ \A n \in Nat : f[n + 1] = H[n][f[n]]

\* There is such a function: the recursive definitions over Nat have their equations.
LEMMA Recursion ==
  ASSUME NEW S, NEW a \in S, NEW H \in [Nat -> [S -> S]]
  PROVE \E f : Iterates(f, S, a, H)
<1> DEFINE T == {n \in Nat : Begun(H, S, a, n) # {}}
<1>1. 0 \in T
  <2>1. [k \in 0..0 |-> a] \in Begun(H, S, a, 0)
    BY DEF Begun
  <2> QED BY <2>1
<1>2. ASSUME NEW n \in Nat, n \in T PROVE n + 1 \in T
  <2>1. PICK f : f \in Begun(H, S, a, n)
    BY <1>2
  <2> DEFINE g == [k \in 0..(n + 1) |-> IF k <= n THEN f[k] ELSE H[n][f[n]]]
  <2>2. f \in [0..n -> S] /\ f[0] = a /\ \A k \in 0..(n - 1) : f[k + 1] = H[k][f[k]]
    BY <2>1 DEF Begun
  <2>3. f[n] \in S /\ H[n][f[n]] \in S
    BY <2>2
  <2>4. g \in [0..(n + 1) -> S] /\ g[0] = a
    BY <2>2, <2>3
  <2>5. \A k \in 0..n : g[k + 1] = H[k][g[k]]
    BY <2>2
  <2>6. \A k \in 0..(n + 1 - 1) : g[k + 1] = H[k][g[k]]
    <3>1. n + 1 - 1 = n
      OBVIOUS
    <3> QED BY <2>5, <3>1, Zenon
  <2>7. g \in Begun(H, S, a, n + 1)
    <3> HIDE DEF g
    <3> QED BY <2>4, <2>6 DEF Begun
  <2> QED BY <2>7
<1>3. Nat \subseteq T
  <2> HIDE DEF T
  <2> QED BY <1>1, <1>2, Induct
<1> DEFINE b == [n \in Nat |-> CHOOSE f : f \in Begun(H, S, a, n)]
           F == [n \in Nat |-> b[n][n]]
<1>4. \A n \in Nat : b[n] \in Begun(H, S, a, n)
  BY <1>3
<1>5. ASSUME NEW n \in Nat PROVE F[n] \in S /\ F[n + 1] = H[n][F[n]]
  <2>1. b[n] \in Begun(H, S, a, n) /\ b[n + 1] \in Begun(H, S, a, n + 1)
    BY <1>4
  <2>2. b[n + 1][n] = b[n][n]
    <3> HIDE DEF b
    <3> QED BY <2>1, BegunAgree
  <2>3. b[n][n] \in S /\ b[n + 1][n + 1] = H[n][b[n + 1][n]]
    <3> HIDE DEF b
    <3> QED BY <2>1 DEF Begun
  <2> QED BY <2>2, <2>3
<1>6. F[0] = a
  <2>1. b[0] \in Begun(H, S, a, 0)
    BY <1>4
  <2>2. b[0][0] = a
    <3> HIDE DEF b
    <3> QED BY <2>1 DEF Begun
  <2> QED BY <2>2
<1>7. F \in [Nat -> S]
  <2> HIDE DEF b
  <2> QED BY <1>5
<1>8. Iterates(F, S, a, H)
  <2> HIDE DEF F
  <2> QED BY <1>5, <1>6, <1>7 DEF Iterates
<1> QED BY <1>8

\* What holds of {} and goes on to a set with a member more holds of every finite set.
LEMMA Grow ==
  ASSUME NEW S, IsFiniteSet(S), NEW T, {} \in T, \A t \in SUBSET S, x \in S : t \in T => t \cup {x} \in T
  PROVE S \in T
<1> DEFINE K == {k \in Nat : \A t \in SUBSET S : Cardinality(t) = k => t \in T}
<1>1. \A t \in SUBSET S : IsFiniteSet(t) /\ Cardinality(t) \in Nat
  BY FS_Subset, FS_CardinalityType
<1>2. 0 \in K
  <2>1. ASSUME NEW t \in SUBSET S, Cardinality(t) = 0 PROVE t = {}
    BY <1>1, <2>1, FS_EmptySet
  <2> QED BY <2>1
<1>3. ASSUME NEW k \in Nat, k \in K PROVE k + 1 \in K
  <2>1. ASSUME NEW t \in SUBSET S, Cardinality(t) = k + 1 PROVE t \in T
    <3>0. IsFiniteSet(t) /\ Cardinality(t) # 0
      BY <1>1, <2>1
    <3>1. IsFiniteSet(t) /\ t # {}
      <4>1. Cardinality({}) = 0
        BY FS_EmptySet
      <4> QED BY <3>0, <4>1, Zenon
    <3>2. PICK x : x \in t
      BY <3>1
    <3>3. Cardinality(t \ {x}) = Cardinality(t) - 1
      BY <3>1, <3>2, FS_RemoveElement
    <3>4. Cardinality(t \ {x}) = k
      BY <2>1, <3>3
    <3>5. t \ {x} \in T
      BY <1>3, <3>4
    <3>6. (t \ {x}) \cup {x} = t /\ x \in S
      BY <3>2
    <3>7. (t \ {x}) \cup {x} \in T
      BY <3>5, <3>6
    <3> QED BY <3>6, <3>7
  <2> QED BY <2>1
<1>4. Nat \subseteq K
  <2> HIDE DEF K
  <2> QED BY <1>2, <1>3, Induct
<1>5. Cardinality(S) \in K
  <2> HIDE DEF K
  <2> QED BY <1>1, <1>4
<1> QED BY <1>5
-----------------------------------------------------------------------------
(* A fold over a finite set takes its members one by one, in an order that is chosen.
   The function it is defined by takes every subset to what the fold makes of it; it
   exists, and where the order does not matter the fold may take any member last. *)

\* A set that is not empty has the member that is chosen.
LEMMA TakenIn == ASSUME NEW t, t # {} PROVE Taken(t) \in t
BY DEF Taken

\* The functions on the subsets, right for those of 0, 1, ... members.
Acts(H, S, Vs) == \A x \in S : H[x] \in [Vs -> Vs]
Deeper(H, base, S, G) == [t \in SUBSET S |-> FoldedOn(H, base, t, G)]
Deepening(H, base, S, Vs) == [k \in Nat |-> [G \in [SUBSET S -> Vs] |-> Deeper(H, base, S, G)]]

\* A fold over a finite set has its function.
LEMMA Folding ==
  ASSUME NEW S, IsFiniteSet(S), NEW Vs, NEW base \in Vs, NEW H, Acts(H, S, Vs)
  PROVE \E g : IsFold(g, H, base, S, Vs)
<1> DEFINE G0 == [t \in SUBSET S |-> base]
           D == Deepening(H, base, S, Vs)
           E == [SUBSET S -> Vs]
<1>1. ASSUME NEW G \in E, NEW t \in SUBSET S PROVE FoldedOn(H, base, t, G) \in Vs
  <2>1. CASE t = {}
    BY <2>1 DEF FoldedOn
  <2>2. CASE t # {}
    <3>1. Taken(t) \in S /\ H[Taken(t)] \in [Vs -> Vs]
      BY <2>2, TakenIn DEF Acts
    <3>2. G[t \ {Taken(t)}] \in Vs
      OBVIOUS
    <3> QED BY <2>2, <3>1, <3>2 DEF FoldedOn
  <2> QED BY <2>1, <2>2
<1>2. G0 \in E /\ D \in [Nat -> [E -> E]]
  BY <1>1 DEF Deepening, Deeper
<1>3. PICK F : Iterates(F, E, G0, D)
  <2> HIDE DEF G0, D, E
  <2> QED BY <1>2, Recursion
<1>4. /\ F \in [Nat -> E]
      /\ \A t \in SUBSET S : F[0][t] = base
      /\ \A k \in Nat : F[k + 1] = Deeper(H, base, S, F[k])
  BY <1>3 DEF Iterates, Deepening
<1>5. \A k \in Nat, t \in SUBSET S : F[k + 1][t] = FoldedOn(H, base, t, F[k])
  BY <1>4 DEF Deeper
<1> DEFINE K == {k \in Nat : \A t \in SUBSET S : Cardinality(t) <= k => F[k + 1][t] = F[k][t]}
<1>6. \A t \in SUBSET S : IsFiniteSet(t) /\ Cardinality(t) \in Nat
  BY FS_Subset, FS_CardinalityType
<1>7. 0 \in K
  <2>1. ASSUME NEW t \in SUBSET S, Cardinality(t) <= 0 PROVE F[0 + 1][t] = F[0][t]
    <3>1. Cardinality(t) = 0
      BY <1>6, <2>1
    <3>2. t = {}
      BY <1>6, <3>1, FS_EmptySet
    <3> QED BY <1>4, <1>5, <3>2 DEF FoldedOn
  <2> QED BY <2>1
<1>8. ASSUME NEW k \in Nat, k \in K PROVE k + 1 \in K
  <2>1. ASSUME NEW t \in SUBSET S, Cardinality(t) <= k + 1 PROVE F[(k + 1) + 1][t] = F[k + 1][t]
    <3>0. /\ F[(k + 1) + 1][t] = FoldedOn(H, base, t, F[k + 1])
          /\ F[k + 1][t] = FoldedOn(H, base, t, F[k])
      BY <1>5
    <3>1. CASE t = {}
      BY <3>0, <3>1 DEF FoldedOn
    <3>2. CASE t # {}
      <4> DEFINE u == t \ {Taken(t)}
      <4>1. Cardinality(u) = Cardinality(t) - 1
        BY <1>6, <3>2, TakenIn, FS_RemoveElement
      <4>2. Cardinality(u) <= k /\ u \in SUBSET S
        BY <1>6, <2>1, <4>1
      <4>3. F[k + 1][u] = F[k][u]
        BY <1>8, <4>2
      <4> QED BY <3>0, <3>2, <4>3 DEF FoldedOn
    <3> QED BY <3>1, <3>2
  <2> QED BY <2>1
<1>9. Nat \subseteq K
  <2> HIDE DEF K
  <2> QED BY <1>7, <1>8, Induct
<1> DEFINE n == Cardinality(S)
<1>10. n \in K /\ n \in Nat
  <2> HIDE DEF K
  <2> QED BY <1>6, <1>9
<1>11. ASSUME NEW t \in SUBSET S PROVE F[n][t] = FoldedOn(H, base, t, F[n])
  <2>1. Cardinality(t) <= n
    BY FS_Subset
  <2>2. F[n + 1][t] = F[n][t]
    BY <1>10, <2>1
  <2> HIDE DEF n
  <2> QED BY <1>5, <1>10, <2>2
<1>12. F[n] \in E
  BY <1>4, <1>10
<1>13. IsFold(F[n], H, base, S, Vs)
  BY <1>11, <1>12 DEF IsFold
<1> QED BY <1>13

DoSame(H, J, t) == \A x \in t : H[x] = J[x]

\* Folds over two sets agree on what both have, when they do the same there.
LEMMA FoldsAgree ==
  ASSUME NEW S, IsFiniteSet(S), NEW R, NEW Vs, NEW base \in Vs, NEW H, NEW J,
         NEW g, NEW h, IsFold(g, H, base, S, Vs), IsFold(h, J, base, R, Vs),
         NEW t \in SUBSET S, t \in SUBSET R, DoSame(H, J, t)
  PROVE g[t] = h[t]
<1> DEFINE K == {k \in Nat : \A u \in SUBSET t : Cardinality(u) = k => g[u] = h[u]}
<1>1. \A u \in SUBSET t : IsFiniteSet(u) /\ Cardinality(u) \in Nat
  BY FS_Subset, FS_CardinalityType
<1>2. \A u \in SUBSET t : g[u] = FoldedOn(H, base, u, g) /\ h[u] = FoldedOn(J, base, u, h)
  BY DEF IsFold
<1>3. 0 \in K
  <2>1. ASSUME NEW u \in SUBSET t, Cardinality(u) = 0 PROVE g[u] = h[u]
    <3>1. u = {}
      BY <1>1, <2>1, FS_EmptySet
    <3> QED BY <1>2, <3>1 DEF FoldedOn
  <2> QED BY <2>1
<1>4. ASSUME NEW k \in Nat, k \in K PROVE k + 1 \in K
  <2>1. ASSUME NEW u \in SUBSET t, Cardinality(u) = k + 1 PROVE g[u] = h[u]
    <3>1. CASE u = {}
      BY <1>2, <3>1 DEF FoldedOn
    <3>2. CASE u # {}
      <4>1. Taken(u) \in u
        BY <3>2, TakenIn
      <4>2. Cardinality(u \ {Taken(u)}) = Cardinality(u) - 1
        BY <1>1, <4>1, FS_RemoveElement
      <4>3. Cardinality(u \ {Taken(u)}) = k
        BY <2>1, <4>2
      <4>4. g[u \ {Taken(u)}] = h[u \ {Taken(u)}] /\ H[Taken(u)] = J[Taken(u)]
        BY <1>4, <4>1, <4>3 DEF DoSame
      <4> QED BY <1>2, <3>2, <4>4 DEF FoldedOn
    <3> QED BY <3>1, <3>2
  <2> QED BY <2>1
<1>5. Nat \subseteq K
  <2> HIDE DEF K
  <2> QED BY <1>3, <1>4, Induct
<1>6. Cardinality(t) \in K
  <2> HIDE DEF K
  <2> QED BY <1>1, <1>5
<1> QED BY <1>6

Commute(H, S, Vs) == \A x, y \in S, v \in Vs : H[x][H[y][v]] = H[y][H[x][v]]

\* Where the order does not matter, any member may be the last.
LEMMA Inserting ==
  ASSUME NEW S, IsFiniteSet(S), NEW Vs, NEW base \in Vs, NEW H, Acts(H, S, Vs), Commute(H, S, Vs),
         NEW g, IsFold(g, H, base, S, Vs), NEW s \in SUBSET S, NEW e \in S \ s
  PROVE g[s \cup {e}] = H[e][g[s]]
<1> DEFINE K == {k \in Nat : \A t \in SUBSET S : Cardinality(t) = k => \A x \in S \ t : g[t \cup {x}] = H[x][g[t]]}
<1>1. \A t \in SUBSET S : IsFiniteSet(t) /\ Cardinality(t) \in Nat
  BY FS_Subset, FS_CardinalityType
<1>2. \A t \in SUBSET S : g[t] \in Vs /\ (t # {} => Taken(t) \in t /\ g[t] = H[Taken(t)][g[t \ {Taken(t)}]])
  BY TakenIn DEF IsFold, FoldedOn
<1>3. ASSUME NEW k \in Nat, \A j \in 0..(k - 1) : j \in K PROVE k \in K
  <2>1. ASSUME NEW t \in SUBSET S, Cardinality(t) = k, NEW x \in S \ t PROVE g[t \cup {x}] = H[x][g[t]]
    <3> DEFINE u == t \cup {x}
               y == Taken(u)
    <3>1. u \in SUBSET S /\ u # {} /\ y \in u /\ g[u] = H[y][g[u \ {y}]]
      BY <1>2
    <3>2. CASE y = x
      <4>1. u \ {y} = t
        BY <3>2
      <4> QED BY <3>1, <3>2, <4>1
    <3>3. CASE y # x
      <4> DEFINE v == t \ {y}
      <4>1. y \in t /\ v \in SUBSET S /\ y \in S \ v /\ x \in S \ v /\ u \ {y} = v \cup {x} /\ t = v \cup {y}
        BY <3>1, <3>3
      <4> HIDE DEF y, u
      <4>2. Cardinality(v) = Cardinality(t) - 1
        BY <1>1, <4>1, FS_RemoveElement
      <4> HIDE DEF v
      <4>3. Cardinality(v) \in 0..(k - 1)
        BY <1>1, <2>1, <4>1, <4>2
      <4>4. Cardinality(v) \in K
        BY <1>3, <4>3
      <4>5. g[v \cup {x}] = H[x][g[v]] /\ g[v \cup {y}] = H[y][g[v]]
        BY <4>1, <4>4
      <4>6. g[v] \in Vs
        BY <1>2, <4>1
      <4>7. H[y][H[x][g[v]]] = H[x][H[y][g[v]]]
        BY <4>1, <4>6 DEF Commute
      <4> QED BY <3>1, <4>1, <4>5, <4>7 DEF u
    <3> QED BY <3>2, <3>3
  <2> QED BY <2>1
<1> DEFINE L == {k \in Nat : \A j \in 0..k : j \in K}
<1>4. 0 \in L
  <2>1. 0 \in K
    <3> HIDE DEF K
    <3> QED BY <1>3
  <2> HIDE DEF K
  <2> QED BY <2>1
<1>5. ASSUME NEW k \in Nat, k \in L PROVE k + 1 \in L
  <2> HIDE DEF K
  <2>1. \A j \in 0..((k + 1) - 1) : j \in K
    BY <1>5
  <2>2. k + 1 \in K
    BY <1>3, <2>1
  <2>3. \A j \in 0..(k + 1) : j \in 0..k \/ j = k + 1
    OBVIOUS
  <2> QED BY <1>5, <2>2, <2>3
<1>6. Nat \subseteq L
  <2> HIDE DEF L
  <2> QED BY <1>4, <1>5, Induct
<1>7. Cardinality(s) \in K
  <2>1. Cardinality(s) \in Nat
    BY <1>1
  <2> HIDE DEF K
  <2> QED BY <1>6, <2>1
<1> QED BY <1>7

\* What a fold comes to, and how it goes on.
LEMMA FoldLaws ==
  ASSUME NEW S, IsFiniteSet(S), NEW Vs, NEW base \in Vs, NEW H, Acts(H, S, Vs), Commute(H, S, Vs)
  PROVE /\ FoldOf(H, base, {}, Vs) = base
        /\ \A t \in SUBSET S : FoldOf(H, base, t, Vs) \in Vs
        /\ \A t \in SUBSET S, x \in S : x \notin t => FoldOf(H, base, t \cup {x}, Vs) = H[x][FoldOf(H, base, t, Vs)]
<1>1. PICK g : IsFold(g, H, base, S, Vs)
  BY Folding
<1>2. ASSUME NEW t \in SUBSET S PROVE FoldOf(H, base, t, Vs) = g[t]
  <2>1. IsFiniteSet(t) /\ Acts(H, t, Vs)
    BY FS_Subset DEF Acts
  <2>2. \E h : IsFold(h, H, base, t, Vs)
    BY <2>1, Folding
  <2> DEFINE h == CHOOSE f : IsFold(f, H, base, t, Vs)
  <2>3. IsFold(h, H, base, t, Vs)
    BY <2>2
  <2> HIDE DEF h
  <2>4. DoSame(H, H, t)
    BY DEF DoSame
  <2>5. g[t] = h[t]
    BY <1>1, <2>3, <2>4, FoldsAgree
  <2> QED BY <2>5 DEF FoldOf, h
<1>3. g[{}] = base /\ \A t \in SUBSET S : g[t] \in Vs
  BY <1>1 DEF IsFold, FoldedOn
<1>4. ASSUME NEW t \in SUBSET S, NEW x \in S, x \notin t PROVE g[t \cup {x}] = H[x][g[t]]
  BY <1>1, <1>4, Inserting
<1>5. \A t \in SUBSET S, x \in S : t \cup {x} \in SUBSET S
  OBVIOUS
<1>6. FoldOf(H, base, {}, Vs) = base
  BY <1>2, <1>3
<1> QED BY <1>2, <1>3, <1>4, <1>5, <1>6

Takes(iter, H, base, S, Vs) ==
  /\ iter[{}] = base
  /\ \A t \in SUBSET S : t # {} /\ iter[t \ {Taken(t)}] \in Vs => iter[t] = H[Taken(t)][iter[t \ {Taken(t)}]]

\* A function that takes one member after the other computes the fold.
LEMMA FoldTaken ==
  ASSUME NEW S, IsFiniteSet(S), NEW Vs, NEW base \in Vs, NEW H, Acts(H, S, Vs), NEW iter, Takes(iter, H, base, S, Vs)
  PROVE iter[S] = FoldOf(H, base, S, Vs)
<1> DEFINE g == CHOOSE f : IsFold(f, H, base, S, Vs)
<1>1. IsFold(g, H, base, S, Vs)
  BY Folding
<1> HIDE DEF g
<1> DEFINE K == {k \in Nat : \A t \in SUBSET S : Cardinality(t) = k => iter[t] = g[t]}
<1>2. \A t \in SUBSET S : IsFiniteSet(t) /\ Cardinality(t) \in Nat
  BY FS_Subset, FS_CardinalityType
<1>3. \A t \in SUBSET S : g[t] \in Vs /\ g[t] = FoldedOn(H, base, t, g)
  BY <1>1 DEF IsFold
<1>4. 0 \in K
  <2>1. ASSUME NEW t \in SUBSET S, Cardinality(t) = 0 PROVE iter[t] = g[t]
    <3>1. t = {}
      BY <1>2, <2>1, FS_EmptySet
    <3> QED BY <1>3, <3>1 DEF FoldedOn, Takes
  <2> QED BY <2>1
<1>5. ASSUME NEW k \in Nat, k \in K PROVE k + 1 \in K
  <2>1. ASSUME NEW t \in SUBSET S, Cardinality(t) = k + 1 PROVE iter[t] = g[t]
    <3>1. CASE t = {}
      BY <1>3, <3>1 DEF FoldedOn, Takes
    <3>2. CASE t # {}
      <4> DEFINE u == t \ {Taken(t)}
      <4>1. Cardinality(u) = Cardinality(t) - 1
        BY <1>2, <3>2, TakenIn, FS_RemoveElement
      <4>2. Cardinality(u) = k
        BY <2>1, <4>1
      <4>3. iter[u] = g[u]
        BY <1>5, <4>2
      <4>4. g[u] \in Vs /\ g[t] = H[Taken(t)][g[u]]
        BY <1>3, <3>2 DEF FoldedOn
      <4> QED BY <3>2, <4>3, <4>4 DEF Takes
    <3> QED BY <3>1, <3>2
  <2> QED BY <2>1
<1>6. Nat \subseteq K
  <2> HIDE DEF K
  <2> QED BY <1>4, <1>5, Induct
<1>7. Cardinality(S) \in K
  <2> HIDE DEF K
  <2> QED BY <1>2, <1>6
<1>8. iter[S] = g[S]
  BY <1>7
<1> QED BY <1>8 DEF FoldOf, g

\* Folds that do the same come to the same.
LEMMA FoldAgree ==
  ASSUME NEW S, IsFiniteSet(S), NEW Vs, NEW base \in Vs, NEW H, NEW J, Acts(H, S, Vs), DoSame(H, J, S)
  PROVE FoldOf(H, base, S, Vs) = FoldOf(J, base, S, Vs)
<1> DEFINE g == CHOOSE f : IsFold(f, H, base, S, Vs)
           h == CHOOSE f : IsFold(f, J, base, S, Vs)
<1>1. Acts(J, S, Vs)
  BY DEF Acts, DoSame
<1>2. IsFold(g, H, base, S, Vs) /\ IsFold(h, J, base, S, Vs)
  BY <1>1, Folding
<1> HIDE DEF g, h
<1>3. S \in SUBSET S
  OBVIOUS
<1>4. g[S] = h[S]
  BY <1>2, <1>3, FoldsAgree
<1> QED BY <1>4 DEF FoldOf, g, h

-----------------------------------------------------------------------------
(* Sums. *)

\* Adding is a step of a fold, in any order.
LEMMA AddingActs ==
  ASSUME NEW D, NEW f \in [D -> Int], NEW S \in SUBSET D
  PROVE /\ \A x \in S, n \in Int : Adding(f)[x][n] = n + f[x]
        /\ Acts(Adding(f), S, Int) /\ Commute(Adding(f), S, Int)
<1>1. \A x \in S : f[x] \in Int /\ Adding(f)[x] = [n \in Int |-> n + f[x]]
  BY DEF Adding
<1>2. ASSUME NEW x \in S PROVE Adding(f)[x] \in [Int -> Int] /\ \A n \in Int : Adding(f)[x][n] = n + f[x]
  <2> DEFINE v == f[x]
  <2>1. v \in Int /\ Adding(f)[x] = [n \in Int |-> n + v]
    BY <1>1
  <2> HIDE DEF v
  <2>2. [n \in Int |-> n + v] \in [Int -> Int] /\ \A n \in Int : [m \in Int |-> m + v][n] = n + v
    BY <2>1
  <2>3. Adding(f)[x] \in [Int -> Int] /\ \A n \in Int : Adding(f)[x][n] = n + v
    BY <2>1, <2>2
  <2> QED BY <2>3 DEF v
<1>3. ASSUME NEW x \in S, NEW y \in S, NEW n \in Int PROVE Adding(f)[x][Adding(f)[y][n]] = Adding(f)[y][Adding(f)[x][n]]
  <2>1. f[x] \in Int /\ f[y] \in Int /\ n + f[y] \in Int /\ n + f[x] \in Int
    BY <1>1
  <2>2. Adding(f)[x][n + f[y]] = n + f[y] + f[x] /\ Adding(f)[y][n + f[x]] = n + f[x] + f[y]
    BY <1>2, <2>1
  <2>3. Adding(f)[x][n] = n + f[x] /\ Adding(f)[y][n] = n + f[y]
    BY <1>2
  <2> HIDE <1>2
  <2> QED BY <2>1, <2>2, <2>3
<1> QED BY <1>2, <1>3 DEF Acts, Commute

\* The sum of nothing, and with a number more.
LEMMA SumLaws ==
  ASSUME NEW D, NEW f \in [D -> Int], NEW S \in SUBSET D, IsFiniteSet(S)
  PROVE /\ SumOver(f, {}) = 0
        /\ \A t \in SUBSET S : SumOver(f, t) \in Int
        /\ \A t \in SUBSET S, x \in S : x \notin t => SumOver(f, t \cup {x}) = SumOver(f, t) + f[x]
<1>1. /\ FoldOf(Adding(f), 0, {}, Int) = 0
      /\ \A t \in SUBSET S : FoldOf(Adding(f), 0, t, Int) \in Int
      /\ \A t \in SUBSET S, x \in S : x \notin t => FoldOf(Adding(f), 0, t \cup {x}, Int) = Adding(f)[x][FoldOf(Adding(f), 0, t, Int)]
  <2>1. Acts(Adding(f), S, Int) /\ Commute(Adding(f), S, Int)
    BY AddingActs
  <2> QED BY <2>1, FoldLaws
<1>2. \A x \in S, n \in Int : Adding(f)[x][n] = n + f[x]
  BY AddingActs
<1> QED BY <1>1, <1>2 DEF SumOver

\* What takes the numbers one by one computes their sum.
LEMMA SumTaken ==
  ASSUME NEW D, NEW f \in [D -> Int], NEW S \in SUBSET D, IsFiniteSet(S), NEW iter, iter[{}] = 0,
         \A t \in SUBSET S : t # {} => iter[t] = iter[t \ {Taken(t)}] + f[Taken(t)]
  PROVE iter[S] = SumOver(f, S)
<1>1. Acts(Adding(f), S, Int) /\ \A x \in S, n \in Int : Adding(f)[x][n] = n + f[x]
  BY AddingActs
<1>2. ASSUME NEW t \in SUBSET S, t # {}, iter[t \ {Taken(t)}] \in Int
      PROVE iter[t] = Adding(f)[Taken(t)][iter[t \ {Taken(t)}]]
  <2>1. Taken(t) \in S
    BY <1>2, TakenIn
  <2> QED BY <1>1, <1>2, <2>1
<1>3. Takes(iter, Adding(f), 0, S, Int)
  BY <1>2 DEF Takes
<1> QED BY <1>1, <1>3, FoldTaken DEF SumOver

SumsUp(g, f, S) ==
  /\ g \in [SUBSET S -> Int]
  /\ \A t \in SUBSET S : g[t] = IF t = {} THEN 0 ELSE g[t \ {Taken(t)}] + f[Taken(t)]

\* There is such a function.
LEMMA SumRun ==
  ASSUME NEW D, NEW f \in [D -> Int], NEW S \in SUBSET D, IsFiniteSet(S)
  PROVE \E g : SumsUp(g, f, S)
<1>1. Acts(Adding(f), S, Int) /\ \A x \in S, n \in Int : Adding(f)[x][n] = n + f[x]
  BY AddingActs
<1>2. PICK g : IsFold(g, Adding(f), 0, S, Int)
  <2>1. 0 \in Int /\ Acts(Adding(f), S, Int)
    BY <1>1
  <2> QED BY <2>1, Folding
<1>3. g \in [SUBSET S -> Int] /\ \A t \in SUBSET S : g[t] = FoldedOn(Adding(f), 0, t, g)
  BY <1>2 DEF IsFold
<1>4. ASSUME NEW t \in SUBSET S PROVE g[t] = IF t = {} THEN 0 ELSE g[t \ {Taken(t)}] + f[Taken(t)]
  <2>1. CASE t = {}
    BY <1>3, <2>1 DEF FoldedOn
  <2>2. CASE t # {}
    <3>1. Taken(t) \in S /\ g[t \ {Taken(t)}] \in Int
      BY <1>3, <2>2, TakenIn
    <3>2. g[t] = Adding(f)[Taken(t)][g[t \ {Taken(t)}]]
      BY <1>3, <2>2 DEF FoldedOn
    <3> QED BY <1>1, <2>2, <3>1, <3>2
  <2> QED BY <2>1, <2>2
<1> QED BY <1>3, <1>4 DEF SumsUp

\* One number less.
LEMMA SumWithout ==
  ASSUME NEW D, NEW f \in [D -> Int], NEW S \in SUBSET D, IsFiniteSet(S), NEW x \in S
  PROVE SumOver(f, S) = SumOver(f, S \ {x}) + f[x]
<1> DEFINE t == S \ {x}
<1>1. t \cup {x} = S /\ t \in SUBSET S /\ x \notin t
  OBVIOUS
<1> HIDE DEF t
<1>2. SumOver(f, t \cup {x}) = SumOver(f, t) + f[x]
  BY <1>1, SumLaws
<1> QED BY <1>1, <1>2 DEF t

Alike(f, g, S) == \A x \in S : f[x] = g[x]

\* Sums of the same numbers.
LEMMA SumAgree ==
  ASSUME NEW D, NEW f \in [D -> Int], NEW E, NEW g \in [E -> Int], NEW S \in SUBSET D, S \in SUBSET E, IsFiniteSet(S),
         Alike(f, g, S)
  PROVE SumOver(f, S) = SumOver(g, S)
<1>1. Acts(Adding(f), S, Int)
  BY AddingActs
<1>2. DoSame(Adding(f), Adding(g), S)
  BY DEF DoSame, Adding, Alike
<1> QED BY <1>1, <1>2, FoldAgree DEF SumOver

\* A sum of sums is the sum of both.
LEMMA SumAdds ==
  ASSUME NEW D, NEW f \in [D -> Int], NEW g \in [D -> Int], NEW S \in SUBSET D, IsFiniteSet(S)
  PROVE SumOver([x \in D |-> f[x] + g[x]], S) = SumOver(f, S) + SumOver(g, S)
<1> DEFINE h == [x \in D |-> f[x] + g[x]]
           T == {t \in SUBSET S : SumOver(h, t) = SumOver(f, t) + SumOver(g, t)}
<1>1. h \in [D -> Int] /\ \A x \in S : h[x] = f[x] + g[x] /\ f[x] \in Int /\ g[x] \in Int
  OBVIOUS
<1> HIDE DEF h
<1>2. SumOver(f, {}) = 0 /\ SumOver(g, {}) = 0 /\ SumOver(h, {}) = 0
  BY <1>1, SumLaws
<1>3. {} \in T
  BY <1>2
<1>4. ASSUME NEW t \in SUBSET S, NEW x \in S, t \in T PROVE t \cup {x} \in T
  <2>1. CASE x \in t
    <3>1. t \cup {x} = t
      BY <2>1
    <3> QED BY <1>4, <3>1
  <2>2. CASE x \notin t
    <3>1. SumOver(f, t) \in Int /\ SumOver(f, t \cup {x}) = SumOver(f, t) + f[x]
      BY <2>2, SumLaws
    <3>2. SumOver(g, t) \in Int /\ SumOver(g, t \cup {x}) = SumOver(g, t) + g[x]
      BY <2>2, SumLaws
    <3>3. SumOver(h, t) \in Int /\ SumOver(h, t \cup {x}) = SumOver(h, t) + h[x]
      BY <1>1, <2>2, SumLaws
    <3>4. SumOver(h, t) = SumOver(f, t) + SumOver(g, t)
      BY <1>4
    <3>5. SumOver(h, t \cup {x}) = SumOver(f, t \cup {x}) + SumOver(g, t \cup {x})
      BY <1>1, <3>1, <3>2, <3>3, <3>4
    <3> QED BY <3>5
  <2> QED BY <2>1, <2>2
<1>5. S \in T
  <2> HIDE DEF T
  <2> QED BY <1>3, <1>4, Grow
<1> QED BY <1>5 DEF h

\* Nothing but zeros.
LEMMA SumOfZeros ==
  ASSUME NEW D, NEW f \in [D -> Int], NEW S \in SUBSET D, IsFiniteSet(S), \A x \in S : f[x] = 0
  PROVE SumOver(f, S) = 0
<1> DEFINE T == {t \in SUBSET S : SumOver(f, t) = 0}
<1>1. {} \in T
  BY SumLaws
<1>2. ASSUME NEW t \in SUBSET S, NEW x \in S, t \in T PROVE t \cup {x} \in T
  <2>1. CASE x \in t
    <3>1. t \cup {x} = t
      BY <2>1
    <3> QED BY <1>2, <3>1
  <2>2. CASE x \notin t
    <3>1. SumOver(f, t \cup {x}) = SumOver(f, t) + f[x]
      BY <2>2, SumLaws
    <3> QED BY <1>2, <3>1
  <2> QED BY <2>1, <2>2
<1>3. S \in T
  <2> HIDE DEF T
  <2> QED BY <1>1, <1>2, Grow
<1> QED BY <1>3

\* A sum of natural numbers is one.
LEMMA SumNat ==
  ASSUME NEW D, NEW f \in [D -> Int], NEW S \in SUBSET D, IsFiniteSet(S), \A x \in S : f[x] \in Nat
  PROVE SumOver(f, S) \in Nat
<1> DEFINE T == {t \in SUBSET S : SumOver(f, t) \in Nat}
<1>1. {} \in T
  BY SumLaws
<1>2. ASSUME NEW t \in SUBSET S, NEW x \in S, t \in T PROVE t \cup {x} \in T
  <2>1. CASE x \in t
    <3>1. t \cup {x} = t
      BY <2>1
    <3> QED BY <1>2, <3>1
  <2>2. CASE x \notin t
    <3>1. SumOver(f, t \cup {x}) = SumOver(f, t) + f[x]
      BY <2>2, SumLaws
    <3> QED BY <1>2, <3>1
  <2> QED BY <2>1, <2>2
<1>3. S \in T
  <2> HIDE DEF T
  <2> QED BY <1>1, <1>2, Grow
<1> QED BY <1>3

RowSums(f, P, B) == [p \in P |-> SumOver(f[p], B)]
ColumnSums(f, P, B) == [b \in B |-> SumOver([p \in P |-> f[p][b]], P)]

\* A table adds up to the same by its rows and by its columns.
LEMMA SumSwap ==
  ASSUME NEW P, IsFiniteSet(P), NEW B, IsFiniteSet(B), NEW f \in [P -> [B -> Int]]
  PROVE SumOver(RowSums(f, P, B), P) = SumOver(ColumnSums(f, P, B), B)
<1> DEFINE cols == ColumnSums(f, P, B)
           part(t) == RowSums(f, P, t)
           col(b) == [p \in P |-> f[p][b]]
           T == {t \in SUBSET B : SumOver(part(t), P) = SumOver(cols, t)}
<1>1. \A p \in P : f[p] \in [B -> Int]
  OBVIOUS
<1>2. \A t \in SUBSET B : part(t) \in [P -> Int]
  <2>1. ASSUME NEW t \in SUBSET B, NEW p \in P PROVE SumOver(f[p], t) \in Int
    BY <1>1, SumLaws
  <2> QED BY <2>1 DEF RowSums
<1>3. \A b \in B : col(b) \in [P -> Int]
  OBVIOUS
<1>4. cols \in [B -> Int] /\ \A b \in B : cols[b] = SumOver(col(b), P)
  <2>1. ASSUME NEW b \in B PROVE SumOver(col(b), P) \in Int
    <3>1. col(b) \in [P -> Int]
      BY <1>3
    <3> HIDE DEF col
    <3> QED BY <3>1, SumLaws
  <2> QED BY <2>1 DEF ColumnSums
<1>5. {} \in T
  <2>1. ASSUME NEW p \in P PROVE part({})[p] = 0
    <3>1. SumOver(f[p], {}) = 0
      BY <1>1, SumLaws
    <3> QED BY <3>1 DEF RowSums
  <2>2. SumOver(part({}), P) = 0
    <3>1. part({}) \in [P -> Int]
      BY <1>2
    <3> HIDE DEF part
    <3> QED BY <2>1, <3>1, SumOfZeros
  <2>3. SumOver(cols, {}) = 0
    <3> HIDE DEF cols
    <3> QED BY <1>4, SumLaws
  <2> QED BY <2>2, <2>3
<1>6. ASSUME NEW t \in SUBSET B, NEW x \in B, t \in T PROVE t \cup {x} \in T
  <2>1. CASE x \in t
    <3>1. t \cup {x} = t
      BY <2>1
    <3> QED BY <1>6, <3>1
  <2>2. CASE x \notin t
    <3> DEFINE a == part(t)
               c == col(x)
    <3>1. a \in [P -> Int] /\ c \in [P -> Int]
      BY <1>2, <1>3
    <3>2. ASSUME NEW p \in P PROVE part(t \cup {x})[p] = a[p] + c[p]
      <4>1. SumOver(f[p], t \cup {x}) = SumOver(f[p], t) + f[p][x]
        BY <1>1, <2>2, SumLaws
      <4> QED BY <4>1 DEF RowSums
    <3>3. part(t \cup {x}) = [p \in P |-> a[p] + c[p]]
      BY <3>2 DEF RowSums
    <3> HIDE DEF a, c, part, col, cols
    <3>4. SumOver(part(t \cup {x}), P) = SumOver(a, P) + SumOver(c, P)
      BY <3>1, <3>3, SumAdds
    <3>5. SumOver(cols, t \cup {x}) = SumOver(cols, t) + cols[x]
      BY <1>4, <2>2, SumLaws
    <3>6. SumOver(a, P) = SumOver(cols, t) /\ SumOver(c, P) = cols[x]
      BY <1>4, <1>6 DEF a, c
    <3> QED BY <3>4, <3>5, <3>6
  <2> QED BY <2>1, <2>2
<1>7. B \in T
  <2> HIDE DEF T
  <2> QED BY <1>5, <1>6, Grow
<1> QED BY <1>7

Inject(h, S) == \A x, y \in S : h[x] = h[y] => x = y

\* A sum over the images of what is told apart.
LEMMA SumMoved ==
  ASSUME NEW S, IsFiniteSet(S), NEW E, NEW h \in [S -> E], Inject(h, S), NEW g \in [E -> Int]
  PROVE /\ IsFiniteSet({h[x] : x \in S})
        /\ SumOver([x \in S |-> g[h[x]]], S) = SumOver(g, {h[x] : x \in S})
<1> DEFINE f == [x \in S |-> g[h[x]]]
           Im(t) == {h[x] : x \in t}
           T == {t \in SUBSET S : SumOver(f, t) = SumOver(g, Im(t))}
<1>1. f \in [S -> Int] /\ \A x \in S : f[x] = g[h[x]]
  OBVIOUS
<1>2. IsFiniteSet(Im(S)) /\ Im(S) \in SUBSET E
  <2>1. h \in Surjection(S, Im(S))
    BY DEF Surjection
  <2>2. IsFiniteSet(Im(S))
    <3> HIDE DEF Im
    <3> QED BY <2>1, FS_Surjection
  <2> QED BY <2>2
<1> HIDE DEF f
<1>3. {} \in T
  <2>1. Im({}) = {}
    OBVIOUS
  <2>2. SumOver(f, {}) = 0
    BY <1>1, SumLaws
  <2>3. SumOver(g, {}) = 0
    <3> HIDE DEF Im
    <3> QED BY <1>2, SumLaws
  <2> HIDE DEF Im
  <2> QED BY <2>1, <2>2, <2>3
<1>4. ASSUME NEW t \in SUBSET S, NEW x \in S, t \in T PROVE t \cup {x} \in T
  <2>1. CASE x \in t
    <3>1. t \cup {x} = t
      BY <2>1
    <3> QED BY <1>4, <3>1
  <2>2. CASE x \notin t
    <3>1. Im(t \cup {x}) = Im(t) \cup {h[x]} /\ h[x] \notin Im(t) /\ Im(t) \in SUBSET Im(S) /\ h[x] \in Im(S)
      BY <2>2 DEF Inject
    <3> HIDE DEF Im
    <3>2. SumOver(f, t \cup {x}) = SumOver(f, t) + f[x]
      BY <1>1, <2>2, SumLaws
    <3>3. SumOver(g, Im(t) \cup {h[x]}) = SumOver(g, Im(t)) + g[h[x]]
      BY <1>2, <3>1, SumLaws
    <3> QED BY <1>1, <1>4, <3>1, <3>2, <3>3
  <2> QED BY <2>1, <2>2
<1>5. S \in T
  <2> HIDE DEF T
  <2> QED BY <1>3, <1>4, Grow
<1> QED BY <1>2, <1>5 DEF f

-----------------------------------------------------------------------------
(* Remainders, powers of 2, and words as numbers. *)

\* The subsets of n elements are counted by the power, which is how a power is known.
LEMMA Subsets ==
  ASSUME NEW n \in Nat
  PROVE IsFiniteSet(SUBSET (1..n)) /\ Cardinality(SUBSET (1..n)) = 2^n
<1>1. IsFiniteSet(1..n) /\ Cardinality(1..n) = n
  BY FS_Interval
<1> DEFINE S == 1..n
<1> HIDE DEF S
<1>2. IsFiniteSet(S) /\ Cardinality(S) = n
  BY <1>1 DEF S
<1>3. IsFiniteSet(SUBSET S) /\ Cardinality(SUBSET S) = 2^Cardinality(S)
  BY <1>2, FS_SUBSET
<1> QED BY <1>2, <1>3 DEF S

\* A power of 2 is a positive number.
LEMMA PowerPositive == ASSUME NEW n \in Nat PROVE 2^n \in Nat /\ 2^n > 0
<1> DEFINE Xs == SUBSET (1..n)
<1>1. Xs # {}
  OBVIOUS
<1>2. IsFiniteSet(Xs) /\ Cardinality(Xs) = 2^n
  BY Subsets
<1> HIDE DEF Xs
<1>3. Cardinality(Xs) \in Nat /\ Cardinality(Xs) # 0
  BY <1>1, <1>2, FS_CardinalityType, FS_EmptySet
<1> QED BY <1>2, <1>3

\* A set of numbers up to n + 1 has n + 1 or it has not.
LEMMA PowerDoubles == ASSUME NEW n \in Nat PROVE 2^(n + 1) = 2 * 2^n
<1> DEFINE S == 1..n
           T == 1..(n + 1)
           Xs == SUBSET S
           Ys == {A \cup {n + 1} : A \in Xs}
           f == [A \in Xs |-> A \cup {n + 1}]
<1>1. /\ IsFiniteSet(Xs) /\ Cardinality(Xs) = 2^n
      /\ IsFiniteSet(SUBSET T) /\ Cardinality(SUBSET T) = 2^(n + 1)
  BY Subsets
<1>2. SUBSET T = Xs \cup Ys
  <2>1. T = S \cup {n + 1} /\ n + 1 \notin S
    OBVIOUS
  <2>2. ASSUME NEW A \in SUBSET T PROVE A \in Xs \cup Ys
    <3>1. A \ {n + 1} \in Xs
      BY <2>1
    <3>2. n + 1 \in A => A = (A \ {n + 1}) \cup {n + 1}
      OBVIOUS
    <3>3. n + 1 \notin A => A = A \ {n + 1}
      OBVIOUS
    <3> HIDE DEF Xs
    <3> QED BY <3>1, <3>2, <3>3
  <2>3. ASSUME NEW A \in Xs PROVE A \in SUBSET T /\ A \cup {n + 1} \in SUBSET T
    BY <2>1
  <2> HIDE DEF Xs, T
  <2>4. Xs \cup Ys \subseteq SUBSET T
    BY <2>3
  <2> QED BY <2>2, <2>4
<1>3. Xs \cap Ys = {}
  OBVIOUS
<1>4. f \in Bijection(Xs, Ys)
  <2>1. f \in [Xs -> Ys]
    OBVIOUS
  <2>2. ASSUME NEW A \in Xs, NEW B \in Xs, f[A] = f[B] PROVE A = B
    <3>1. n + 1 \notin A /\ n + 1 \notin B
      OBVIOUS
    <3>2. A \cup {n + 1} = B \cup {n + 1}
      BY <2>2
    <3> QED BY <3>1, <3>2
  <2>3. \A b \in Ys : \E A \in Xs : f[A] = b
    OBVIOUS
  <2> HIDE DEF f, Xs, Ys
  <2> QED BY <2>1, <2>2, <2>3 DEF Bijection, Injection, Surjection, IsInjective
<1> HIDE DEF Xs, Ys, f, T
<1>5. IsFiniteSet(Ys) /\ Cardinality(Ys) = Cardinality(Xs)
  BY <1>1, <1>4, FS_Bijection DEF ExistsBijection
<1>6. Cardinality(Xs \cup Ys) = Cardinality(Xs) + Cardinality(Ys) - Cardinality(Xs \cap Ys)
  BY <1>1, <1>5, FS_Union
<1>7. Cardinality(Xs \cap Ys) = 0
  BY <1>3, FS_EmptySet
<1>8. Cardinality(Xs) + Cardinality(Xs) - 0 = 2 * Cardinality(Xs)
  BY <1>1, PowerPositive
<1> QED BY <1>1, <1>2, <1>5, <1>6, <1>7, <1>8

\* The quotient and the rest, and the rest of what is written as a quotient and a rest.
LEMMA Quotient ==
  ASSUME NEW a \in Int, NEW q \in Int, q > 0
  PROVE a \div q \in Int /\ a % q \in 0..(q-1) /\ a = q * (a \div q) + (a % q)
  OBVIOUS
\* What a remainder is, with its quotient.
LEMMA Remainder ==
  ASSUME NEW q \in Int, q > 0, NEW m \in Int, NEW n \in 0..(q-1)
  PROVE (q * m + n) % q = n
  OBVIOUS

Same(m, a, b) == \E k \in Int : a = b + m * k

\* The same numbers up to a multiple leave the same rest.
LEMMA SameRests ==
  ASSUME NEW m \in Int, m > 0, NEW a \in Int, NEW b \in Int, Same(m, a, b)
  PROVE a % m = b % m
<1>1. PICK k \in Int : a = b + m * k
  BY DEF Same
<1> DEFINE j == b \div m
           r == b % m
<1>2. j \in Int /\ r \in 0..(m - 1) /\ b = m * j + r
  BY Quotient
<1> HIDE DEF j, r
<1>3. a = m * (j + k) + r /\ j + k \in Int
  BY <1>1, <1>2
<1>4. (m * (j + k) + r) % m = r
  BY <1>2, <1>3, Remainder
<1> QED BY <1>3, <1>4 DEF r

\* A number and its rest, sums, differences and products of the same numbers are the same.
LEMMA SameRest == ASSUME NEW m \in Int, m > 0, NEW a \in Int PROVE a % m \in Int /\ Same(m, a % m, a)
<1>1. a \div m \in Int /\ a % m \in Int /\ a = m * (a \div m) + (a % m)
  BY Quotient
<1>2. a % m = a + m * (-(a \div m)) /\ -(a \div m) \in Int
  BY <1>1
<1> QED BY <1>1, <1>2 DEF Same

\* Equal remainders add up to equal remainders.
LEMMA SameSum ==
  ASSUME NEW m \in Int, NEW a \in Int, NEW b \in Int, NEW c \in Int, NEW d \in Int, Same(m, a, b), Same(m, c, d)
  PROVE Same(m, a + c, b + d) /\ Same(m, a - c, b - d)
<1>1. PICK k \in Int : a = b + m * k
  BY DEF Same
<1>2. PICK l \in Int : c = d + m * l
  BY DEF Same
<1>3. a + c = (b + d) + m * (k + l) /\ k + l \in Int
  BY <1>1, <1>2
<1>4. a - c = (b - d) + m * (k - l) /\ k - l \in Int
  BY <1>1, <1>2
<1> QED BY <1>3, <1>4, Zenon DEF Same

\* Every number has its own remainder.
LEMMA SameItself == ASSUME NEW m \in Int, NEW a \in Int PROVE Same(m, a, a)
<1>1. a = a + m * 0
  OBVIOUS
<1> QED BY <1>1 DEF Same

Weights == [e \in Nat |-> 2^e]

\* The weights of the bits, and the number of words.
LEMMA WeightsType ==
  /\ Weights \in [Nat -> Int] /\ Degree \in Nat /\ Degree >= 2
  /\ Modulus \in Nat /\ Modulus > 0
  /\ \A e \in Nat : Weights[e] = 2^e /\ 2^e \in Nat /\ 2^e > 0
<1>1. Degree \in Nat /\ Degree >= 2
  BY SetAssumption
<1>2. \A e \in Nat : 2^e \in Nat /\ 2^e > 0
  BY PowerPositive
<1>3. \A e \in Nat : 2^e \in Int
  BY <1>2
<1> QED BY <1>1, <1>2, <1>3 DEF Weights, Modulus

\* Words are finite sets of numbers.
LEMMA ElementFinite == \A w \in Element : IsFiniteSet(w) /\ w \in SUBSET Nat /\ w \in SUBSET (0..(Degree - 1))
<1>1. Degree \in Nat
  BY SetAssumption
<1>2. IsFiniteSet(0..(Degree - 1))
  BY <1>1, FS_Interval
<1>3. 0..(Degree - 1) \subseteq Nat
  BY <1>1
<1> QED BY <1>2, <1>3, FS_Subset DEF Element

NumberNext(t, iter) == IF t = {} THEN 0 ELSE iter[t \ {Taken(t)}] + 2^Taken(t)
NumberRun(w) == CHOOSE f : f = [t \in SUBSET w |-> NumberNext(t, f)]

\* The number of a word is the sum of the weights of its bits.
LEMMA NumberIs == ASSUME NEW w \in Element PROVE Number(w) = SumOver(Weights, w) /\ Number(w) \in Nat
<1>1. IsFiniteSet(w) /\ w \in SUBSET Nat
  BY ElementFinite
<1>2. Weights \in [Nat -> Int]
  BY WeightsType
<1>3. PICK g : SumsUp(g, Weights, w)
  BY <1>1, <1>2, SumRun
<1>4. ASSUME NEW t \in SUBSET w, t # {} PROVE Weights[Taken(t)] = 2^Taken(t)
  <2>1. Taken(t) \in Nat
    BY <1>1, <1>4, TakenIn
  <2> QED BY <2>1, WeightsType
<1>5. g = [t \in SUBSET w |-> NumberNext(t, g)]
  <2>0. g \in [SUBSET w -> Int]
    BY <1>3 DEF SumsUp
  <2>1. \A t \in SUBSET w : g[t] = NumberNext(t, g)
    BY <1>3, <1>4 DEF NumberNext, SumsUp
  <2> QED BY <2>0, <2>1
<1> DEFINE iter == NumberRun(w)
<1>6. iter = [t \in SUBSET w |-> NumberNext(t, iter)]
  BY <1>5 DEF NumberRun
<1>7. Number(w) = iter[w]
  BY Zenon DEF Number, FoldSet, MapThenFoldSet, NumberRun, NumberNext, Taken
<1> HIDE DEF iter
<1>8. iter[{}] = 0 /\ \A t \in SUBSET w : t # {} => iter[t] = iter[t \ {Taken(t)}] + Weights[Taken(t)]
  <2>1. \A t \in SUBSET w : iter[t] = NumberNext(t, iter)
    BY <1>6
  <2> QED BY <2>1, <1>4 DEF NumberNext
<1>9. iter[w] = SumOver(Weights, w)
  BY <1>1, <1>2, <1>8, SumTaken
<1>10. SumOver(Weights, w) \in Nat
  <2>1. \A e \in w : Weights[e] \in Nat
    BY <1>1, WeightsType
  <2> QED BY <1>1, <1>2, <2>1, SumNat
<1> QED BY <1>7, <1>9, <1>10

\* The lowest bits of a number.
Low(n, k) == {e \in 0..(k - 1) : (n \div 2^e) % 2 = 1}

\* One bit more of a rest.
LEMMA RestDoubles ==
  ASSUME NEW n \in Nat, NEW q \in Nat, q > 0
  PROVE n % (2 * q) = (n % q) + q * ((n \div q) % 2)
<1> DEFINE a == n \div q
           r == n % q
           b == a \div 2
           s == a % 2
<1>1. a \in Int /\ r \in 0..(q - 1) /\ n = q * a + r
  BY Quotient
<1>2. b \in Int /\ s \in 0..1 /\ a = 2 * b + s
  BY <1>1, Quotient
<1> HIDE DEF a, r, b, s
<1>3. n = (2 * q) * b + (r + q * s) /\ 2 * q \in Int /\ 2 * q > 0
  BY <1>1, <1>2
<1>4. r + q * s \in 0..(2 * q - 1)
  <2>1. CASE s = 0
    BY <1>1, <2>1
  <2>2. CASE s = 1
    BY <1>1, <2>2
  <2> QED BY <1>2, <2>1, <2>2
<1> DEFINE t == r + q * s
           m == 2 * q
<1> HIDE DEF t, m
<1>5. m \in Int /\ m > 0 /\ t \in 0..(m - 1) /\ n = m * b + t
  BY <1>3, <1>4 DEF t, m
<1>6. (m * b + t) % m = t
  BY <1>2, <1>5, Remainder
<1> QED BY <1>5, <1>6 DEF t, m, r, s, a

\* The lowest bits are those of the rest.
LEMMA LowIs ==
  ASSUME NEW n \in Nat, NEW k \in Nat
  PROVE SumOver(Weights, Low(n, k)) = n % 2^k
<1> DEFINE T == {j \in Nat : SumOver(Weights, Low(n, j)) = n % 2^j}
<1>1. \A j \in Nat : IsFiniteSet(0..(j - 1)) /\ 0..(j - 1) \in SUBSET Nat
  BY FS_Interval
<1>2. \A j \in Nat : IsFiniteSet(Low(n, j)) /\ Low(n, j) \in SUBSET Nat
  BY <1>1, FS_Subset DEF Low
<1>3. 0 \in T
  <2>1. Low(n, 0) = {}
    BY DEF Low
  <2>2. SumOver(Weights, {}) = 0
    <3>1. {} \in SUBSET Nat /\ IsFiniteSet({})
      BY FS_EmptySet
    <3> QED BY <3>1, SumLaws, WeightsType
  <2>3. 2^0 = 1
    OBVIOUS
  <2>4. n % 1 = 0
    OBVIOUS
  <2> QED BY <2>1, <2>2, <2>3, <2>4
<1>4. ASSUME NEW j \in Nat, j \in T PROVE j + 1 \in T
  <2> DEFINE bit == (n \div 2^j) % 2
             q == 2^j
  <2>1. Low(n, j + 1) = IF bit = 1 THEN Low(n, j) \cup {j} ELSE Low(n, j)
    <3>1. 0..((j + 1) - 1) = 0..(j - 1) \cup {j} /\ j \notin 0..(j - 1)
      OBVIOUS
    <3> QED BY <3>1, Zenon DEF Low
  <2>2. q \in Nat /\ q > 0 /\ 2^(j + 1) = 2 * q
    BY PowerPositive, PowerDoubles
  <2>3. bit \in 0..1
    <3> HIDE DEF q
    <3>1. n \div q \in Int
      BY <2>2
    <3> QED BY <3>1, Quotient DEF q
  <2> HIDE DEF q, bit
  <2>4. n % 2^(j + 1) = (n % q) + q * bit
    BY <2>2, RestDoubles DEF q, bit
  <2>5. SumOver(Weights, Low(n, j)) = n % q
    BY <1>4 DEF q
  <2>6. n % q \in Int
    BY <2>2
  <2>7. CASE bit = 1
    <3>1. j \notin Low(n, j)
      BY DEF Low
    <3>2. IsFiniteSet(Low(n, j) \cup {j}) /\ Low(n, j) \cup {j} \in SUBSET Nat
      BY <1>2, FS_AddElement
    <3>3. SumOver(Weights, Low(n, j) \cup {j}) = SumOver(Weights, Low(n, j)) + Weights[j]
      <4> DEFINE S == Low(n, j) \cup {j}
                 t == Low(n, j)
      <4>1. S \in SUBSET Nat /\ IsFiniteSet(S) /\ j \in S
        BY <3>2
      <4>2. S \ {j} = t
        BY <3>1
      <4>3. Weights \in [Nat -> Int]
        BY WeightsType
      <4> HIDE DEF S, t
      <4>4. SumOver(Weights, S) = SumOver(Weights, S \ {j}) + Weights[j]
        BY <4>1, <4>3, SumWithout
      <4> QED BY <4>2, <4>4 DEF S, t
    <3>4. Weights[j] = q
      BY WeightsType DEF q
    <3>5. SumOver(Weights, Low(n, j + 1)) = (n % q) + q
      BY <2>1, <2>5, <2>7, <3>3, <3>4
    <3>6. n % 2^(j + 1) = (n % q) + q
      BY <2>2, <2>4, <2>7
    <3> QED BY <3>5, <3>6
  <2>8. CASE bit = 0
    <3>1. SumOver(Weights, Low(n, j + 1)) = n % q
      BY <2>1, <2>5, <2>8
    <3>2. n % 2^(j + 1) = n % q
      BY <2>2, <2>4, <2>6, <2>8
    <3> QED BY <3>1, <3>2
  <2> QED BY <2>3, <2>7, <2>8
<1>5. Nat \subseteq T
  <2> HIDE DEF T
  <2> QED BY <1>3, <1>4, Induct
<1> QED BY <1>5

\* A word of a number is what is left of it.
LEMMA NumberOfWord == ASSUME NEW n \in Int PROVE Word(n) \in Element /\ Number(Word(n)) = n % Modulus /\ n % Modulus \in 0..(Modulus - 1)
<1> DEFINE r == n % Modulus
<1>1. Modulus \in Nat /\ Modulus > 0 /\ Degree \in Nat
  BY WeightsType
<1>2. r \in 0..(Modulus - 1) /\ r \in Nat
  <2> HIDE DEF Modulus
  <2>1. n % Modulus \in 0..(Modulus - 1)
    BY <1>1, Quotient
  <2> QED BY <1>1, <2>1
<1>3. Word(n) = Low(r, Degree)
  BY DEF Word, Low, Modulus
<1>4. Word(n) \in Element
  BY DEF Word, Element
<1> HIDE DEF r
<1>5. SumOver(Weights, Low(r, Degree)) = r % 2^Degree
  BY <1>1, <1>2, LowIs
<1>6. r % Modulus = r
  <2> DEFINE m == Modulus
  <2>1. m \in Int /\ m > 0 /\ r \in 0..(m - 1)
    BY <1>1, <1>2
  <2> HIDE DEF m
  <2>2. (m * 0 + r) % m = r
    BY <2>1, Remainder
  <2>3. m * 0 + r = r
    BY <2>1
  <2> QED BY <2>2, <2>3 DEF m
<1>7. Number(Word(n)) = SumOver(Weights, Word(n))
  BY <1>4, NumberIs
<1> QED BY <1>2, <1>3, <1>4, <1>5, <1>6, <1>7 DEF r, Modulus

\* A word's number is below the power.
LEMMA BelowPower ==
  ASSUME NEW k \in Nat
  PROVE \A w \in SUBSET (0..(k - 1)) : SumOver(Weights, w) < 2^k
<1> DEFINE T == {j \in Nat : \A w \in SUBSET (0..(j - 1)) : SumOver(Weights, w) < 2^j}
<1>1. \A j \in Nat : IsFiniteSet(0..(j - 1)) /\ 0..(j - 1) \in SUBSET Nat
  BY FS_Interval
<1>2. 0 \in T
  <2>1. SumOver(Weights, {}) = 0
    <3>1. {} \in SUBSET Nat /\ IsFiniteSet({})
      BY FS_EmptySet
    <3> QED BY <3>1, SumLaws, WeightsType
  <2>2. 2^0 = 1 /\ 0..(0 - 1) = {}
    OBVIOUS
  <2>3. \A w \in SUBSET (0..(0 - 1)) : w = {}
    BY <2>2
  <2>4. 0 < 2^0
    BY <2>2
  <2> QED BY <2>1, <2>3, <2>4
<1>3. ASSUME NEW j \in Nat, j \in T PROVE j + 1 \in T
  <2>1. ASSUME NEW w \in SUBSET (0..j) PROVE SumOver(Weights, w) < 2^(j + 1)
    <3> DEFINE u == w \ {j}
               q == 2^j
    <3>1. u \in SUBSET (0..(j - 1))
      OBVIOUS
    <3>2. SumOver(Weights, u) < q
      BY <1>3, <3>1
    <3>3. q \in Nat /\ q > 0 /\ 2^(j + 1) = 2 * q /\ Weights[j] = q
      BY PowerPositive, PowerDoubles, WeightsType
    <3>4. IsFiniteSet(w) /\ w \in SUBSET Nat
      <4>1. 0..j = 0..((j + 1) - 1) /\ j + 1 \in Nat
        OBVIOUS
      <4>2. IsFiniteSet(0..j) /\ 0..j \in SUBSET Nat
        BY <1>1, <4>1
      <4> QED BY <4>2, FS_Subset
    <3>5. SumOver(Weights, u) \in Int
      <4>1. u \in SUBSET w
        OBVIOUS
      <4> HIDE DEF u
      <4> QED BY <3>4, <4>1, SumLaws, WeightsType
    <3> HIDE DEF q
    <3>6. CASE j \in w
      <4>1. SumOver(Weights, w) = SumOver(Weights, u) + Weights[j]
        BY <3>4, <3>6, SumWithout, WeightsType
      <4> HIDE DEF u
      <4> QED BY <3>2, <3>3, <3>5, <4>1
    <3>7. CASE j \notin w
      <4>1. u = w
        BY <3>7
      <4> HIDE DEF u
      <4> QED BY <3>2, <3>3, <3>5, <4>1
    <3> QED BY <3>6, <3>7
  <2>2. (j + 1) - 1 = j
    OBVIOUS
  <2>3. \A w \in SUBSET (0..((j + 1) - 1)) : SumOver(Weights, w) < 2^(j + 1)
    BY <2>1, <2>2, Zenon
  <2> QED BY <2>3
<1>4. Nat \subseteq T
  <2> HIDE DEF T
  <2> QED BY <1>2, <1>3, Induct
<1> QED BY <1>4

\* Every word is told by its number.
LEMMA NumberInjects ==
  /\ \A w \in Element : Number(w) \in 0..(Modulus - 1) /\ Number(w) \in Int
  /\ \A v, w \in Element : Number(v) = Number(w) => v = w
  /\ \A w \in Element : Word(Number(w)) = w
<1> DEFINE R == 0..(Modulus - 1)
           f == [w \in Element |-> Number(w)]
<1>1. Modulus \in Nat /\ Modulus > 0 /\ Degree \in Nat
  BY WeightsType
<1>2. \A w \in Element : Number(w) \in R
  <2>1. ASSUME NEW w \in Element PROVE Number(w) \in R
    <3>1. Number(w) = SumOver(Weights, w) /\ Number(w) \in Nat
      BY NumberIs
    <3>2. SumOver(Weights, w) < Modulus
      BY <1>1, BelowPower DEF Element, Modulus
    <3> HIDE DEF Modulus
    <3> QED BY <1>1, <3>1, <3>2
  <2> QED BY <2>1
<1>3. ASSUME NEW n \in R PROVE Word(n) \in Element /\ Number(Word(n)) = n
  <2> DEFINE m == Modulus
  <2>1. m \in Int /\ m > 0 /\ n \in 0..(m - 1) /\ n \in Int
    BY <1>1
  <2>2. Word(n) \in Element /\ Number(Word(n)) = n % m
    BY <2>1, NumberOfWord
  <2> HIDE DEF m
  <2>3. (m * 0 + n) % m = n
    BY <2>1, Remainder
  <2>4. m * 0 + n = n
    BY <2>1
  <2> QED BY <2>2, <2>3, <2>4
<1>4. f \in Surjection(Element, R)
  <2>1. f \in [Element -> R]
    BY <1>2
  <2>2. \A n \in R : \E w \in Element : f[w] = n
    BY <1>3
  <2> HIDE DEF f, R
  <2> QED BY <2>1, <2>2 DEF Surjection
<1>5. IsFiniteSet(Element) /\ Cardinality(Element) = Modulus
  <2>1. IsFiniteSet(0..(Degree - 1)) /\ Cardinality(0..(Degree - 1)) = Degree
    <3>1. IsFiniteSet(0..(Degree - 1)) /\ Cardinality(0..(Degree - 1)) = IF 0 > Degree - 1 THEN 0 ELSE (Degree - 1) - 0 + 1
      BY <1>1, FS_Interval
    <3>2. Degree >= 2
      BY WeightsType
    <3> QED BY <1>1, <3>1, <3>2
  <2> DEFINE D == 0..(Degree - 1)
  <2> HIDE DEF D
  <2>2. IsFiniteSet(D) /\ Cardinality(D) = Degree
    BY <2>1 DEF D
  <2>3. IsFiniteSet(SUBSET D) /\ Cardinality(SUBSET D) = 2^Cardinality(D)
    BY <2>2, FS_SUBSET
  <2> QED BY <2>2, <2>3 DEF D, Element, Modulus
<1>6. Cardinality(R) = Modulus
  <2> DEFINE m == Modulus
  <2>1. m \in Nat /\ m > 0
    BY <1>1
  <2> HIDE DEF m
  <2>2. Cardinality(0..(m - 1)) = IF 0 > m - 1 THEN 0 ELSE (m - 1) - 0 + 1
    BY <2>1, FS_Interval
  <2>3. Cardinality(0..(m - 1)) = m
    BY <2>1, <2>2
  <2> QED BY <2>3 DEF m
<1>7. f \in Injection(Element, R)
  <2> HIDE DEF f, R
  <2> QED BY <1>4, <1>5, <1>6, FS_Surjection
<1>8. \A v, w \in Element : Number(v) = Number(w) => v = w
  <2>1. \A v, w \in Element : f[v] = f[w] => v = w
    BY <1>7 DEF Injection, IsInjective
  <2> QED BY <2>1
<1>9. \A w \in Element : Number(w) \in Int
  BY NumberIs
<1>10. \A w \in Element : Word(Number(w)) = w
  <2>1. ASSUME NEW w \in Element PROVE Word(Number(w)) = w
    <3>1. Number(w) \in R
      BY <1>2
    <3>2. Word(Number(w)) \in Element /\ Number(Word(Number(w))) = Number(w)
      BY <1>3, <3>1
    <3> QED BY <1>8, <3>2
  <2> QED BY <2>1
<1> QED BY <1>2, <1>8, <1>9, <1>10

-----------------------------------------------------------------------------
(* Words and vectors of words add up like numbers, in either ring. *)

Rings == {"xor", "add"}

\* Adding without carries.
LEMMA XorWords ==
  /\ \A x, y \in Element : Plus(x, y) \in Element /\ Plus(x, y) = Plus(y, x)
  /\ \A x, y, z \in Element : Plus(Plus(x, y), z) = Plus(x, Plus(y, z))
  /\ \A x \in Element : Plus(x, {}) = x /\ Plus(x, x) = {}
  /\ {} \in Element
<1>1. \A x, y \in Element : Plus(x, y) \in Element /\ Plus(x, y) = Plus(y, x)
  BY DEF Plus, SymDiff, Element
<1>2. \A x, y, z \in Element : Plus(Plus(x, y), z) = Plus(x, Plus(y, z))
  BY DEF Plus, SymDiff, Element
<1>3. \A x \in Element : Plus(x, {}) = x /\ Plus(x, x) = {}
  BY DEF Plus, SymDiff, Element
<1> QED BY <1>1, <1>2, <1>3 DEF Element

\* The empty word is 0.
LEMMA NumberOfNothing == {} \in Element /\ Number({}) = 0
<1>1. {} \in Element
  BY DEF Element
<1>2. Number({}) = SumOver(Weights, {})
  BY <1>1, NumberIs
<1>3. SumOver(Weights, {}) = 0
  <2>1. {} \in SUBSET Nat /\ IsFiniteSet({}) /\ Weights \in [Nat -> Int]
    BY FS_EmptySet, WeightsType
  <2> QED BY <2>1, SumLaws
<1> QED BY <1>1, <1>2, <1>3

\* A rest and its number leave the same rest.
LEMMA RestOfSum ==
  ASSUME NEW m \in Int, m > 0, NEW a \in Int, NEW b \in Int
  PROVE /\ ((a % m) + b) % m = (a + b) % m /\ (a + (b % m)) % m = (a + b) % m
        /\ a % m \in Int /\ b % m \in Int
<1>1. a % m \in Int /\ Same(m, a % m, a) /\ b % m \in Int /\ Same(m, b % m, b)
  BY SameRest
<1>2. Same(m, a, a) /\ Same(m, b, b)
  BY SameItself
<1>3. Same(m, (a % m) + b, a + b)
  BY <1>1, <1>2, SameSum
<1>4. Same(m, a + (b % m), a + b)
  BY <1>1, <1>2, SameSum
<1> DEFINE r == a % m
           s == b % m
<1>5. r \in Int /\ s \in Int /\ Same(m, r + b, a + b) /\ Same(m, a + s, a + b)
  BY <1>1, <1>3, <1>4
<1> HIDE DEF r, s
<1>6. (r + b) % m = (a + b) % m
  <2>1. r + b \in Int /\ a + b \in Int
    BY <1>5
  <2> QED BY <1>5, <2>1, SameRests
<1>7. (a + s) % m = (a + b) % m
  <2>1. a + s \in Int /\ a + b \in Int
    BY <1>5
  <2> QED BY <1>5, <2>1, SameRests
<1> QED BY <1>5, <1>6, <1>7 DEF r, s

\* Adding with carries, of which the highest is lost.
LEMMA AddWords ==
  /\ \A x, y \in Element : Add("add", x, y) \in Element /\ Number(Add("add", x, y)) = (Number(x) + Number(y)) % Modulus
  /\ \A x \in Element : Minus("add", x) \in Element /\ Number(Minus("add", x)) = (Modulus - Number(x)) % Modulus
<1>1. Modulus \in Int /\ \A x \in Element : Number(x) \in Int
  BY WeightsType, NumberInjects
<1>2. ASSUME NEW x \in Element, NEW y \in Element
      PROVE Add("add", x, y) \in Element /\ Number(Add("add", x, y)) = (Number(x) + Number(y)) % Modulus
  <2>1. Number(x) + Number(y) \in Int
    BY <1>1
  <2> QED BY <2>1, NumberOfWord DEF Add
<1>3. ASSUME NEW x \in Element
      PROVE Minus("add", x) \in Element /\ Number(Minus("add", x)) = (Modulus - Number(x)) % Modulus
  <2>1. Modulus - Number(x) \in Int
    BY <1>1
  <2>2. Word(Modulus - Number(x)) \in Element /\ Number(Word(Modulus - Number(x))) = (Modulus - Number(x)) % Modulus
    BY <2>1, NumberOfWord
  <2> QED BY <2>2 DEF Minus, Modulus
<1> QED BY <1>2, <1>3

\* Words are a commutative group in either ring.
LEMMA GroupLaws ==
  ASSUME NEW ring \in Rings
  PROVE /\ \A x, y \in Element : Add(ring, x, y) \in Element /\ Add(ring, x, y) = Add(ring, y, x)
        /\ \A x, y, z \in Element : Add(ring, Add(ring, x, y), z) = Add(ring, x, Add(ring, y, z))
        /\ \A x \in Element : Add(ring, x, {}) = x /\ Minus(ring, x) \in Element /\ Add(ring, x, Minus(ring, x)) = {}
        /\ {} \in Element
<1>1. CASE ring = "xor"
  BY <1>1, XorWords DEF Add, Minus
<1>2. CASE ring = "add"
  <2> DEFINE m == Modulus
  <2>1. m \in Int /\ m > 0
    BY WeightsType
  <2>2. \A x \in Element : Number(x) \in 0..(m - 1) /\ Number(x) \in Int
    BY NumberInjects
  <2>3. \A x, y \in Element : Number(x) = Number(y) => x = y
    BY NumberInjects
  <2>4. \A x, y \in Element : Add("add", x, y) \in Element /\ Number(Add("add", x, y)) = (Number(x) + Number(y)) % m
    BY AddWords
  <2>5. \A x \in Element : Minus("add", x) \in Element /\ Number(Minus("add", x)) = (m - Number(x)) % m
    BY AddWords
  <2> HIDE DEF m
  <2>6. ASSUME NEW x \in Element, NEW y \in Element PROVE Add("add", x, y) = Add("add", y, x)
    <3>1. Number(x) + Number(y) = Number(y) + Number(x)
      BY <2>2
    <3> QED BY <2>3, <2>4, <3>1
  <2>7. ASSUME NEW x \in Element, NEW y \in Element, NEW z \in Element
        PROVE Add("add", Add("add", x, y), z) = Add("add", x, Add("add", y, z))
    <3> DEFINE a == Number(x)
               b == Number(y)
               c == Number(z)
    <3>1. a \in Int /\ b \in Int /\ c \in Int
      BY <2>2
    <3>2. Number(Add("add", Add("add", x, y), z)) = (((a + b) % m) + c) % m
      BY <2>4
    <3>3. Number(Add("add", x, Add("add", y, z))) = (a + ((b + c) % m)) % m
      BY <2>4
    <3>4. Add("add", Add("add", x, y), z) \in Element /\ Add("add", x, Add("add", y, z)) \in Element
      BY <2>4
    <3> HIDE DEF a, b, c
    <3>5. (((a + b) % m) + c) % m = ((a + b) + c) % m
      <4>1. a + b \in Int
        BY <3>1
      <4> QED BY <2>1, <3>1, <4>1, RestOfSum
    <3>6. (a + ((b + c) % m)) % m = (a + (b + c)) % m
      <4>1. b + c \in Int
        BY <3>1
      <4> QED BY <2>1, <3>1, <4>1, RestOfSum
    <3>7. (a + b) + c = a + (b + c)
      BY <3>1
    <3>8. Number(Add("add", Add("add", x, y), z)) = Number(Add("add", x, Add("add", y, z)))
      BY <3>2, <3>3, <3>5, <3>6, <3>7
    <3> QED BY <2>3, <3>4, <3>8
  <2>8. ASSUME NEW x \in Element PROVE Add("add", x, {}) = x
    <3> DEFINE a == Number(x)
    <3>1. a \in 0..(m - 1) /\ a \in Int
      BY <2>2
    <3>2. Number(Add("add", x, {})) = (a + 0) % m /\ Add("add", x, {}) \in Element
      BY <2>4, NumberOfNothing
    <3> HIDE DEF a
    <3>3. (m * 0 + a) % m = a
      BY <2>1, <3>1, Remainder
    <3>4. m * 0 + a = a + 0
      BY <2>1, <3>1
    <3>5. Number(Add("add", x, {})) = Number(x)
      BY <3>2, <3>3, <3>4 DEF a
    <3> QED BY <2>3, <3>2, <3>5
  <2>9. ASSUME NEW x \in Element PROVE Add("add", x, Minus("add", x)) = {}
    <3> DEFINE a == Number(x)
    <3>1. a \in Int
      BY <2>2
    <3>2. Number(Add("add", x, Minus("add", x))) = (a + ((m - a) % m)) % m /\ Add("add", x, Minus("add", x)) \in Element
      BY <2>4, <2>5
    <3> HIDE DEF a
    <3>3. (a + ((m - a) % m)) % m = (a + (m - a)) % m
      <4>1. m - a \in Int
        BY <2>1, <3>1
      <4> QED BY <2>1, <3>1, <4>1, RestOfSum
    <3>4. a + (m - a) = m * 1 + 0
      BY <2>1, <3>1
    <3>5. (m * 1 + 0) % m = 0
      BY <2>1, Remainder
    <3>6. Number(Add("add", x, Minus("add", x))) = Number({})
      BY <3>2, <3>3, <3>4, <3>5, NumberOfNothing
    <3> QED BY <2>3, <3>2, <3>6, NumberOfNothing
  <2>10. \A x, y \in Element : Add("add", x, y) \in Element /\ Add("add", x, y) = Add("add", y, x)
    BY <2>4, <2>6
  <2>11. \A x, y, z \in Element : Add("add", Add("add", x, y), z) = Add("add", x, Add("add", y, z))
    BY <2>7
  <2>12. \A x \in Element : Add("add", x, {}) = x /\ Minus("add", x) \in Element /\ Add("add", x, Minus("add", x)) = {}
    BY <2>5, <2>8, <2>9
  <2>13. {} \in Element
    BY NumberOfNothing
  <2> QED BY <1>2, <2>10, <2>11, <2>12, <2>13
<1> QED BY <1>1, <1>2 DEF Rings

Negated(ring, v) == [b \in Bin |-> Minus(ring, v[b])]

\* Vectors are one bin by bin.
LEMMA VectorLaws ==
  ASSUME NEW ring \in Rings
  PROVE /\ \A x, y \in Vector : AddAll(ring, x, y) \in Vector /\ AddAll(ring, x, y) = AddAll(ring, y, x)
        /\ \A x, y, z \in Vector : AddAll(ring, AddAll(ring, x, y), z) = AddAll(ring, x, AddAll(ring, y, z))
        /\ \A x \in Vector : AddAll(ring, x, Zeros) = x /\ Negated(ring, x) \in Vector /\ AddAll(ring, x, Negated(ring, x)) = Zeros
        /\ Zeros \in Vector
        /\ \A x, y \in Vector, b \in Bin : AddAll(ring, x, y)[b] = Add(ring, x[b], y[b])
<1>1. Zeros \in Vector
  BY NumberOfNothing DEF Zeros, Vector
<1>2. ASSUME NEW x \in Vector, NEW y \in Vector
      PROVE /\ AddAll(ring, x, y) = [b \in Bin |-> Add(ring, x[b], y[b])]
            /\ AddAll(ring, x, y) \in Vector /\ \A b \in Bin : AddAll(ring, x, y)[b] = Add(ring, x[b], y[b])
  <2>1. AddAll(ring, x, y) = [b \in Bin |-> Add(ring, x[b], y[b])]
    BY DEF AddAll, Vector
  <2>2. \A b \in Bin : Add(ring, x[b], y[b]) \in Element
    BY GroupLaws DEF Vector
  <2> QED BY <2>1, <2>2 DEF Vector
<1>3. ASSUME NEW x \in Vector, NEW y \in Vector PROVE AddAll(ring, x, y) = AddAll(ring, y, x)
  <2>1. \A b \in Bin : Add(ring, x[b], y[b]) = Add(ring, y[b], x[b])
    BY GroupLaws DEF Vector
  <2>2. [b \in Bin |-> Add(ring, x[b], y[b])] = [b \in Bin |-> Add(ring, y[b], x[b])]
    BY <2>1, Zenon
  <2> QED BY <1>2, <2>2
<1>4. ASSUME NEW x \in Vector, NEW y \in Vector, NEW z \in Vector
      PROVE AddAll(ring, AddAll(ring, x, y), z) = AddAll(ring, x, AddAll(ring, y, z))
  <2>1. AddAll(ring, x, y) \in Vector /\ AddAll(ring, y, z) \in Vector
    BY <1>2
  <2> DEFINE l == AddAll(ring, AddAll(ring, x, y), z)
             r == AddAll(ring, x, AddAll(ring, y, z))
  <2>2. \A b \in Bin : l[b] = Add(ring, Add(ring, x[b], y[b]), z[b])
    BY <1>2, <2>1
  <2>3. \A b \in Bin : r[b] = Add(ring, x[b], Add(ring, y[b], z[b]))
    BY <1>2, <2>1
  <2>4. \A b \in Bin : x[b] \in Element /\ y[b] \in Element /\ z[b] \in Element
    BY DEF Vector
  <2>5. l \in Vector /\ r \in Vector
    BY <1>2, <2>1
  <2> HIDE DEF l, r
  <2>6. ASSUME NEW b \in Bin PROVE l[b] = r[b]
    <3> DEFINE u == x[b]
               v == y[b]
               w == z[b]
    <3>1. u \in Element /\ v \in Element /\ w \in Element
      BY <2>4
    <3>2. l[b] = Add(ring, Add(ring, u, v), w) /\ r[b] = Add(ring, u, Add(ring, v, w))
      BY <2>2, <2>3
    <3> HIDE DEF u, v, w
    <3> QED BY <3>1, <3>2, GroupLaws
  <2>7. l = r
    BY <2>5, <2>6 DEF Vector
  <2> QED BY <2>7 DEF l, r
<1>5. ASSUME NEW x \in Vector
      PROVE AddAll(ring, x, Zeros) = x /\ Negated(ring, x) \in Vector /\ AddAll(ring, x, Negated(ring, x)) = Zeros
  <2>1. \A b \in Bin : x[b] \in Element /\ Minus(ring, x[b]) \in Element
    BY GroupLaws DEF Vector
  <2>2. Negated(ring, x) \in Vector
    BY <2>1 DEF Negated, Vector
  <2> DEFINE s == AddAll(ring, x, Zeros)
             t == AddAll(ring, x, Negated(ring, x))
  <2>3. s \in Vector /\ t \in Vector
    BY <1>1, <1>2, <2>2
  <2>4. \A b \in Bin : s[b] = Add(ring, x[b], {})
    BY <1>1, <1>2 DEF Zeros
  <2>5. \A b \in Bin : t[b] = Add(ring, x[b], Minus(ring, x[b]))
    BY <1>2, <2>2 DEF Negated
  <2> HIDE DEF s, t
  <2>6. ASSUME NEW b \in Bin PROVE s[b] = x[b] /\ t[b] = {}
    <3> DEFINE u == x[b]
    <3>1. u \in Element
      BY <2>1
    <3>2. s[b] = Add(ring, u, {}) /\ t[b] = Add(ring, u, Minus(ring, u))
      BY <2>4, <2>5
    <3> HIDE DEF u
    <3>3. Add(ring, u, {}) = u /\ Add(ring, u, Minus(ring, u)) = {}
      BY <3>1, GroupLaws
    <3> QED BY <3>2, <3>3 DEF u
  <2>7. s = x
    BY <2>3, <2>6 DEF Vector
  <2>8. t = Zeros
    BY <1>1, <2>3, <2>6 DEF Vector, Zeros
  <2> QED BY <2>2, <2>7, <2>8 DEF s, t
<1> QED BY <1>1, <1>2, <1>3, <1>4, <1>5

\* Vectors of the same words are the same.
LEMMA SameVectors == ASSUME NEW x \in Vector, NEW y \in Vector, \A b \in Bin : x[b] = y[b] PROVE x = y
BY DEF Vector

-----------------------------------------------------------------------------
(* Totals of vectors. *)

Joining(ring, x) == [p \in DOMAIN x |-> [v \in Vector |-> AddAll(ring, v, x[p])]]

\* Adding a vector is a step of a fold, in any order.
LEMMA JoiningActs ==
  ASSUME NEW ring \in Rings, NEW D, NEW x \in [D -> Vector], NEW S \in SUBSET D
  PROVE /\ \A p \in S, v \in Vector : Joining(ring, x)[p][v] = AddAll(ring, v, x[p])
        /\ Acts(Joining(ring, x), S, Vector) /\ Commute(Joining(ring, x), S, Vector)
<1>1. \A p \in S : x[p] \in Vector /\ Joining(ring, x)[p] = [v \in Vector |-> AddAll(ring, v, x[p])]
  BY DEF Joining
<1>2. \A v, w \in Vector : AddAll(ring, v, w) \in Vector
  BY VectorLaws
<1>3. ASSUME NEW p \in S PROVE Joining(ring, x)[p] \in [Vector -> Vector] /\ \A v \in Vector : Joining(ring, x)[p][v] = AddAll(ring, v, x[p])
  BY <1>1, <1>2
<1>4. ASSUME NEW p \in S, NEW q \in S, NEW v \in Vector
      PROVE Joining(ring, x)[p][Joining(ring, x)[q][v]] = Joining(ring, x)[q][Joining(ring, x)[p][v]]
  <2> DEFINE a == x[p]
             b == x[q]
  <2>1. a \in Vector /\ b \in Vector
    BY <1>1
  <2>2. Joining(ring, x)[q][v] = AddAll(ring, v, b) /\ Joining(ring, x)[p][v] = AddAll(ring, v, a)
    BY <1>3
  <2>3. AddAll(ring, v, b) \in Vector /\ AddAll(ring, v, a) \in Vector
    BY <1>2, <2>1
  <2>4. /\ Joining(ring, x)[p][AddAll(ring, v, b)] = AddAll(ring, AddAll(ring, v, b), a)
        /\ Joining(ring, x)[q][AddAll(ring, v, a)] = AddAll(ring, AddAll(ring, v, a), b)
    BY <1>3, <2>3
  <2> HIDE DEF a, b
  <2>5. AddAll(ring, AddAll(ring, v, b), a) = AddAll(ring, v, AddAll(ring, b, a))
    BY <2>1, VectorLaws
  <2>6. AddAll(ring, AddAll(ring, v, a), b) = AddAll(ring, v, AddAll(ring, a, b))
    BY <2>1, VectorLaws
  <2>7. AddAll(ring, a, b) = AddAll(ring, b, a)
    BY <2>1, VectorLaws
  <2> QED BY <2>2, <2>4, <2>5, <2>6, <2>7
<1> QED BY <1>3, <1>4 DEF Acts, Commute

TotalNext(ring, x, t, iter) == IF t = {} THEN Zeros ELSE AddAll(ring, iter[t \ {Taken(t)}], x[Taken(t)])
TotalRun(ring, x, S) == CHOOSE f : f = [t \in SUBSET S |-> TotalNext(ring, x, t, f)]

\* A total is a fold.
LEMMA TotalIs ==
  ASSUME NEW ring \in Rings, NEW D, NEW x \in [D -> Vector], NEW S \in SUBSET D, IsFiniteSet(S)
  PROVE TotalOf(ring, x, S) = FoldOf(Joining(ring, x), Zeros, S, Vector)
<1> DEFINE H == Joining(ring, x)
           iter == TotalRun(ring, x, S)
<1>1. Acts(H, S, Vector) /\ \A p \in S, v \in Vector : H[p][v] = AddAll(ring, v, x[p])
  BY JoiningActs
<1>2. Zeros \in Vector
  BY VectorLaws
<1> HIDE DEF H
<1>3. PICK g : IsFold(g, H, Zeros, S, Vector)
  BY <1>1, <1>2, Folding
<1>4. g \in [SUBSET S -> Vector] /\ \A t \in SUBSET S : g[t] = FoldedOn(H, Zeros, t, g)
  BY <1>3 DEF IsFold
<1>5. ASSUME NEW t \in SUBSET S PROVE g[t] = TotalNext(ring, x, t, g)
  <2>1. CASE t = {}
    BY <1>4, <2>1 DEF FoldedOn, TotalNext
  <2>2. CASE t # {}
    <3>1. Taken(t) \in S /\ g[t \ {Taken(t)}] \in Vector
      BY <1>4, <2>2, TakenIn
    <3>2. g[t] = H[Taken(t)][g[t \ {Taken(t)}]]
      BY <1>4, <2>2 DEF FoldedOn
    <3> QED BY <1>1, <2>2, <3>1, <3>2 DEF TotalNext
  <2> QED BY <2>1, <2>2
<1>6. g = [t \in SUBSET S |-> TotalNext(ring, x, t, g)]
  BY <1>4, <1>5
<1>7. iter = [t \in SUBSET S |-> TotalNext(ring, x, t, iter)]
  BY <1>6 DEF TotalRun
<1>8. TotalOf(ring, x, S) = iter[S]
  BY Zenon DEF TotalOf, FoldSet, MapThenFoldSet, TotalRun, TotalNext, Taken
<1> HIDE DEF iter
<1>9. \A t \in SUBSET S : iter[t] = TotalNext(ring, x, t, iter)
  BY <1>7
<1>10. ASSUME NEW t \in SUBSET S, t # {}, iter[t \ {Taken(t)}] \in Vector
       PROVE iter[t] = H[Taken(t)][iter[t \ {Taken(t)}]]
  <2>1. Taken(t) \in S
    BY <1>10, TakenIn
  <2> QED BY <1>1, <1>9, <1>10, <2>1 DEF TotalNext
<1>11. iter[{}] = Zeros
  BY <1>9 DEF TotalNext
<1>12. Takes(iter, H, Zeros, S, Vector)
  BY <1>10, <1>11 DEF Takes
<1>13. iter[S] = FoldOf(H, Zeros, S, Vector)
  BY <1>1, <1>2, <1>12, FoldTaken
<1> QED BY <1>8, <1>13 DEF H

\* The total of nothing, and with a vector more.
LEMMA TotalLaws ==
  ASSUME NEW ring \in Rings, NEW D, NEW x \in [D -> Vector], NEW S \in SUBSET D, IsFiniteSet(S)
  PROVE /\ TotalOf(ring, x, {}) = Zeros
        /\ \A t \in SUBSET S : TotalOf(ring, x, t) \in Vector
        /\ \A t \in SUBSET S, p \in S : p \notin t => TotalOf(ring, x, t \cup {p}) = AddAll(ring, TotalOf(ring, x, t), x[p])
<1> DEFINE H == Joining(ring, x)
<1>1. /\ \A p \in S, v \in Vector : H[p][v] = AddAll(ring, v, x[p])
      /\ Acts(H, S, Vector) /\ Commute(H, S, Vector)
  BY JoiningActs
<1>2. Zeros \in Vector
  BY VectorLaws
<1>3. ASSUME NEW t \in SUBSET S PROVE TotalOf(ring, x, t) = FoldOf(H, Zeros, t, Vector)
  <2>1. t \in SUBSET D /\ IsFiniteSet(t)
    BY FS_Subset
  <2> QED BY <2>1, TotalIs
<1> HIDE DEF H
<1>4. /\ FoldOf(H, Zeros, {}, Vector) = Zeros
      /\ \A t \in SUBSET S : FoldOf(H, Zeros, t, Vector) \in Vector
      /\ \A t \in SUBSET S, p \in S : p \notin t => FoldOf(H, Zeros, t \cup {p}, Vector) = H[p][FoldOf(H, Zeros, t, Vector)]
  BY <1>1, <1>2, FoldLaws
<1>5. \A t \in SUBSET S, p \in S : t \cup {p} \in SUBSET S
  OBVIOUS
<1>6. {} \in SUBSET S
  OBVIOUS
<1>7. TotalOf(ring, x, {}) = Zeros
  BY <1>3, <1>4, <1>6
<1>8. \A t \in SUBSET S : TotalOf(ring, x, t) \in Vector
  BY <1>3, <1>4
<1>9. ASSUME NEW t \in SUBSET S, NEW p \in S, p \notin t
      PROVE TotalOf(ring, x, t \cup {p}) = AddAll(ring, TotalOf(ring, x, t), x[p])
  <2>1. TotalOf(ring, x, t \cup {p}) = H[p][TotalOf(ring, x, t)]
    BY <1>3, <1>4, <1>5, <1>9
  <2> QED BY <1>1, <1>8, <2>1
<1> QED BY <1>7, <1>8, <1>9

\* The total without one of its vectors.
LEMMA TotalWithout ==
  ASSUME NEW ring \in Rings, NEW D, NEW x \in [D -> Vector], NEW S \in SUBSET D, IsFiniteSet(S), NEW p \in S
  PROVE /\ TotalOf(ring, x, S) \in Vector /\ TotalOf(ring, x, S \ {p}) \in Vector
        /\ TotalOf(ring, x, S) = AddAll(ring, TotalOf(ring, x, S \ {p}), x[p])
<1> DEFINE t == S \ {p}
<1>1. t \cup {p} = S /\ t \in SUBSET S /\ p \notin t
  OBVIOUS
<1> HIDE DEF t
<1>2. TotalOf(ring, x, t \cup {p}) = AddAll(ring, TotalOf(ring, x, t), x[p])
  BY <1>1, TotalLaws
<1>3. TotalOf(ring, x, S) \in Vector /\ TotalOf(ring, x, t) \in Vector
  BY <1>1, TotalLaws
<1> QED BY <1>1, <1>2, <1>3 DEF t

\* Totals of the same vectors.
LEMMA TotalAgree ==
  ASSUME NEW ring \in Rings, NEW D, NEW x \in [D -> Vector], NEW E, NEW y \in [E -> Vector],
         NEW S \in SUBSET D, S \in SUBSET E, IsFiniteSet(S), Alike(x, y, S)
  PROVE TotalOf(ring, x, S) = TotalOf(ring, y, S)
<1>1. Acts(Joining(ring, x), S, Vector)
  BY JoiningActs
<1>2. DoSame(Joining(ring, x), Joining(ring, y), S)
  BY DEF DoSame, Joining, Alike
<1>3. Zeros \in Vector
  BY VectorLaws
<1>4. FoldOf(Joining(ring, x), Zeros, S, Vector) = FoldOf(Joining(ring, y), Zeros, S, Vector)
  BY <1>1, <1>2, <1>3, FoldAgree
<1>5. TotalOf(ring, x, S) = FoldOf(Joining(ring, x), Zeros, S, Vector)
  BY TotalIs
<1>6. TotalOf(ring, y, S) = FoldOf(Joining(ring, y), Zeros, S, Vector)
  BY TotalIs
<1> QED BY <1>4, <1>5, <1>6

Additive(r1, r2, h) ==
  /\ h \in [Vector -> Vector] /\ h[Zeros] = Zeros
  /\ \A v, w \in Vector : h[AddAll(r1, v, w)] = AddAll(r2, h[v], h[w])
Images(h, x) == [p \in DOMAIN x |-> h[x[p]]]

\* What turns sums into sums turns totals into totals.
LEMMA TotalMoved ==
  ASSUME NEW r1 \in Rings, NEW r2 \in Rings, NEW h, Additive(r1, r2, h),
         NEW D, NEW x \in [D -> Vector], NEW S \in SUBSET D, IsFiniteSet(S)
  PROVE /\ h[TotalOf(r1, x, S)] = TotalOf(r2, Images(h, x), S)
        /\ Images(h, x) \in [D -> Vector] /\ \A p \in D : Images(h, x)[p] = h[x[p]]
<1> DEFINE y == Images(h, x)
           T == {t \in SUBSET S : h[TotalOf(r1, x, t)] = TotalOf(r2, y, t)}
<1>1. y \in [D -> Vector] /\ \A p \in D : y[p] = h[x[p]]
  BY DEF Images, Additive
<1> HIDE DEF y
<1>2. TotalOf(r1, x, {}) = Zeros /\ TotalOf(r2, y, {}) = Zeros
  BY <1>1, TotalLaws
<1>3. {} \in T
  BY <1>2 DEF Additive
<1>4. ASSUME NEW t \in SUBSET S, NEW p \in S, t \in T PROVE t \cup {p} \in T
  <2>1. CASE p \in t
    <3>1. t \cup {p} = t
      BY <2>1
    <3> QED BY <1>4, <3>1
  <2>2. CASE p \notin t
    <3>1. TotalOf(r1, x, t) \in Vector /\ TotalOf(r1, x, t \cup {p}) = AddAll(r1, TotalOf(r1, x, t), x[p])
      BY <2>2, TotalLaws
    <3>2. TotalOf(r2, y, t \cup {p}) = AddAll(r2, TotalOf(r2, y, t), y[p])
      BY <1>1, <2>2, TotalLaws
    <3>3. x[p] \in Vector /\ y[p] = h[x[p]]
      BY <1>1
    <3>4. h[AddAll(r1, TotalOf(r1, x, t), x[p])] = AddAll(r2, h[TotalOf(r1, x, t)], h[x[p]])
      BY <3>1, <3>3 DEF Additive
    <3> QED BY <1>4, <3>1, <3>2, <3>3, <3>4
  <2> QED BY <2>1, <2>2
<1>5. S \in T
  <2> HIDE DEF T
  <2> QED BY <1>3, <1>4, Grow
<1> QED BY <1>1, <1>5 DEF y

Both(ring, x, y) == [p \in DOMAIN x |-> AddAll(ring, x[p], y[p])]

\* Four vectors add up in either grouping.
LEMMA AddFour ==
  ASSUME NEW ring \in Rings, NEW a \in Vector, NEW b \in Vector, NEW c \in Vector, NEW d \in Vector
  PROVE AddAll(ring, AddAll(ring, a, b), AddAll(ring, c, d)) = AddAll(ring, AddAll(ring, a, c), AddAll(ring, b, d))
<1> DEFINE sum(u, v) == AddAll(ring, u, v)
<1>1. \A u, v \in Vector : sum(u, v) \in Vector /\ sum(u, v) = sum(v, u)
  BY VectorLaws
<1>2. \A u, v, w \in Vector : sum(sum(u, v), w) = sum(u, sum(v, w))
  BY VectorLaws
<1> HIDE DEF sum
<1>3. sum(sum(a, b), sum(c, d)) = sum(a, sum(b, sum(c, d)))
  BY <1>1, <1>2
<1>4. sum(sum(a, c), sum(b, d)) = sum(a, sum(c, sum(b, d)))
  BY <1>1, <1>2
<1>5. sum(b, sum(c, d)) = sum(sum(b, c), d) /\ sum(c, sum(b, d)) = sum(sum(c, b), d) /\ sum(b, c) = sum(c, b)
  BY <1>1, <1>2
<1> QED BY <1>3, <1>4, <1>5 DEF sum

\* A total of sums is the sum of both totals.
LEMMA TotalAdds ==
  ASSUME NEW ring \in Rings, NEW D, NEW x \in [D -> Vector], NEW y \in [D -> Vector], NEW S \in SUBSET D, IsFiniteSet(S)
  PROVE /\ TotalOf(ring, Both(ring, x, y), S) = AddAll(ring, TotalOf(ring, x, S), TotalOf(ring, y, S))
        /\ Both(ring, x, y) \in [D -> Vector] /\ \A p \in D : Both(ring, x, y)[p] = AddAll(ring, x[p], y[p])
<1> DEFINE z == Both(ring, x, y)
           T == {t \in SUBSET S : TotalOf(ring, z, t) = AddAll(ring, TotalOf(ring, x, t), TotalOf(ring, y, t))}
<1>1. z \in [D -> Vector] /\ \A p \in D : z[p] = AddAll(ring, x[p], y[p])
  <2>1. \A p \in D : AddAll(ring, x[p], y[p]) \in Vector
    BY VectorLaws
  <2> QED BY <2>1 DEF Both
<1> HIDE DEF z
<1>2. TotalOf(ring, x, {}) = Zeros /\ TotalOf(ring, y, {}) = Zeros /\ TotalOf(ring, z, {}) = Zeros
  BY <1>1, TotalLaws
<1>3. {} \in T
  BY <1>2, VectorLaws
<1>4. ASSUME NEW t \in SUBSET S, NEW p \in S, t \in T PROVE t \cup {p} \in T
  <2>1. CASE p \in t
    <3>1. t \cup {p} = t
      BY <2>1
    <3> QED BY <1>4, <3>1
  <2>2. CASE p \notin t
    <3> DEFINE a == TotalOf(ring, x, t)
               b == TotalOf(ring, y, t)
    <3>1. a \in Vector /\ TotalOf(ring, x, t \cup {p}) = AddAll(ring, a, x[p])
      BY <2>2, TotalLaws
    <3>2. b \in Vector /\ TotalOf(ring, y, t \cup {p}) = AddAll(ring, b, y[p])
      BY <2>2, TotalLaws
    <3>3. TotalOf(ring, z, t \cup {p}) = AddAll(ring, TotalOf(ring, z, t), z[p])
      BY <1>1, <2>2, TotalLaws
    <3>4. TotalOf(ring, z, t) = AddAll(ring, a, b) /\ z[p] = AddAll(ring, x[p], y[p]) /\ x[p] \in Vector /\ y[p] \in Vector
      BY <1>1, <1>4
    <3> HIDE DEF a, b
    <3>5. AddAll(ring, AddAll(ring, a, b), AddAll(ring, x[p], y[p])) = AddAll(ring, AddAll(ring, a, x[p]), AddAll(ring, b, y[p]))
      BY <3>1, <3>2, <3>4, AddFour
    <3> QED BY <3>1, <3>2, <3>3, <3>4, <3>5
  <2> QED BY <2>1, <2>2
<1>5. S \in T
  <2> HIDE DEF T
  <2> QED BY <1>3, <1>4, Grow
<1> QED BY <1>1, <1>5 DEF z

\* There are finitely many parties and bins.
LEMMA Parties ==
  /\ N \in Nat /\ N >= 2 /\ 0 \in Party /\ N - 1 \in Party /\ N - 1 \in Sender
  /\ IsFiniteSet(Party) /\ IsFiniteSet(Sender) /\ Sender \in SUBSET Party /\ Sender = Party \ {0}
  /\ IsFiniteSet(Bin) /\ Bins \in Nat /\ Bins > 0 /\ 1 \in Bin
<1>1. N \in Nat /\ N >= 2 /\ Bins \in Nat /\ Bins > 0
  BY SetAssumption
<1>2. IsFiniteSet(0..(N - 1)) /\ IsFiniteSet(1..Bins)
  BY <1>1, FS_Interval
<1>3. Sender \in SUBSET Party
  BY DEF Sender
<1>4. IsFiniteSet(Party) /\ IsFiniteSet(Bin)
  BY <1>2 DEF Party, Bin
<1>5. IsFiniteSet(Sender)
  BY <1>3, <1>4, FS_Subset
<1>6. 0 \in Party /\ N - 1 \in Party /\ N - 1 # 0 /\ 1 \in Bin
  BY <1>1 DEF Party, Bin
<1> QED BY <1>1, <1>3, <1>4, <1>5, <1>6 DEF Sender

-----------------------------------------------------------------------------
(* Products of words. *)

WordTotal(v, S) == FoldSet(LAMBDA e, acc : Plus(acc, v[e]), {}, S)
Merging(v) == [e \in DOMAIN v |-> [w \in Element |-> Plus(w, v[e])]]

\* Adding a word is a step of a fold, in any order.
LEMMA MergingActs ==
  ASSUME NEW D, NEW v \in [D -> Element], NEW S \in SUBSET D
  PROVE /\ \A e \in S, w \in Element : Merging(v)[e][w] = Plus(w, v[e])
        /\ Acts(Merging(v), S, Element) /\ Commute(Merging(v), S, Element)
<1>1. \A e \in S : v[e] \in Element /\ Merging(v)[e] = [w \in Element |-> Plus(w, v[e])]
  BY DEF Merging
<1>2. \A u, w \in Element : Plus(u, w) \in Element
  BY XorWords
<1>3. ASSUME NEW e \in S PROVE Merging(v)[e] \in [Element -> Element] /\ \A w \in Element : Merging(v)[e][w] = Plus(w, v[e])
  BY <1>1, <1>2
<1>4. ASSUME NEW d \in S, NEW e \in S, NEW w \in Element PROVE Merging(v)[d][Merging(v)[e][w]] = Merging(v)[e][Merging(v)[d][w]]
  <2> DEFINE a == v[d]
             b == v[e]
  <2>1. a \in Element /\ b \in Element
    BY <1>1
  <2>2. Merging(v)[e][w] = Plus(w, b) /\ Merging(v)[d][w] = Plus(w, a)
    BY <1>3
  <2>3. Plus(w, b) \in Element /\ Plus(w, a) \in Element
    BY <1>2, <2>1
  <2>4. Merging(v)[d][Plus(w, b)] = Plus(Plus(w, b), a) /\ Merging(v)[e][Plus(w, a)] = Plus(Plus(w, a), b)
    BY <1>3, <2>3
  <2> HIDE DEF a, b
  <2>5. Plus(Plus(w, b), a) = Plus(w, Plus(b, a)) /\ Plus(Plus(w, a), b) = Plus(w, Plus(a, b)) /\ Plus(a, b) = Plus(b, a)
    BY <2>1, XorWords
  <2> QED BY <2>2, <2>4, <2>5
<1> QED BY <1>3, <1>4 DEF Acts, Commute

WordNext(v, t, iter) == IF t = {} THEN {} ELSE Plus(iter[t \ {Taken(t)}], v[Taken(t)])
WordRun(v, S) == CHOOSE f : f = [t \in SUBSET S |-> WordNext(v, t, f)]

\* A sum of words is a fold.
LEMMA WordTotalIs ==
  ASSUME NEW D, NEW v \in [D -> Element], NEW S \in SUBSET D, IsFiniteSet(S)
  PROVE WordTotal(v, S) = FoldOf(Merging(v), {}, S, Element)
<1> DEFINE H == Merging(v)
           iter == WordRun(v, S)
<1>1. Acts(H, S, Element) /\ \A e \in S, w \in Element : H[e][w] = Plus(w, v[e])
  BY MergingActs
<1>2. {} \in Element
  BY XorWords
<1> HIDE DEF H
<1>3. PICK g : IsFold(g, H, {}, S, Element)
  BY <1>1, <1>2, Folding
<1>4. g \in [SUBSET S -> Element] /\ \A t \in SUBSET S : g[t] = FoldedOn(H, {}, t, g)
  BY <1>3 DEF IsFold
<1>5. ASSUME NEW t \in SUBSET S PROVE g[t] = WordNext(v, t, g)
  <2>1. CASE t = {}
    BY <1>4, <2>1 DEF FoldedOn, WordNext
  <2>2. CASE t # {}
    <3>1. Taken(t) \in S /\ g[t \ {Taken(t)}] \in Element
      BY <1>4, <2>2, TakenIn
    <3>2. g[t] = H[Taken(t)][g[t \ {Taken(t)}]]
      BY <1>4, <2>2 DEF FoldedOn
    <3> QED BY <1>1, <2>2, <3>1, <3>2 DEF WordNext
  <2> QED BY <2>1, <2>2
<1>6. g = [t \in SUBSET S |-> WordNext(v, t, g)]
  BY <1>4, <1>5
<1>7. iter = [t \in SUBSET S |-> WordNext(v, t, iter)]
  BY <1>6 DEF WordRun
<1>8. WordTotal(v, S) = iter[S]
  BY Zenon DEF WordTotal, FoldSet, MapThenFoldSet, WordRun, WordNext, Taken
<1> HIDE DEF iter
<1>9. \A t \in SUBSET S : iter[t] = WordNext(v, t, iter)
  BY <1>7
<1>10. ASSUME NEW t \in SUBSET S, t # {}, iter[t \ {Taken(t)}] \in Element
       PROVE iter[t] = H[Taken(t)][iter[t \ {Taken(t)}]]
  <2>1. Taken(t) \in S
    BY <1>10, TakenIn
  <2>2. iter[t] = Plus(iter[t \ {Taken(t)}], v[Taken(t)])
    BY <1>9, <1>10 DEF WordNext
  <2>3. H[Taken(t)][iter[t \ {Taken(t)}]] = Plus(iter[t \ {Taken(t)}], v[Taken(t)])
    BY <1>1, <1>10, <2>1
  <2> QED BY <2>2, <2>3
<1>11. iter[{}] = {}
  BY <1>9 DEF WordNext
<1>12. Takes(iter, H, {}, S, Element)
  BY <1>10, <1>11 DEF Takes
<1>13. iter[S] = FoldOf(H, {}, S, Element)
  BY <1>1, <1>2, <1>12, FoldTaken
<1> QED BY <1>8, <1>13 DEF H

\* The sum of no words, and with a word more.
LEMMA WordTotalLaws ==
  ASSUME NEW D, NEW v \in [D -> Element], NEW S \in SUBSET D, IsFiniteSet(S)
  PROVE /\ WordTotal(v, {}) = {}
        /\ \A t \in SUBSET S : WordTotal(v, t) \in Element
        /\ \A t \in SUBSET S, e \in S : e \notin t => WordTotal(v, t \cup {e}) = Plus(WordTotal(v, t), v[e])
<1> DEFINE H == Merging(v)
<1>1. /\ \A e \in S, w \in Element : H[e][w] = Plus(w, v[e])
      /\ Acts(H, S, Element) /\ Commute(H, S, Element)
  BY MergingActs
<1>2. {} \in Element
  BY XorWords
<1>3. ASSUME NEW t \in SUBSET S PROVE WordTotal(v, t) = FoldOf(H, {}, t, Element)
  <2>1. t \in SUBSET D /\ IsFiniteSet(t)
    BY FS_Subset
  <2> QED BY <2>1, WordTotalIs
<1> HIDE DEF H
<1>4. /\ FoldOf(H, {}, {}, Element) = {}
      /\ \A t \in SUBSET S : FoldOf(H, {}, t, Element) \in Element
      /\ \A t \in SUBSET S, e \in S : e \notin t => FoldOf(H, {}, t \cup {e}, Element) = H[e][FoldOf(H, {}, t, Element)]
  BY <1>1, <1>2, FoldLaws
<1>5. \A t \in SUBSET S, e \in S : t \cup {e} \in SUBSET S
  OBVIOUS
<1>6. {} \in SUBSET S
  OBVIOUS
<1>7. WordTotal(v, {}) = {}
  BY <1>3, <1>4, <1>6
<1>8. \A t \in SUBSET S : WordTotal(v, t) \in Element
  BY <1>3, <1>4
<1>9. ASSUME NEW t \in SUBSET S, NEW e \in S, e \notin t PROVE WordTotal(v, t \cup {e}) = Plus(WordTotal(v, t), v[e])
  <2>1. WordTotal(v, t \cup {e}) = H[e][WordTotal(v, t)]
    BY <1>3, <1>4, <1>5, <1>9
  <2> QED BY <1>1, <1>8, <2>1
<1> QED BY <1>7, <1>8, <1>9

\* Adding the same twice takes it away again.
LEMMA PlusTwice == ASSUME NEW a \in Element, NEW b \in Element PROVE Plus(Plus(a, b), b) = a
<1>1. Plus(Plus(a, b), b) = Plus(a, Plus(b, b)) /\ Plus(b, b) = {} /\ Plus(a, {}) = a
  BY XorWords
<1> QED BY <1>1

\* A bit is put in or taken out by adding its word.
LEMMA WordTotalFlip ==
  ASSUME NEW D, NEW v \in [D -> Element], IsFiniteSet(D), NEW t \in SUBSET D, NEW e \in D
  PROVE WordTotal(v, Plus(t, {e})) = Plus(WordTotal(v, t), v[e])
<1>0. /\ \A u \in SUBSET D : WordTotal(v, u) \in Element
      /\ \A u \in SUBSET D, d \in D : d \notin u => WordTotal(v, u \cup {d}) = Plus(WordTotal(v, u), v[d])
  <2>1. D \in SUBSET D
    OBVIOUS
  <2> QED BY <2>1, WordTotalLaws
<1>1. CASE e \notin t
  <2>1. Plus(t, {e}) = t \cup {e}
    BY <1>1 DEF Plus, SymDiff
  <2> QED BY <1>0, <1>1, <2>1
<1>2. CASE e \in t
  <2> DEFINE u == t \ {e}
  <2>1. Plus(t, {e}) = u /\ u \cup {e} = t /\ u \in SUBSET D /\ e \notin u
    BY <1>2 DEF Plus, SymDiff
  <2> HIDE DEF u
  <2>2. WordTotal(v, u \cup {e}) = Plus(WordTotal(v, u), v[e]) /\ WordTotal(v, u) \in Element
    BY <1>0, <2>1
  <2>3. Plus(Plus(WordTotal(v, u), v[e]), v[e]) = WordTotal(v, u)
    BY <2>2, PlusTwice
  <2> QED BY <2>1, <2>2, <2>3
<1> QED BY <1>1, <1>2

\* Words of the bits of a sum are the sum of both.
LEMMA WordTotalAdds ==
  ASSUME NEW D, NEW v \in [D -> Element], IsFiniteSet(D), NEW a \in SUBSET D, NEW b \in SUBSET D
  PROVE WordTotal(v, Plus(a, b)) = Plus(WordTotal(v, a), WordTotal(v, b))
<1> DEFINE T == {t \in SUBSET b : WordTotal(v, Plus(a, t)) = Plus(WordTotal(v, a), WordTotal(v, t))}
<1>0. IsFiniteSet(b)
  BY FS_Subset
<1>1. WordTotal(v, {}) = {} /\ \A t \in SUBSET D : WordTotal(v, t) \in Element
  <2>1. D \in SUBSET D
    OBVIOUS
  <2> QED BY <2>1, WordTotalLaws
<1>2. {} \in T
  <2>1. Plus(a, {}) = a
    BY DEF Plus, SymDiff
  <2>2. Plus(WordTotal(v, a), {}) = WordTotal(v, a)
    BY <1>1, XorWords
  <2> QED BY <1>1, <2>1, <2>2
<1>3. ASSUME NEW t \in SUBSET b, NEW e \in b, t \in T PROVE t \cup {e} \in T
  <2>1. CASE e \in t
    <3>1. t \cup {e} = t
      BY <2>1
    <3> QED BY <1>3, <3>1
  <2>2. CASE e \notin t
    <3>1. Plus(a, t \cup {e}) = Plus(Plus(a, t), {e}) /\ Plus(t, {e}) = t \cup {e}
      BY <2>2 DEF Plus, SymDiff
    <3>2. Plus(a, t) \in SUBSET D /\ e \in D /\ t \in SUBSET D
      BY DEF Plus, SymDiff
    <3>3. WordTotal(v, Plus(Plus(a, t), {e})) = Plus(WordTotal(v, Plus(a, t)), v[e])
      BY <3>2, WordTotalFlip
    <3>4. WordTotal(v, Plus(t, {e})) = Plus(WordTotal(v, t), v[e])
      BY <3>2, WordTotalFlip
    <3>5. WordTotal(v, a) \in Element /\ WordTotal(v, t) \in Element /\ v[e] \in Element
      BY <1>1, <3>2
    <3>6. Plus(Plus(WordTotal(v, a), WordTotal(v, t)), v[e]) = Plus(WordTotal(v, a), Plus(WordTotal(v, t), v[e]))
      BY <3>5, XorWords
    <3> QED BY <1>3, <3>1, <3>3, <3>4, <3>6
  <2> QED BY <2>1, <2>2
<1>4. b \in T
  <2> HIDE DEF T
  <2> QED BY <1>0, <1>2, <1>3, Grow
<1> QED BY <1>4

\* A sum of sums of words.
LEMMA WordTotalBoth ==
  ASSUME NEW D, NEW u \in [D -> Element], NEW v \in [D -> Element], NEW w \in [D -> Element],
         \A e \in D : w[e] = Plus(u[e], v[e]), NEW S \in SUBSET D, IsFiniteSet(S)
  PROVE WordTotal(w, S) = Plus(WordTotal(u, S), WordTotal(v, S))
<1> DEFINE T == {t \in SUBSET S : WordTotal(w, t) = Plus(WordTotal(u, t), WordTotal(v, t))}
<1>1. WordTotal(u, {}) = {} /\ \A t \in SUBSET S : WordTotal(u, t) \in Element
  BY WordTotalLaws
<1>2. WordTotal(v, {}) = {} /\ \A t \in SUBSET S : WordTotal(v, t) \in Element
  BY WordTotalLaws
<1>3. WordTotal(w, {}) = {}
  BY WordTotalLaws
<1>4. {} \in T
  BY <1>1, <1>2, <1>3, XorWords
<1>5. ASSUME NEW t \in SUBSET S, NEW e \in S, t \in T PROVE t \cup {e} \in T
  <2>1. CASE e \in t
    <3>1. t \cup {e} = t
      BY <2>1
    <3> QED BY <1>5, <3>1
  <2>2. CASE e \notin t
    <3> DEFINE a == WordTotal(u, t)
               b == WordTotal(v, t)
    <3>1. WordTotal(u, t \cup {e}) = Plus(a, u[e]) /\ a \in Element /\ u[e] \in Element
      BY <1>1, <2>2, WordTotalLaws
    <3>2. WordTotal(v, t \cup {e}) = Plus(b, v[e]) /\ b \in Element /\ v[e] \in Element
      BY <1>2, <2>2, WordTotalLaws
    <3>3. WordTotal(w, t \cup {e}) = Plus(WordTotal(w, t), w[e])
      BY <2>2, WordTotalLaws
    <3>4. WordTotal(w, t) = Plus(a, b) /\ w[e] = Plus(u[e], v[e])
      BY <1>5
    <3> HIDE DEF a, b
    <3>5. Plus(Plus(a, b), Plus(u[e], v[e])) = Plus(Plus(a, u[e]), Plus(b, v[e]))
      BY <3>1, <3>2 DEF Plus, SymDiff
    <3> QED BY <3>1, <3>2, <3>3, <3>4, <3>5
  <2> QED BY <2>1, <2>2
<1>6. S \in T
  <2> HIDE DEF T
  <2> QED BY <1>4, <1>5, Grow
<1> QED BY <1>6
\* The bits of a word times x.
LEMMA TimesXBits ==
  ASSUME NEW a \in Element
  PROVE /\ TimesX(a) \in Element
        /\ \A e \in 0..(Degree - 1) : e \in TimesX(a) <=> ((e >= 1 /\ e - 1 \in a) # (Degree - 1 \in a /\ e \in {0, 1}))
<1> DEFINE up == {e + 1 : e \in a}
<1>1. Degree \in Nat /\ Degree >= 2 /\ \A e \in a : e \in 0..(Degree - 1)
  BY SetAssumption DEF Element
<1>2. \A e \in 0..Degree : e \in up <=> (e >= 1 /\ e - 1 \in a)
  <2>1. ASSUME NEW e \in 0..Degree, e \in up PROVE e >= 1 /\ e - 1 \in a
    <3>1. PICK d \in a : e = d + 1
      BY <2>1
    <3>2. d \in Nat /\ (d + 1) - 1 = d
      BY <1>1
    <3> QED BY <3>1, <3>2
  <2>2. ASSUME NEW e \in 0..Degree, e >= 1, e - 1 \in a PROVE e \in up
    <3>1. (e - 1) + 1 = e
      BY <1>1
    <3> QED BY <2>2, <3>1
  <2> QED BY <2>1, <2>2
<1>3. up \subseteq 0..Degree
  BY <1>1
<1>4. Degree \in up <=> Degree - 1 \in a
  <2>1. Degree \in 0..Degree /\ Degree >= 1
    BY <1>1
  <2> QED BY <1>2, <2>1
<1>5. TimesX(a) = IF Degree \in up THEN Plus(up \ {Degree}, {0, 1}) ELSE up
  BY DEF TimesX
<1> HIDE DEF up
<1>6. CASE Degree \in up
  <2>1. 0 \in 0..(Degree - 1) /\ 1 \in 0..(Degree - 1)
    BY <1>1
  <2>2. \A e \in up \ {Degree} : e \in 0..(Degree - 1)
    BY <1>1, <1>3
  <2>3. TimesX(a) = Plus(up \ {Degree}, {0, 1})
    BY <1>5, <1>6
  <2>4. TimesX(a) \in Element
    BY <2>1, <2>2, <2>3 DEF Plus, SymDiff, Element
  <2>5. ASSUME NEW e \in 0..(Degree - 1)
        PROVE e \in TimesX(a) <=> ((e >= 1 /\ e - 1 \in a) # (Degree - 1 \in a /\ e \in {0, 1}))
    <3>1. e \in 0..Degree /\ e # Degree
      BY <1>1
    <3>2. e \in TimesX(a) <=> ((e \in up) # (e \in {0, 1}))
      BY <2>3, <3>1 DEF Plus, SymDiff
    <3>3. e \in up <=> (e >= 1 /\ e - 1 \in a)
      BY <1>2, <3>1
    <3> QED BY <1>4, <1>6, <3>2, <3>3
  <2> QED BY <2>4, <2>5
<1>7. CASE Degree \notin up
  <2>1. TimesX(a) = up
    BY <1>5, <1>7
  <2>2. \A e \in up : e \in 0..(Degree - 1)
    BY <1>1, <1>3, <1>7
  <2>3. \A e \in 0..(Degree - 1) : e \in 0..Degree
    BY <1>1
  <2> QED BY <1>2, <1>4, <1>7, <2>1, <2>2, <2>3 DEF Element
<1> QED BY <1>6, <1>7

\* A sum times x.
LEMMA TimesXAdds == ASSUME NEW a \in Element, NEW b \in Element PROVE TimesX(Plus(a, b)) = Plus(TimesX(a), TimesX(b))
<1>1. Plus(a, b) \in Element
  BY XorWords
<1>2. ASSUME NEW e \in 0..(Degree - 1) PROVE e \in TimesX(Plus(a, b)) <=> e \in Plus(TimesX(a), TimesX(b))
  <2> DEFINE c == Plus(a, b)
  <2>1. e \in TimesX(c) <=> ((e >= 1 /\ e - 1 \in c) # (Degree - 1 \in c /\ e \in {0, 1}))
    BY <1>1, TimesXBits
  <2>2. e \in TimesX(a) <=> ((e >= 1 /\ e - 1 \in a) # (Degree - 1 \in a /\ e \in {0, 1}))
    BY TimesXBits
  <2>3. e \in TimesX(b) <=> ((e >= 1 /\ e - 1 \in b) # (Degree - 1 \in b /\ e \in {0, 1}))
    BY TimesXBits
  <2>4. (e - 1 \in c <=> ((e - 1 \in a) # (e - 1 \in b))) /\ (Degree - 1 \in c <=> ((Degree - 1 \in a) # (Degree - 1 \in b)))
    BY DEF Plus, SymDiff
  <2>5. e \in Plus(TimesX(a), TimesX(b)) <=> ((e \in TimesX(a)) # (e \in TimesX(b)))
    BY DEF Plus, SymDiff
  <2> HIDE DEF c
  <2>6. e \in TimesX(c) <=> ((e \in TimesX(a)) # (e \in TimesX(b)))
    BY <2>1, <2>2, <2>3, <2>4
  <2> QED BY <2>5, <2>6 DEF c
<1>3. TimesX(Plus(a, b)) \in Element /\ Plus(TimesX(a), TimesX(b)) \in Element
  BY <1>1, TimesXBits, XorWords
<1> QED BY <1>2, <1>3 DEF Element

PowersNext(a, e, f) == IF e = 0 THEN a ELSE TimesX(f[e - 1])
Powers(a) == CHOOSE f : f = [e \in 0..(Degree - 1) |-> PowersNext(a, e, f)]

\* A word times the powers of x.
LEMMA PowersAre ==
  ASSUME NEW a \in Element
  PROVE /\ Powers(a) \in [0..(Degree - 1) -> Element]
        /\ Powers(a) = [e \in 0..(Degree - 1) |-> PowersNext(a, e, Powers(a))]
<1> DEFINE H == [k \in Nat |-> [w \in Element |-> TimesX(w)]]
           D == 0..(Degree - 1)
<1>1. H \in [Nat -> [Element -> Element]]
  BY TimesXBits
<1>2. PICK F : Iterates(F, Element, a, H)
  <2> HIDE DEF H
  <2> QED BY <1>1, Recursion
<1>3. F \in [Nat -> Element] /\ F[0] = a /\ \A n \in Nat : F[n + 1] = TimesX(F[n])
  BY <1>2 DEF Iterates
<1>4. Degree \in Nat /\ D \subseteq Nat
  BY WeightsType
<1> DEFINE g == [e \in D |-> F[e]]
<1>5. g \in [D -> Element]
  BY <1>3, <1>4
<1>6. ASSUME NEW e \in D PROVE g[e] = PowersNext(a, e, g)
  <2>1. CASE e = 0
    BY <1>3, <2>1 DEF PowersNext
  <2>2. CASE e # 0
    <3>1. e - 1 \in D /\ e - 1 \in Nat /\ (e - 1) + 1 = e
      BY <1>4, <2>2
    <3>2. F[(e - 1) + 1] = TimesX(F[e - 1])
      BY <1>3, <3>1
    <3>3. g[e] = F[e] /\ g[e - 1] = F[e - 1]
      BY <3>1
    <3> HIDE DEF g, D
    <3> QED BY <2>2, <3>1, <3>2, <3>3 DEF PowersNext
  <2> QED BY <2>1, <2>2
<1> HIDE DEF g
<1>7. g = [e \in D |-> PowersNext(a, e, g)]
  BY <1>5, <1>6
<1>8. Powers(a) = [e \in D |-> PowersNext(a, e, Powers(a))]
  BY <1>7 DEF Powers
<1> DEFINE p == Powers(a)
<1>9. \A e \in D : p[e] = PowersNext(a, e, p)
  BY <1>8
<1> DEFINE T == {n \in 0..(Degree - 1) : p[n] \in Element}
<1>10. 0 \in D /\ Degree - 1 \in Nat
  BY WeightsType
<1> HIDE DEF p
<1>11. 0 \in T
  BY <1>9, <1>10 DEF PowersNext
<1>12. ASSUME NEW n \in 0..((Degree - 1) - 1), n \in T PROVE n + 1 \in T
  <2>1. n + 1 \in D /\ n + 1 # 0 /\ (n + 1) - 1 = n
    BY <1>10
  <2>2. p[n + 1] = TimesX(p[n])
    BY <1>9, <2>1 DEF PowersNext
  <2> QED BY <1>12, <2>1, <2>2, TimesXBits
<1>13. 0..(Degree - 1) \subseteq T
  <2> HIDE DEF T
  <2> QED BY <1>10, <1>11, <1>12, InductUpTo
<1>14. p \in [D -> Element]
  <2>1. p = [e \in D |-> PowersNext(a, e, p)]
    BY <1>8 DEF p
  <2> QED BY <1>13, <2>1
<1> QED BY <1>8, <1>14 DEF p

\* The powers of a sum.
LEMMA PowersAdd ==
  ASSUME NEW a \in Element, NEW b \in Element
  PROVE \A e \in 0..(Degree - 1) : Powers(Plus(a, b))[e] = Plus(Powers(a)[e], Powers(b)[e])
<1> DEFINE p == Powers(a)
           q == Powers(b)
           r == Powers(Plus(a, b))
           D == 0..(Degree - 1)
           T == {n \in 0..(Degree - 1) : r[n] = Plus(p[n], q[n])}
<1>1. Plus(a, b) \in Element
  BY XorWords
<1>2. p \in [D -> Element] /\ \A e \in D : p[e] = PowersNext(a, e, p)
  <2>1. Powers(a) \in [D -> Element] /\ Powers(a) = [e \in D |-> PowersNext(a, e, Powers(a))]
    BY PowersAre
  <2> QED BY <2>1
<1>3. q \in [D -> Element] /\ \A e \in D : q[e] = PowersNext(b, e, q)
  <2>1. Powers(b) \in [D -> Element] /\ Powers(b) = [e \in D |-> PowersNext(b, e, Powers(b))]
    BY PowersAre
  <2> QED BY <2>1
<1>4. r \in [D -> Element] /\ \A e \in D : r[e] = PowersNext(Plus(a, b), e, r)
  <2>1. r \in [D -> Element] /\ r = [e \in D |-> PowersNext(Plus(a, b), e, r)]
    BY <1>1, PowersAre
  <2> QED BY <2>1
<1>5. 0 \in D /\ Degree - 1 \in Nat
  BY WeightsType
<1> HIDE DEF p, q, r
<1>6. 0 \in T
  BY <1>2, <1>3, <1>4, <1>5 DEF PowersNext
<1>7. ASSUME NEW n \in 0..((Degree - 1) - 1), n \in T PROVE n + 1 \in T
  <2>1. n + 1 \in D /\ n + 1 # 0 /\ (n + 1) - 1 = n /\ n \in D
    BY <1>5
  <2>2. p[n + 1] = TimesX(p[n]) /\ q[n + 1] = TimesX(q[n]) /\ r[n + 1] = TimesX(r[n])
    BY <1>2, <1>3, <1>4, <2>1 DEF PowersNext
  <2>3. p[n] \in Element /\ q[n] \in Element
    BY <1>2, <1>3, <2>1
  <2>4. TimesX(Plus(p[n], q[n])) = Plus(TimesX(p[n]), TimesX(q[n]))
    BY <2>3, TimesXAdds
  <2> QED BY <1>7, <2>1, <2>2, <2>4
<1>8. 0..(Degree - 1) \subseteq T
  <2> HIDE DEF T
  <2> QED BY <1>5, <1>6, <1>7, InductUpTo
<1> QED BY <1>8 DEF p, q, r

\* A product adds up the powers that the second factor names.
LEMMA TimesIs == \A a, b : Times(a, b) = WordTotal(Powers(a), b)
BY Zenon DEF Times, WordTotal, Powers, PowersNext

\* A product is a word, and adds up in either factor.
LEMMA TimesLaws ==
  /\ \A a, b \in Element : Times(a, b) \in Element
  /\ \A a, b, c \in Element : Times(a, Plus(b, c)) = Plus(Times(a, b), Times(a, c))
  /\ \A a, b, c \in Element : Times(Plus(a, b), c) = Plus(Times(a, c), Times(b, c))
  /\ \A a \in Element : Times({}, a) = {} /\ Times(a, {}) = {}
<1> DEFINE D == 0..(Degree - 1)
<1>1. IsFiniteSet(D) /\ D \in SUBSET D /\ \A w \in Element : w \in SUBSET D
  <2>1. Degree \in Nat
    BY WeightsType
  <2> QED BY <2>1, FS_Interval DEF Element
<1>2. \A a \in Element : Powers(a) \in [D -> Element]
  BY PowersAre
<1> HIDE DEF D
<1>3. ASSUME NEW a \in Element, NEW b \in Element PROVE Times(a, b) \in Element
  <2>1. Powers(a) \in [D -> Element] /\ b \in SUBSET D
    BY <1>1, <1>2
  <2>2. WordTotal(Powers(a), b) \in Element
    BY <1>1, <2>1, WordTotalLaws
  <2> QED BY <2>2, TimesIs
<1>4. ASSUME NEW a \in Element, NEW b \in Element, NEW c \in Element PROVE Times(a, Plus(b, c)) = Plus(Times(a, b), Times(a, c))
  <2>1. Powers(a) \in [D -> Element] /\ b \in SUBSET D /\ c \in SUBSET D
    BY <1>1, <1>2
  <2>2. WordTotal(Powers(a), Plus(b, c)) = Plus(WordTotal(Powers(a), b), WordTotal(Powers(a), c))
    BY <1>1, <2>1, WordTotalAdds
  <2> QED BY <2>2, TimesIs
<1>5. ASSUME NEW a \in Element, NEW b \in Element, NEW c \in Element PROVE Times(Plus(a, b), c) = Plus(Times(a, c), Times(b, c))
  <2>1. Plus(a, b) \in Element
    BY XorWords
  <2>2. Powers(a) \in [D -> Element] /\ Powers(b) \in [D -> Element] /\ Powers(Plus(a, b)) \in [D -> Element] /\ c \in SUBSET D
    BY <1>1, <1>2, <2>1
  <2>3. \A e \in D : Powers(Plus(a, b))[e] = Plus(Powers(a)[e], Powers(b)[e])
    BY PowersAdd DEF D
  <2>4. IsFiniteSet(c)
    BY <1>1, <2>2, FS_Subset
  <2>5. WordTotal(Powers(Plus(a, b)), c) = Plus(WordTotal(Powers(a), c), WordTotal(Powers(b), c))
    BY <2>2, <2>3, <2>4, WordTotalBoth
  <2> QED BY <2>5, TimesIs
<1>6. ASSUME NEW a \in Element PROVE Times({}, a) = {} /\ Times(a, {}) = {}
  <2>1. {} \in Element /\ Plus({}, {}) = {}
    BY XorWords
  <2>2. Times({}, a) = Plus(Times({}, a), Times({}, a)) /\ Times(a, {}) = Plus(Times(a, {}), Times(a, {}))
    BY <1>4, <1>5, <2>1
  <2>3. Times({}, a) \in Element /\ Times(a, {}) \in Element
    BY <1>3, <2>1
  <2> QED BY <2>2, <2>3, XorWords
<1> QED BY <1>3, <1>4, <1>5, <1>6

-----------------------------------------------------------------------------
(* Permutations. *)

\* What a permutation is.
LEMMA OrderIs ==
  ASSUME NEW n, NEW pi \in Orders(n)
  PROVE /\ pi \in [1..n -> 1..n]
        /\ \A x, y \in 1..n : pi[x] = pi[y] => x = y
        /\ \A y \in 1..n : \E x \in 1..n : pi[x] = y
BY DEF Orders

\* Two places swapped.
LEMMA SwapPermutes ==
  ASSUME NEW n \in Nat, NEW pi \in Orders(n), NEW i \in 1..n, NEW j \in 1..n
  PROVE [pi EXCEPT ![i] = pi[j], ![j] = pi[i]] \in Orders(n)
<1> DEFINE D == 1..n
           f == [pi EXCEPT ![i] = pi[j], ![j] = pi[i]]
<1>1. pi \in [D -> D] /\ i \in D /\ j \in D
  BY OrderIs
<1>2. \A x, y \in D : pi[x] = pi[y] => x = y
  BY OrderIs
<1>3. \A y \in D : \E x \in D : pi[x] = y
  BY OrderIs
<1> HIDE DEF D
<1>4. f \in [D -> D] /\ f[j] = pi[i] /\ f[i] = pi[j] /\ \A x \in D : x # i /\ x # j => f[x] = pi[x]
  BY <1>1
<1> HIDE DEF f
<1>5. \A x, y \in D : f[x] = f[y] => x = y
  <2>1. ASSUME NEW x \in D, NEW y \in D, f[x] = f[y] PROVE x = y
    BY <1>1, <1>2, <1>4, <2>1
  <2> QED BY <2>1
<1>6. ASSUME NEW y \in D PROVE \E x \in D : f[x] = y
  <2>1. PICK x \in D : pi[x] = y
    BY <1>3
  <2>2. CASE x = i
    BY <1>1, <1>4, <2>1, <2>2
  <2>3. CASE x = j
    BY <1>1, <1>4, <2>1, <2>3
  <2>4. CASE x # i /\ x # j
    BY <1>4, <2>1, <2>4
  <2> QED BY <2>2, <2>3, <2>4
<1> QED BY <1>4, <1>5, <1>6 DEF Orders, D, f

ShuffledNext(n, draws, i, f) ==
  IF i = n THEN [k \in 1..n |-> k]
  ELSE [f[i + 1] EXCEPT ![i + 1] = f[i + 1][draws[i + 1]], ![draws[i + 1]] = f[i + 1][i + 1]]
Shuffled(n, draws) == CHOOSE f : f = [i \in 1..n |-> ShuffledNext(n, draws, i, f)]

\* Fisher and Yates' shuffle permutes, whatever is drawn.
THEOREM FisherYatesPermutes ==
  ASSUME NEW n \in Nat, n > 0, NEW draws, \A i \in 2..n : draws[i] \in 1..i
  PROVE FisherYates(n, draws) \in Orders(n)
<1> DEFINE O == Orders(n)
           D == 1..n
           id == [k \in 1..n |-> k]
           swap(pi, i) == [pi EXCEPT ![i] = pi[draws[i]], ![draws[i]] = pi[i]]
           H == [k \in Nat |-> [pi \in O |-> IF n - k \in 2..n THEN swap(pi, n - k) ELSE pi]]
<1>1. id \in O
  BY DEF Orders
<1>2. ASSUME NEW pi \in O, NEW i \in 2..n PROVE swap(pi, i) \in O
  <2>1. i \in 1..n /\ draws[i] \in 1..n
    OBVIOUS
  <2> QED BY <2>1, SwapPermutes
<1> HIDE DEF swap, id, O
<1>3. H \in [Nat -> [O -> O]]
  BY <1>2
<1>4. PICK F : Iterates(F, O, id, H)
  <2> HIDE DEF H
  <2> QED BY <1>1, <1>3, Recursion
<1>5. F \in [Nat -> O] /\ F[0] = id /\ \A k \in Nat : F[k + 1] = H[k][F[k]]
  BY <1>4 DEF Iterates
<1>6. \A k \in 0..(n - 2) : F[k + 1] = swap(F[k], n - k)
  <2>1. ASSUME NEW k \in 0..(n - 2) PROVE F[k + 1] = swap(F[k], n - k)
    <3>1. k \in Nat /\ n - k \in 2..n
      OBVIOUS
    <3>2. F[k + 1] = H[k][F[k]] /\ F[k] \in O
      BY <1>5, <3>1
    <3> QED BY <3>1, <3>2
  <2> QED BY <2>1
<1> DEFINE g == [i \in D |-> F[n - i]]
<1>7. ASSUME NEW i \in D PROVE g[i] = ShuffledNext(n, draws, i, g)
  <2>1. g[i] = F[n - i]
    OBVIOUS
  <2>2. CASE i = n
    <3>1. n - i = 0
      BY <2>2
    <3> QED BY <1>5, <2>1, <2>2, <3>1 DEF ShuffledNext, id
  <2>3. CASE i # n
    <3>1. (n - (i + 1)) \in 0..(n - 2) /\ (n - (i + 1)) + 1 = n - i /\ n - (n - (i + 1)) = i + 1 /\ i + 1 \in D
      BY <2>3
    <3>2. F[(n - (i + 1)) + 1] = swap(F[n - (i + 1)], n - (n - (i + 1)))
      BY <1>6, <3>1
    <3>3. g[i + 1] = F[n - (i + 1)]
      BY <3>1
    <3>4. g[i] = swap(g[i + 1], i + 1)
      BY <2>1, <3>1, <3>2, <3>3
    <3> HIDE DEF g
    <3> QED BY <2>3, <3>4 DEF ShuffledNext, swap
  <2> QED BY <2>2, <2>3
<1>8. g = [i \in D |-> ShuffledNext(n, draws, i, g)]
  <2>1. DOMAIN g = D /\ g = [i \in D |-> g[i]]
    OBVIOUS
  <2> HIDE DEF g
  <2> QED BY <1>7, <2>1, Zenon
<1>9. Shuffled(n, draws) = [i \in D |-> ShuffledNext(n, draws, i, Shuffled(n, draws))]
  <2> HIDE DEF g
  <2> QED BY <1>8 DEF Shuffled
<1>10. FisherYates(n, draws) = Shuffled(n, draws)[1]
  BY Zenon DEF FisherYates, Shuffled, ShuffledNext
<1> DEFINE s == Shuffled(n, draws)
<1>11. \A i \in D : s[i] = ShuffledNext(n, draws, i, s)
  BY <1>9
<1> HIDE DEF s
<1> DEFINE T == {k \in 0..(n - 1) : s[n - k] \in O}
<1>12. 0 \in T
  <2>1. n \in D /\ n - 0 = n /\ 0 \in 0..(n - 1)
    OBVIOUS
  <2>2. s[n] = id
    BY <1>11, <2>1 DEF ShuffledNext, id
  <2> QED BY <1>1, <2>1, <2>2
<1>13. ASSUME NEW k \in 0..((n - 1) - 1), k \in T PROVE k + 1 \in T
  <2> DEFINE i == n - (k + 1)
  <2>1. i \in D /\ i # n /\ i + 1 = n - k /\ i + 1 \in 2..n /\ k + 1 \in 0..(n - 1)
    OBVIOUS
  <2> HIDE DEF i
  <2>2. s[i] = swap(s[i + 1], i + 1)
    BY <1>11, <2>1 DEF ShuffledNext, swap
  <2>3. s[i + 1] \in O
    BY <1>13, <2>1
  <2>4. s[i] \in O
    BY <1>2, <2>1, <2>2, <2>3
  <2> QED BY <2>1, <2>4 DEF i
<1>14. 0..(n - 1) \subseteq T
  <2>1. n - 1 \in Nat
    OBVIOUS
  <2> HIDE DEF T
  <2> QED BY <1>12, <1>13, <2>1, InductUpTo
<1>15. n - (n - 1) = 1 /\ n - 1 \in 0..(n - 1)
  OBVIOUS
<1>16. s[1] \in O
  BY <1>14, <1>15
<1> QED BY <1>10, <1>16 DEF s, O

\* One permutation after another.
LEMMA OrdersCompose ==
  ASSUME NEW n \in Nat, NEW pi \in Orders(n), NEW tau \in Orders(n)
  PROVE [i \in 1..n |-> pi[tau[i]]] \in Orders(n)
<1> DEFINE D == 1..n
           f == [i \in D |-> pi[tau[i]]]
<1>1. pi \in [D -> D] /\ (\A x, y \in D : pi[x] = pi[y] => x = y) /\ \A y \in D : \E x \in D : pi[x] = y
  BY OrderIs
<1>2. tau \in [D -> D] /\ (\A x, y \in D : tau[x] = tau[y] => x = y) /\ \A y \in D : \E x \in D : tau[x] = y
  BY OrderIs
<1> HIDE DEF D
<1>3. f \in [D -> D] /\ \A x \in D : f[x] = pi[tau[x]]
  BY <1>1, <1>2
<1> HIDE DEF f
<1>4. \A x, y \in D : f[x] = f[y] => x = y
  BY <1>1, <1>2, <1>3
<1>5. ASSUME NEW y \in D PROVE \E x \in D : f[x] = y
  <2>1. PICK u \in D : pi[u] = y
    BY <1>1
  <2>2. PICK x \in D : tau[x] = u
    BY <1>2
  <2> QED BY <1>3, <2>1, <2>2
<1> QED BY <1>3, <1>4, <1>5 DEF Orders, D, f

Moved(pi) == [v \in Vector |-> PermutedRows(v, pi)]

\* Permuting rows keeps vectors, sums and zeros.
LEMMA MovedAdds ==
  ASSUME NEW pi \in Turning, NEW ring \in Rings
  PROVE /\ Additive(ring, ring, Moved(pi)) /\ \A v \in Vector : Moved(pi)[v] = PermutedRows(v, pi) /\ PermutedRows(v, pi) \in Vector
        /\ \A v \in Vector, b \in Bin : PermutedRows(v, pi)[b] = v[pi[b]] /\ pi[b] \in Bin
<1>1. pi \in [Bin -> Bin]
  BY OrderIs DEF Turning, Bin
<1>2. ASSUME NEW v \in Vector PROVE PermutedRows(v, pi) \in Vector /\ \A b \in Bin : PermutedRows(v, pi)[b] = v[pi[b]]
  BY <1>1 DEF PermutedRows, Vector
<1>3. Moved(pi) \in [Vector -> Vector] /\ \A v \in Vector : Moved(pi)[v] = PermutedRows(v, pi)
  BY <1>2 DEF Moved
<1>4. Zeros \in Vector /\ PermutedRows(Zeros, pi) = Zeros
  <2>1. Zeros \in Vector
    BY VectorLaws DEF Rings
  <2>2. \A b \in Bin : PermutedRows(Zeros, pi)[b] = Zeros[b]
    BY <1>1, <1>2, <2>1 DEF Zeros
  <2> QED BY <1>2, <2>1, <2>2, SameVectors
<1>5. ASSUME NEW v \in Vector, NEW w \in Vector
      PROVE PermutedRows(AddAll(ring, v, w), pi) = AddAll(ring, PermutedRows(v, pi), PermutedRows(w, pi))
  <2> DEFINE l == PermutedRows(AddAll(ring, v, w), pi)
             r == AddAll(ring, PermutedRows(v, pi), PermutedRows(w, pi))
  <2>1. AddAll(ring, v, w) \in Vector /\ PermutedRows(v, pi) \in Vector /\ PermutedRows(w, pi) \in Vector
    BY <1>2, VectorLaws
  <2>2. l \in Vector /\ r \in Vector
    BY <1>2, <2>1, VectorLaws
  <2>3. ASSUME NEW b \in Bin PROVE l[b] = r[b]
    <3>1. l[b] = AddAll(ring, v, w)[pi[b]] /\ pi[b] \in Bin
      BY <1>1, <1>2, <2>1
    <3>2. AddAll(ring, v, w)[pi[b]] = Add(ring, v[pi[b]], w[pi[b]])
      BY <3>1, VectorLaws
    <3>3. r[b] = Add(ring, PermutedRows(v, pi)[b], PermutedRows(w, pi)[b])
      BY <2>1, VectorLaws
    <3>4. PermutedRows(v, pi)[b] = v[pi[b]] /\ PermutedRows(w, pi)[b] = w[pi[b]]
      BY <1>2
    <3> QED BY <3>1, <3>2, <3>3, <3>4
  <2> HIDE DEF l, r
  <2>4. l = r
    BY <2>2, <2>3, SameVectors
  <2> QED BY <2>4 DEF l, r
<1>6. \A v, w \in Vector : AddAll(ring, v, w) \in Vector
  BY VectorLaws
<1>7. Additive(ring, ring, Moved(pi))
  <2>1. \A v, w \in Vector : Moved(pi)[AddAll(ring, v, w)] = AddAll(ring, Moved(pi)[v], Moved(pi)[w])
    BY <1>3, <1>5, <1>6
  <2>2. Moved(pi)[Zeros] = Zeros
    BY <1>3, <1>4
  <2> QED BY <1>3, <2>1, <2>2 DEF Additive
<1> QED BY <1>1, <1>2, <1>3, <1>7

\* Rows permuted twice.
LEMMA PermutedTwice ==
  ASSUME NEW pi \in Turning, NEW tau \in Turning, NEW v \in Vector
  PROVE PermutedRows(PermutedRows(v, pi), tau) = PermutedRows(v, [i \in Bin |-> pi[tau[i]]]) /\ [i \in Bin |-> pi[tau[i]]] \in Turning
<1> DEFINE both == [i \in Bin |-> pi[tau[i]]]
<1>1. both \in Turning
  <2>1. Bins \in Nat
    BY Parties
  <2> QED BY <2>1, OrdersCompose DEF Turning, Bin
<1>2. "xor" \in Rings
  BY DEF Rings
<1>3. PermutedRows(v, pi) \in Vector /\ \A b \in Bin : PermutedRows(v, pi)[b] = v[pi[b]]
  BY <1>2, MovedAdds
<1>4. PermutedRows(PermutedRows(v, pi), tau) \in Vector /\ \A b \in Bin : PermutedRows(PermutedRows(v, pi), tau)[b] = PermutedRows(v, pi)[tau[b]] /\ tau[b] \in Bin
  BY <1>2, <1>3, MovedAdds
<1>5. PermutedRows(v, both) \in Vector /\ \A b \in Bin : PermutedRows(v, both)[b] = v[both[b]]
  BY <1>1, <1>2, MovedAdds
<1>6. \A b \in Bin : PermutedRows(PermutedRows(v, pi), tau)[b] = PermutedRows(v, both)[b]
  BY <1>3, <1>4, <1>5
<1>7. PermutedRows(PermutedRows(v, pi), tau) = PermutedRows(v, both)
  BY <1>4, <1>5, <1>6, SameVectors
<1> QED BY <1>1, <1>7

-----------------------------------------------------------------------------
(* The shuffle. *)

\* A sender is a party that has one before it.
LEMMA SenderIs == ASSUME NEW p \in Sender PROVE p \in Party /\ p - 1 \in Party /\ p # 0 /\ p \in Nat /\ p - 1 \in Nat /\ (p - 1) + 1 = p
BY Parties DEF Party, Sender

\* There is a function from party to party, each from the one before.
LEMMA PartyChain ==
  ASSUME NEW S, NEW a \in S, NEW H \in [Nat -> [S -> S]]
  PROVE \E g : Chained(g, S, a, H)
<1> DEFINE J == [n \in Nat |-> H[n + 1]]
<1>1. J \in [Nat -> [S -> S]]
  OBVIOUS
<1>2. PICK F : Iterates(F, S, a, J)
  <2> HIDE DEF J
  <2> QED BY <1>1, Recursion
<1>3. F \in [Nat -> S] /\ F[0] = a /\ \A n \in Nat : F[n + 1] = J[n][F[n]]
  BY <1>2 DEF Iterates
<1> DEFINE g == [p \in Party |-> F[p]]
<1>4. Party \subseteq Nat /\ 0 \in Party
  BY Parties DEF Party
<1>5. ASSUME NEW p \in Sender PROVE g[p] = H[p][g[p - 1]]
  <2>1. p \in Party /\ p - 1 \in Party /\ p - 1 \in Nat /\ (p - 1) + 1 = p
    BY SenderIs
  <2>2. F[(p - 1) + 1] = J[p - 1][F[p - 1]] /\ J[p - 1] = H[(p - 1) + 1]
    BY <1>3, <2>1
  <2> QED BY <2>1, <2>2
<1>6. Chained(g, S, a, H)
  <2>1. g \in [Party -> S] /\ g[0] = a
    BY <1>3, <1>4
  <2> HIDE DEF g
  <2> QED BY <1>5, <2>1 DEF Chained
<1> QED BY <1>6

\* Induction from party to party.
LEMMA AlongParties ==
  ASSUME NEW T, 0 \in T, \A p \in Sender : p - 1 \in T => p \in T
  PROVE Party \subseteq T
<1>1. N - 1 \in Nat /\ N \in Nat
  BY Parties
<1>2. ASSUME NEW n \in 0..((N - 1) - 1), n \in T PROVE n + 1 \in T
  <2>1. n + 1 \in Sender /\ (n + 1) - 1 = n
    BY <1>1 DEF Sender, Party
  <2> QED BY <1>2, <2>1
<1>3. 0..(N - 1) \subseteq T
  BY <1>1, <1>2, InductUpTo
<1> QED BY <1>3 DEF Party

\* Every party turns the rows further.
LEMMA TurnIs ==
  ASSUME NEW pi, \A p \in Party : pi[p] \in Turning
  PROVE /\ \A p \in Party : Turn(pi)[p] \in Turning
        /\ Turn(pi)[0] = pi[0]
        /\ \A p \in Sender : Turn(pi)[p] = [i \in Bin |-> Turn(pi)[p - 1][pi[p][i]]]
<1> DEFINE H == TurnStep(pi)
<1>1. H \in [Nat -> [Turning -> Turning]]
  <2>1. ASSUME NEW p \in Party, NEW t \in Turning PROVE [i \in Bin |-> t[pi[p][i]]] \in Turning
    <3>1. Bins \in Nat /\ pi[p] \in Orders(Bins) /\ t \in Orders(Bins)
      BY Parties DEF Turning
    <3> QED BY <3>1, OrdersCompose DEF Turning, Bin
  <2> QED BY <2>1 DEF TurnStep
<1>2. pi[0] \in Turning
  BY Parties
<1>3. \E g : Chained(g, Turning, pi[0], H)
  <2> HIDE DEF H
  <2> QED BY <1>1, <1>2, PartyChain
<1>4. Chained(Turn(pi), Turning, pi[0], H)
  <2> HIDE DEF H
  <2> QED BY <1>3 DEF Turn, H
<1> DEFINE g == Turn(pi)
<1> HIDE DEF g
<1>5. g \in [Party -> Turning] /\ g[0] = pi[0] /\ \A p \in Sender : g[p] = H[p][g[p - 1]]
  BY <1>4 DEF Chained, g
<1>6. ASSUME NEW p \in Sender PROVE g[p] = [i \in Bin |-> g[p - 1][pi[p][i]]]
  <2>1. p \in Party /\ p - 1 \in Party /\ p \in Nat
    BY SenderIs
  <2>2. g[p - 1] \in Turning
    BY <1>5, <2>1
  <2>3. H[p][g[p - 1]] = [i \in Bin |-> g[p - 1][pi[p][i]]]
    BY <2>1, <2>2 DEF TurnStep
  <2> QED BY <1>5, <2>3
<1> QED BY <1>5, <1>6 DEF g

\* Every party turns the masks of those before it.
LEMMA CarriedIs ==
  ASSUME NEW ring \in Rings, NEW pi, \A p \in Party : pi[p] \in Turning,
         NEW a \in [Sender -> Vector], NEW ap \in [Party -> Vector]
  PROVE /\ \A p \in Party : Carried(ring, pi, a, ap)[p] \in Vector
        /\ Carried(ring, pi, a, ap)[0] = PermutedRows(TotalOf(ring, a, Sender), pi[0])
        /\ \A p \in Sender : Carried(ring, pi, a, ap)[p] = PermutedRows(AddAll(ring, Carried(ring, pi, a, ap)[p - 1], ap[p - 1]), pi[p])
<1> DEFINE first == PermutedRows(TotalOf(ring, a, Sender), pi[0])
           H == [p \in Nat |-> [v \in Vector |-> IF p \in Sender THEN PermutedRows(AddAll(ring, v, ap[p - 1]), pi[p]) ELSE v]]
<1>1. \A v \in Vector, p \in Party : PermutedRows(v, pi[p]) \in Vector
  BY MovedAdds
<1>2. TotalOf(ring, a, Sender) \in Vector
  BY Parties, TotalLaws
<1>3. first \in Vector
  BY <1>1, <1>2, Parties
<1>4. \A v \in Vector, p \in Sender : PermutedRows(AddAll(ring, v, ap[p - 1]), pi[p]) \in Vector
  BY <1>1, SenderIs, VectorLaws
<1>5. H \in [Nat -> [Vector -> Vector]]
  BY <1>4
<1>6. PICK g : Chained(g, Vector, first, H)
  <2> HIDE DEF H, first
  <2> QED BY <1>3, <1>5, PartyChain
<1>7. g \in [Party -> Vector] /\ g[0] = first /\ \A p \in Sender : g[p] = H[p][g[p - 1]]
  BY <1>6 DEF Chained
<1>8. ASSUME NEW p \in Sender PROVE g[p] = PermutedRows(AddAll(ring, g[p - 1], ap[p - 1]), pi[p])
  <2>1. p \in Nat /\ p - 1 \in Party
    BY SenderIs
  <2>2. g[p - 1] \in Vector
    BY <1>7, <2>1
  <2>3. H[p][g[p - 1]] = PermutedRows(AddAll(ring, g[p - 1], ap[p - 1]), pi[p])
    BY <2>1, <2>2
  <2> QED BY <1>7, <2>3
<1>9. ASSUME NEW p \in Party PROVE g[p] = CarriedNext(ring, pi, a, ap, p, g)
  <2>1. CASE p = 0
    BY <1>7, <2>1 DEF CarriedNext
  <2>2. CASE p # 0
    <3>1. p \in Sender
      BY <2>2, Parties
    <3> QED BY <1>8, <2>2, <3>1 DEF CarriedNext
  <2> QED BY <2>1, <2>2
<1>10. g = [p \in Party |-> CarriedNext(ring, pi, a, ap, p, g)]
  BY <1>7, <1>9
<1> DEFINE f == Carried(ring, pi, a, ap)
<1>11. f = [p \in Party |-> CarriedNext(ring, pi, a, ap, p, f)]
  BY <1>10 DEF Carried
<1>12. \A p \in Party : f[p] = CarriedNext(ring, pi, a, ap, p, f)
  BY <1>11
<1> HIDE DEF f, H
<1>13. f[0] = first
  BY <1>12, Parties DEF CarriedNext
<1>14. \A p \in Sender : f[p] = PermutedRows(AddAll(ring, f[p - 1], ap[p - 1]), pi[p])
  BY <1>12, SenderIs DEF CarriedNext
<1> DEFINE T == {p \in Party : f[p] \in Vector}
<1>15. 0 \in T
  BY <1>3, <1>13, Parties
<1>16. \A p \in Sender : p - 1 \in T => p \in T
  BY <1>4, <1>14, SenderIs
<1>17. Party \subseteq T
  <2> HIDE DEF T
  <2> QED BY <1>15, <1>16, AlongParties
<1> QED BY <1>13, <1>14, <1>17 DEF f

Negation(ring) == [v \in Vector |-> Negated(ring, v)]

\* Taking away turns sums into sums, and taking away twice changes nothing.
LEMMA NegatedAdds ==
  ASSUME NEW ring \in Rings
  PROVE /\ Additive(ring, ring, Negation(ring)) /\ \A v \in Vector : Negation(ring)[v] = Negated(ring, v)
        /\ \A v \in Vector : Negated(ring, v) \in Vector /\ Negated(ring, Negated(ring, v)) = v
<1> DEFINE sum(u, v) == AddAll(ring, u, v)
           neg(v) == Negated(ring, v)
<1>1. \A u, v \in Vector : sum(u, v) \in Vector /\ sum(u, v) = sum(v, u)
  BY VectorLaws
<1>2. \A u, v, w \in Vector : sum(sum(u, v), w) = sum(u, sum(v, w))
  BY VectorLaws
<1>3. Zeros \in Vector /\ \A v \in Vector : sum(v, Zeros) = v /\ neg(v) \in Vector /\ sum(v, neg(v)) = Zeros
  BY VectorLaws
<1>4. \A a, b, c, d \in Vector : sum(sum(a, b), sum(c, d)) = sum(sum(a, c), sum(b, d))
  BY AddFour
<1>5. Negation(ring) = [v \in Vector |-> neg(v)]
  BY DEF Negation
<1> HIDE DEF sum, neg
<1>6. ASSUME NEW u \in Vector, NEW v \in Vector, sum(u, v) = Zeros PROVE v = neg(u)
  <2>1. sum(neg(u), sum(u, v)) = sum(sum(neg(u), u), v) /\ sum(neg(u), u) = Zeros
    BY <1>1, <1>2, <1>3
  <2>2. sum(neg(u), Zeros) = neg(u) /\ sum(Zeros, v) = v
    BY <1>1, <1>3
  <2> QED BY <1>6, <2>1, <2>2
<1>7. ASSUME NEW v \in Vector PROVE neg(neg(v)) = v
  <2>1. neg(v) \in Vector /\ sum(neg(v), v) = Zeros
    BY <1>1, <1>3
  <2> QED BY <1>6, <2>1
<1>8. ASSUME NEW u \in Vector, NEW v \in Vector PROVE neg(sum(u, v)) = sum(neg(u), neg(v))
  <2>1. neg(u) \in Vector /\ neg(v) \in Vector
    BY <1>3
  <2>2. sum(sum(u, v), sum(neg(u), neg(v))) = sum(sum(u, neg(u)), sum(v, neg(v)))
    BY <1>4, <2>1
  <2>3. sum(u, v) \in Vector /\ sum(neg(u), neg(v)) \in Vector /\ sum(sum(u, neg(u)), sum(v, neg(v))) = Zeros
    BY <1>1, <1>3, <2>1
  <2> QED BY <1>6, <2>2, <2>3
<1>9. neg(Zeros) = Zeros
  <2>1. sum(Zeros, Zeros) = Zeros
    BY <1>3
  <2> QED BY <1>3, <1>6, <2>1
<1>10. Negation(ring) \in [Vector -> Vector] /\ \A v \in Vector : Negation(ring)[v] = neg(v)
  BY <1>3, <1>5
<1>11. \A u, v \in Vector : Negation(ring)[sum(u, v)] = sum(Negation(ring)[u], Negation(ring)[v])
  BY <1>1, <1>8, <1>10
<1>12. Negation(ring)[Zeros] = Zeros
  BY <1>3, <1>9, <1>10
<1>13. Additive(ring, ring, Negation(ring))
  BY <1>10, <1>11, <1>12 DEF Additive, sum
<1> QED BY <1>3, <1>7, <1>10, <1>13 DEF neg

Drawing(s, what, S) == [p \in S |-> [b \in Bin |-> Draw(s, what, p, b)]]
Spread(ring, b) == TotalOf(ring, b, Party \ {N - 1})

\* What is prepared for a shuffle.
LEMMA CorrelatedIs ==
  ASSUME NEW s, NEW what, NEW ring, NEW pi
  PROVE LET sc == Correlated(s, what, ring, pi) IN
        /\ sc.pi = pi /\ sc.a = Drawing(s, what \o "a", Sender) /\ sc.aprime = Drawing(s, what \o "p", Party)
        /\ sc.b = Drawing(s, what \o "b", Party)
        /\ sc.delta = AddAll(ring, Carried(ring, sc.pi, sc.a, sc.aprime)[N - 1], Negated(ring, Spread(ring, sc.b)))
<1> DEFINE a == Drawing(s, what \o "a", Sender)
           ap == Drawing(s, what \o "p", Party)
           b == Drawing(s, what \o "b", Party)
<1>1. Correlated(s, what, ring, pi) =
        [pi |-> pi, a |-> a, aprime |-> ap, b |-> b,
         delta |-> AddAll(ring, Carried(ring, pi, a, ap)[N - 1], Negated(ring, Spread(ring, b)))]
  BY Zenon DEF Correlated, Carried, CarriedNext, Drawing, Spread, Negated
<1> HIDE DEF a, ap, b
<1> QED BY <1>1 DEF a, ap, b

\* The correlated randomness fits together.
Fit(ring, sc) ==
  /\ \A p \in Party : sc.pi[p] \in Turning
  /\ sc.a \in [Sender -> Vector] /\ sc.aprime \in [Party -> Vector] /\ sc.b \in [Party -> Vector]
  /\ sc.delta = AddAll(ring, Carried(ring, sc.pi, sc.a, sc.aprime)[N - 1], Negated(ring, Spread(ring, sc.b)))

\* The parts of what is prepared are vectors.
LEMMA FitTypes ==
  ASSUME NEW ring \in Rings, NEW sc, Fit(ring, sc), NEW J \in Vector, NEW p \in Party
  PROVE /\ sc.pi[p] \in Turning /\ Turn(sc.pi)[p] \in Turning /\ PermutedRows(J, Turn(sc.pi)[p]) \in Vector
        /\ Masks(ring, sc)[p] \in Vector /\ sc.aprime[p] \in Vector /\ sc.b[p] \in Vector
        /\ Handed(ring, sc, J, p) \in Vector
<1>1. /\ \A q \in Party : sc.pi[q] \in Turning
      /\ sc.a \in [Sender -> Vector] /\ sc.aprime \in [Party -> Vector] /\ sc.b \in [Party -> Vector]
  BY DEF Fit
<1>2. Turn(sc.pi)[p] \in Turning
  BY <1>1, TurnIs
<1>3. PermutedRows(J, Turn(sc.pi)[p]) \in Vector
  BY <1>2, MovedAdds
<1>4. Masks(ring, sc)[p] \in Vector
  <2> DEFINE pi == sc.pi
             a == sc.a
             ap == sc.aprime
  <2>1. (\A q \in Party : pi[q] \in Turning) /\ a \in [Sender -> Vector] /\ ap \in [Party -> Vector]
    BY <1>1
  <2> HIDE DEF pi, a, ap
  <2>2. Carried(ring, pi, a, ap)[p] \in Vector
    BY <2>1, CarriedIs
  <2> QED BY <2>2 DEF Masks, pi, a, ap
<1>5. sc.aprime[p] \in Vector /\ sc.b[p] \in Vector
  BY <1>1
<1>6. Handed(ring, sc, J, p) \in Vector
  BY <1>3, <1>4, <1>5, VectorLaws DEF Handed
<1> QED BY <1>1, <1>2, <1>3, <1>4, <1>5, <1>6

\* Masks, party by party.
LEMMA MasksAre ==
  ASSUME NEW ring \in Rings, NEW sc, Fit(ring, sc)
  PROVE /\ TotalOf(ring, sc.a, Sender) \in Vector
        /\ Masks(ring, sc)[0] = PermutedRows(TotalOf(ring, sc.a, Sender), sc.pi[0])
        /\ \A p \in Sender : Masks(ring, sc)[p] = PermutedRows(AddAll(ring, Masks(ring, sc)[p - 1], sc.aprime[p - 1]), sc.pi[p])
<1> DEFINE pi == sc.pi
           a == sc.a
           ap == sc.aprime
<1>1. (\A q \in Party : pi[q] \in Turning) /\ a \in [Sender -> Vector] /\ ap \in [Party -> Vector]
  BY DEF Fit
<1>2. Masks(ring, sc) = Carried(ring, pi, a, ap)
  BY DEF Masks
<1> HIDE DEF pi, a, ap
<1>3. /\ Carried(ring, pi, a, ap)[0] = PermutedRows(TotalOf(ring, a, Sender), pi[0])
      /\ \A p \in Sender : Carried(ring, pi, a, ap)[p] = PermutedRows(AddAll(ring, Carried(ring, pi, a, ap)[p - 1], ap[p - 1]), pi[p])
  BY <1>1, CarriedIs
<1>4. TotalOf(ring, a, Sender) \in Vector
  BY <1>1, Parties, TotalLaws
<1> QED BY <1>2, <1>3, <1>4 DEF pi, a, ap

\* Permuting a sum.
LEMMA PermutedSum ==
  ASSUME NEW ring \in Rings, NEW pi \in Turning, NEW v \in Vector, NEW w \in Vector
  PROVE PermutedRows(AddAll(ring, v, w), pi) = AddAll(ring, PermutedRows(v, pi), PermutedRows(w, pi))
<1>1. Additive(ring, ring, Moved(pi)) /\ \A u \in Vector : Moved(pi)[u] = PermutedRows(u, pi)
  BY MovedAdds
<1>2. AddAll(ring, v, w) \in Vector
  BY VectorLaws
<1>3. Moved(pi)[AddAll(ring, v, w)] = AddAll(ring, Moved(pi)[v], Moved(pi)[w])
  BY <1>1 DEF Additive
<1> QED BY <1>1, <1>2, <1>3

\* Party 0 hands the total on, masked and turned.
LEMMA HandedFirst ==
  ASSUME NEW ring \in Rings, NEW sc, Fit(ring, sc), NEW J \in Vector
  PROVE FromFirst(ring, sc, AddAll(ring, TotalOf(ring, sc.a, Sender), J)) = Handed(ring, sc, J, 0)
<1> DEFINE t == TotalOf(ring, sc.a, Sender)
           pi == sc.pi[0]
<1>1. t \in Vector /\ Masks(ring, sc)[0] = PermutedRows(t, pi)
  BY MasksAre
<1>2. 0 \in Party
  BY Parties
<1>3. pi \in Turning /\ Turn(sc.pi)[0] = pi
  BY <1>2, TurnIs DEF Fit
<1> HIDE DEF t, pi
<1>4. PermutedRows(AddAll(ring, t, J), pi) = AddAll(ring, PermutedRows(t, pi), PermutedRows(J, pi))
  BY <1>1, <1>3, PermutedSum
<1>5. PermutedRows(t, pi) \in Vector /\ PermutedRows(J, pi) \in Vector
  BY <1>1, <1>3, MovedAdds
<1>6. AddAll(ring, PermutedRows(t, pi), PermutedRows(J, pi)) = AddAll(ring, PermutedRows(J, pi), PermutedRows(t, pi))
  BY <1>5, VectorLaws
<1>7. FromFirst(ring, sc, AddAll(ring, t, J)) = AddAll(ring, PermutedRows(AddAll(ring, t, J), pi), sc.aprime[0])
  BY DEF FromFirst, pi
<1> QED BY <1>1, <1>3, <1>4, <1>6, <1>7 DEF Handed, t

\* A party turns what has been turned before it.
LEMMA HandedTurned ==
  ASSUME NEW ring \in Rings, NEW sc, Fit(ring, sc), NEW J \in Vector, NEW p \in Sender
  PROVE PermutedRows(Handed(ring, sc, J, p - 1), sc.pi[p])
          = AddAll(ring, PermutedRows(J, Turn(sc.pi)[p]), Masks(ring, sc)[p])
<1>1. p \in Party /\ p - 1 \in Party
  BY SenderIs
<1> DEFINE turned == PermutedRows(J, Turn(sc.pi)[p - 1])
           masks == Masks(ring, sc)[p - 1]
           more == sc.aprime[p - 1]
           pi == sc.pi[p]
           tau == Turn(sc.pi)[p - 1]
<1>2. turned \in Vector /\ masks \in Vector /\ more \in Vector /\ tau \in Turning
  BY <1>1, FitTypes
<1>3. pi \in Turning
  BY <1>1 DEF Fit
<1>4. Handed(ring, sc, J, p - 1) = AddAll(ring, AddAll(ring, turned, masks), more)
  BY DEF Handed
<1>5. Turn(sc.pi)[p] = [i \in Bin |-> tau[pi[i]]]
  BY TurnIs DEF Fit
<1>6. Masks(ring, sc)[p] = PermutedRows(AddAll(ring, masks, more), pi)
  BY MasksAre
<1>7. PermutedRows(turned, pi) = PermutedRows(J, [i \in Bin |-> tau[pi[i]]])
  <2>1. turned = PermutedRows(J, tau)
    OBVIOUS
  <2> HIDE DEF tau, pi, turned
  <2> QED BY <1>2, <1>3, <2>1, PermutedTwice
<1> HIDE DEF turned, masks, more, pi, tau
<1>8. AddAll(ring, masks, more) \in Vector /\ AddAll(ring, AddAll(ring, turned, masks), more) = AddAll(ring, turned, AddAll(ring, masks, more))
  BY <1>2, VectorLaws
<1>9. PermutedRows(AddAll(ring, turned, AddAll(ring, masks, more)), pi)
        = AddAll(ring, PermutedRows(turned, pi), PermutedRows(AddAll(ring, masks, more), pi))
  BY <1>2, <1>3, <1>8, PermutedSum
<1> QED BY <1>4, <1>5, <1>6, <1>7, <1>8, <1>9 DEF pi

\* Every party hands the total on, turned further and masked anew.
LEMMA HandedOn ==
  ASSUME NEW ring \in Rings, NEW sc, Fit(ring, sc), NEW J \in Vector, NEW p \in Sender
  PROVE HandOn(ring, sc, p, Handed(ring, sc, J, p - 1)) = Handed(ring, sc, J, p)
<1>1. PermutedRows(Handed(ring, sc, J, p - 1), sc.pi[p])
        = AddAll(ring, PermutedRows(J, Turn(sc.pi)[p]), Masks(ring, sc)[p])
  BY HandedTurned
<1>2. HandOn(ring, sc, p, Handed(ring, sc, J, p - 1)) = AddAll(ring, PermutedRows(Handed(ring, sc, J, p - 1), sc.pi[p]), sc.aprime[p])
  BY DEF HandOn
<1> QED BY <1>1, <1>2 DEF Handed

\* The last party is left with the total, turned by all, and the masks the others keep.
LEMMA LastIs ==
  ASSUME NEW ring \in Rings, NEW sc, Fit(ring, sc), NEW J \in Vector
  PROVE /\ Left(ring, sc, J, N - 1) = AddAll(ring, PermutedRows(J, Turn(sc.pi)[N - 1]), Spread(ring, sc.b))
        /\ PermutedRows(J, Turn(sc.pi)[N - 1]) \in Vector /\ Spread(ring, sc.b) \in Vector
<1> DEFINE turned == PermutedRows(J, Turn(sc.pi)[N - 1])
           masks == Masks(ring, sc)[N - 1]
           spread == Spread(ring, sc.b)
           z == Handed(ring, sc, J, N - 2)
<1>1. N - 1 \in Sender /\ N - 1 \in Party /\ (N - 1) - 1 = N - 2
  BY Parties
<1>2. turned \in Vector /\ masks \in Vector
  BY <1>1, FitTypes
<1>3. PermutedRows(z, sc.pi[N - 1]) = AddAll(ring, turned, masks)
  <2>1. PermutedRows(Handed(ring, sc, J, (N - 1) - 1), sc.pi[N - 1]) = AddAll(ring, turned, masks)
    <3> DEFINE p == N - 1
    <3>1. p \in Sender
      BY <1>1
    <3> HIDE DEF p
    <3>2. PermutedRows(Handed(ring, sc, J, p - 1), sc.pi[p]) = AddAll(ring, PermutedRows(J, Turn(sc.pi)[p]), Masks(ring, sc)[p])
      BY <3>1, HandedTurned
    <3> QED BY <3>2 DEF p
  <2> QED BY <1>1, <2>1
<1>4. spread \in Vector
  <2>1. sc.b \in [Party -> Vector] /\ Party \ {N - 1} \in SUBSET Party
    BY DEF Fit
  <2> DEFINE b == sc.b
             S == Party \ {N - 1}
  <2>2. b \in [Party -> Vector] /\ S \in SUBSET Party /\ IsFiniteSet(S)
    BY <2>1, Parties, FS_Subset
  <2> HIDE DEF b, S
  <2>3. TotalOf(ring, b, S) \in Vector
    BY <2>2, TotalLaws
  <2> QED BY <2>3 DEF Spread, b, S
<1>5. sc.delta = AddAll(ring, masks, Negated(ring, spread))
  BY DEF Fit, Masks
<1>6. Left(ring, sc, J, N - 1) = AddAll(ring, PermutedRows(z, sc.pi[N - 1]), Negated(ring, sc.delta))
  BY DEF Left, LastShare, Negated
<1> DEFINE sum(u, v) == AddAll(ring, u, v)
           neg(v) == Negated(ring, v)
<1>7. /\ \A u, v \in Vector : sum(u, v) \in Vector /\ sum(u, v) = sum(v, u)
      /\ \A v \in Vector : sum(v, Zeros) = v /\ neg(v) \in Vector /\ sum(v, neg(v)) = Zeros
  BY VectorLaws
<1>8. \A v \in Vector : neg(neg(v)) = v
  BY NegatedAdds
<1>9. \A u, v \in Vector : neg(sum(u, v)) = sum(neg(u), neg(v))
  <2>1. Additive(ring, ring, Negation(ring)) /\ \A v \in Vector : Negation(ring)[v] = Negated(ring, v)
    BY NegatedAdds
  <2> QED BY <1>7, <2>1 DEF Additive
<1>10. \A a, b, c, d \in Vector : sum(sum(a, b), sum(c, d)) = sum(sum(a, c), sum(b, d))
  BY AddFour
<1>11. sc.delta = sum(masks, neg(spread)) /\ Left(ring, sc, J, N - 1) = sum(sum(turned, masks), neg(sc.delta))
  BY <1>3, <1>5, <1>6
<1> HIDE DEF sum, neg, turned, masks, spread
<1>12. neg(sc.delta) = sum(neg(masks), spread)
  BY <1>2, <1>4, <1>7, <1>8, <1>9, <1>11
<1>13. sum(neg(masks), spread) = sum(spread, neg(masks)) /\ sum(masks, neg(masks)) = Zeros
  BY <1>2, <1>4, <1>7
<1>14. sum(sum(turned, masks), sum(spread, neg(masks))) = sum(sum(turned, spread), sum(masks, neg(masks)))
  BY <1>2, <1>4, <1>7, <1>10
<1>15. Left(ring, sc, J, N - 1) = sum(turned, spread)
  BY <1>2, <1>4, <1>7, <1>11, <1>12, <1>13, <1>14
<1> QED BY <1>2, <1>4, <1>15 DEF sum, turned, spread

\* The shares all are left with are vectors.
LEMMA LeftTyped ==
  ASSUME NEW ring \in Rings, NEW sc, Fit(ring, sc), NEW J \in Vector
  PROVE /\ LeftOver(ring, sc, J) \in [Party -> Vector] /\ \A p \in Party : Left(ring, sc, J, p) \in Vector
        /\ \A p \in Party : LeftOver(ring, sc, J)[p] = Left(ring, sc, J, p)
        /\ \A p \in Party \ {N - 1} : Left(ring, sc, J, p) = Negated(ring, sc.b[p])
<1>1. ASSUME NEW p \in Party \ {N - 1} PROVE Left(ring, sc, J, p) = Negated(ring, sc.b[p]) /\ Left(ring, sc, J, p) \in Vector
  <2>1. Left(ring, sc, J, p) = Negated(ring, sc.b[p])
    BY DEF Left, Kept, Negated
  <2>2. sc.b[p] \in Vector
    BY DEF Fit
  <2> QED BY <2>1, <2>2, VectorLaws
<1>2. Left(ring, sc, J, N - 1) \in Vector
  BY LastIs, VectorLaws
<1>3. \A p \in Party : Left(ring, sc, J, p) \in Vector
  BY <1>1, <1>2
<1> QED BY <1>1, <1>3 DEF LeftOver

\* The parties of a shuffle are left with shares of what they had shares of, turned:
\* their shares total the rows in the order all permutations together give them.
THEOREM LeftTotal ==
  ASSUME NEW ring \in Rings, NEW sc, Fit(ring, sc), NEW J \in Vector
  PROVE /\ TotalOf(ring, LeftOver(ring, sc, J), Party) = PermutedRows(J, Turn(sc.pi)[N - 1])
        /\ PermutedRows(J, Turn(sc.pi)[N - 1]) \in Vector
<1> DEFINE left == LeftOver(ring, sc, J)
           others == Party \ {N - 1}
           turned == PermutedRows(J, Turn(sc.pi)[N - 1])
           spread == Spread(ring, sc.b)
           b == sc.b
           gone == Images(Negation(ring), b)
<1>1. /\ left \in [Party -> Vector] /\ left[N - 1] = Left(ring, sc, J, N - 1)
      /\ \A p \in others : left[p] = Negated(ring, b[p])
  BY LeftTyped, Parties
<1>2. Left(ring, sc, J, N - 1) = AddAll(ring, turned, spread) /\ turned \in Vector /\ spread \in Vector
  BY LastIs
<1>3. N - 1 \in Party /\ IsFiniteSet(Party)
  BY Parties
<1>4. others \in SUBSET Party /\ IsFiniteSet(others)
  BY <1>3, FS_Subset
<1>5. b \in [Party -> Vector] /\ spread = TotalOf(ring, b, others)
  BY DEF Fit, Spread
<1>6. Additive(ring, ring, Negation(ring)) /\ \A v \in Vector : Negation(ring)[v] = Negated(ring, v)
  BY NegatedAdds
<1> HIDE DEF left, others, b, turned, spread
<1>7. /\ Negation(ring)[TotalOf(ring, b, others)] = TotalOf(ring, gone, others)
      /\ gone \in [Party -> Vector] /\ \A p \in Party : gone[p] = Negation(ring)[b[p]]
  BY <1>4, <1>5, <1>6, TotalMoved
<1> HIDE DEF gone
<1>8. \A p \in others : left[p] = gone[p]
  BY <1>1, <1>4, <1>5, <1>6, <1>7
<1>9. TotalOf(ring, left, others) = TotalOf(ring, gone, others)
  <2>1. Alike(left, gone, others)
    BY <1>8 DEF Alike
  <2> QED BY <1>1, <1>4, <1>7, <2>1, TotalAgree
<1>10. TotalOf(ring, left, others) = Negated(ring, spread)
  BY <1>2, <1>5, <1>6, <1>7, <1>9
<1>11. TotalOf(ring, left, Party) = AddAll(ring, TotalOf(ring, left, others), left[N - 1])
  <2>1. TotalOf(ring, left, Party) = AddAll(ring, TotalOf(ring, left, Party \ {N - 1}), left[N - 1])
    BY <1>1, <1>3, TotalWithout
  <2> QED BY <2>1 DEF others
<1>12. TotalOf(ring, left, Party) = AddAll(ring, Negated(ring, spread), AddAll(ring, turned, spread))
  BY <1>1, <1>2, <1>10, <1>11
<1>13. AddAll(ring, Negated(ring, spread), AddAll(ring, turned, spread)) = turned
  <2> DEFINE neg == Negated(ring, spread)
  <2>1. neg \in Vector /\ AddAll(ring, spread, neg) = Zeros
    BY <1>2, VectorLaws
  <2> HIDE DEF neg
  <2>2. AddAll(ring, turned, spread) \in Vector
    BY <1>2, VectorLaws
  <2>3. AddAll(ring, neg, AddAll(ring, turned, spread)) = AddAll(ring, AddAll(ring, turned, spread), neg)
    BY <2>1, <2>2, VectorLaws
  <2>4. AddAll(ring, AddAll(ring, turned, spread), neg) = AddAll(ring, turned, AddAll(ring, spread, neg))
    BY <1>2, <2>1, VectorLaws
  <2>5. AddAll(ring, turned, Zeros) = turned
    BY <1>2, VectorLaws
  <2> QED BY <2>1, <2>3, <2>4, <2>5 DEF neg
<1> QED BY <1>2, <1>12, <1>13 DEF left, turned

-----------------------------------------------------------------------------
(* The multiplication. *)

\* Vectors added without carries.
LEMMA PlusAllIs ==
  ASSUME NEW x \in Vector, NEW y \in Vector
  PROVE PlusAll(x, y) = AddAll("xor", x, y) /\ PlusAll(x, y) \in Vector
<1>1. PlusAll(x, y) = AddAll("xor", x, y)
  BY DEF PlusAll, AddAll, Add
<1>2. "xor" \in Rings
  BY DEF Rings
<1> QED BY <1>1, <1>2, VectorLaws

Scaled(m, v) == [b \in Bin |-> Times(m[b], v[b])]
Scaling(m) == [v \in Vector |-> Scaled(m, v)]

\* Multiplying bin by bin turns sums into sums, on either side.
LEMMA ScaledLaws ==
  ASSUME NEW m \in Vector
  PROVE /\ Additive("xor", "xor", Scaling(m)) /\ \A v \in Vector : Scaling(m)[v] = Scaled(m, v) /\ Scaled(m, v) \in Vector
        /\ \A n, v \in Vector : Scaled(AddAll("xor", m, n), v) = AddAll("xor", Scaled(m, v), Scaled(n, v))
<1>1. "xor" \in Rings
  BY DEF Rings
<1>2. \A n, v \in Vector : Scaled(n, v) \in Vector /\ \A b \in Bin : Scaled(n, v)[b] = Times(n[b], v[b])
  BY TimesLaws DEF Scaled, Vector
<1>3. Zeros \in Vector /\ \A u, v \in Vector : AddAll("xor", u, v) \in Vector /\ \A b \in Bin : AddAll("xor", u, v)[b] = Plus(u[b], v[b])
  BY <1>1, VectorLaws DEF Add
<1>4. ASSUME NEW u \in Vector, NEW v \in Vector
      PROVE Scaled(m, AddAll("xor", u, v)) = AddAll("xor", Scaled(m, u), Scaled(m, v))
  <2> DEFINE l == Scaled(m, AddAll("xor", u, v))
             r == AddAll("xor", Scaled(m, u), Scaled(m, v))
  <2>1. l \in Vector /\ r \in Vector
    BY <1>2, <1>3
  <2>2. ASSUME NEW b \in Bin PROVE l[b] = r[b]
    <3>1. l[b] = Times(m[b], Plus(u[b], v[b])) /\ r[b] = Plus(Times(m[b], u[b]), Times(m[b], v[b]))
      BY <1>2, <1>3
    <3>2. m[b] \in Element /\ u[b] \in Element /\ v[b] \in Element
      BY DEF Vector
    <3> QED BY <3>1, <3>2, TimesLaws
  <2> HIDE DEF l, r
  <2>3. l = r
    BY <2>1, <2>2, SameVectors
  <2> QED BY <2>3 DEF l, r
<1>5. ASSUME NEW n \in Vector, NEW v \in Vector
      PROVE Scaled(AddAll("xor", m, n), v) = AddAll("xor", Scaled(m, v), Scaled(n, v))
  <2> DEFINE l == Scaled(AddAll("xor", m, n), v)
             r == AddAll("xor", Scaled(m, v), Scaled(n, v))
  <2>1. l \in Vector /\ r \in Vector
    BY <1>2, <1>3
  <2>2. ASSUME NEW b \in Bin PROVE l[b] = r[b]
    <3>1. l[b] = Times(Plus(m[b], n[b]), v[b]) /\ r[b] = Plus(Times(m[b], v[b]), Times(n[b], v[b]))
      BY <1>2, <1>3
    <3>2. m[b] \in Element /\ n[b] \in Element /\ v[b] \in Element
      BY DEF Vector
    <3> QED BY <3>1, <3>2, TimesLaws
  <2> HIDE DEF l, r
  <2>3. l = r
    BY <2>1, <2>2, SameVectors
  <2> QED BY <2>3 DEF l, r
<1>6. Scaled(m, Zeros) = Zeros
  <2>1. ASSUME NEW b \in Bin PROVE Scaled(m, Zeros)[b] = Zeros[b]
    <3>1. Zeros[b] = {} /\ m[b] \in Element
      BY DEF Zeros, Vector
    <3>2. Scaled(m, Zeros)[b] = Times(m[b], Zeros[b])
      BY <1>2, <1>3
    <3> QED BY <3>1, <3>2, TimesLaws
  <2> QED BY <1>2, <1>3, <2>1, SameVectors
<1>7. Scaling(m) \in [Vector -> Vector] /\ \A v \in Vector : Scaling(m)[v] = Scaled(m, v)
  BY <1>2 DEF Scaling
<1>8. Additive("xor", "xor", Scaling(m))
  <2>1. \A u, v \in Vector : Scaling(m)[AddAll("xor", u, v)] = AddAll("xor", Scaling(m)[u], Scaling(m)[v])
    BY <1>3, <1>4, <1>7
  <2> QED BY <1>3, <1>6, <1>7, <2>1 DEF Additive
<1> QED BY <1>2, <1>5, <1>7, <1>8

\* Shares of a product.
Fitting(t) ==
  /\ t.a \in [Party -> Vector] /\ t.b \in [Party -> Vector] /\ t.c \in [Party -> Vector]
  /\ TotalOf("xor", t.c, Party) = Scaled(TotalOf("xor", t.a, Party), TotalOf("xor", t.b, Party))

\* The prepared triples are shares of a product.
LEMMA BeaverTriple ==
  ASSUME NEW s, \A p \in Party, i \in Bin : Drawn(s, p, i)
  PROVE Fitting(BeaverGen64(s))
<1> DEFINE a == Drawing(s, "a", Party)
           f == Drawing(s, "factor", Party)
           c == Drawing(s, "c", Party)
           A == TotalOf("xor", a, Party)
           B == TotalOf("xor", f, Party)
           others == Party \ {N - 1}
           rest == TotalOf("xor", c, others)
           product == Scaled(A, B)
           last == PlusAll(product, rest)
           d == [c EXCEPT ![N - 1] = last]
           t == BeaverGen64(s)
<1>1. t = [a |-> a, b |-> f, c |-> d]
  BY Zenon DEF BeaverGen64, Drawing, Scaled
<1>2. a \in [Party -> Vector] /\ f \in [Party -> Vector] /\ c \in [Party -> Vector]
  BY DEF Drawing, Drawn, Vector
<1>3. N - 1 \in Party /\ IsFiniteSet(Party) /\ "xor" \in Rings
  BY Parties DEF Rings
<1>4. others \in SUBSET Party /\ IsFiniteSet(others)
  BY <1>3, FS_Subset
<1> HIDE DEF a, f, c, others, t
<1>5. A \in Vector /\ B \in Vector /\ rest \in Vector
  BY <1>2, <1>3, <1>4, TotalLaws
<1> HIDE DEF A, B, rest
<1>6. product \in Vector
  BY <1>5, ScaledLaws
<1> HIDE DEF product
<1>7. last = AddAll("xor", product, rest) /\ last \in Vector
  BY <1>5, <1>6, PlusAllIs
<1> HIDE DEF last
<1>8. d \in [Party -> Vector] /\ d[N - 1] = last /\ \A p \in others : d[p] = c[p]
  BY <1>2, <1>3, <1>7 DEF others
<1> HIDE DEF d
<1>9. TotalOf("xor", d, others) = rest
  <2>1. Alike(d, c, others)
    BY <1>8 DEF Alike
  <2> QED BY <1>2, <1>3, <1>4, <1>8, <2>1, TotalAgree DEF rest
<1>10. TotalOf("xor", d, Party) = AddAll("xor", TotalOf("xor", d, others), d[N - 1])
  <2>1. TotalOf("xor", d, Party) = AddAll("xor", TotalOf("xor", d, Party \ {N - 1}), d[N - 1])
    BY <1>3, <1>8, TotalWithout
  <2> QED BY <2>1 DEF others
<1>11. AddAll("xor", rest, AddAll("xor", product, rest)) = product
  <2>1. Negated("xor", rest) = rest
    <3>1. Negated("xor", rest) \in Vector
      BY <1>3, <1>5, VectorLaws
    <3>2. \A b \in Bin : Negated("xor", rest)[b] = rest[b]
      BY DEF Negated, Minus
    <3> QED BY <1>5, <3>1, <3>2, SameVectors
  <2>2. AddAll("xor", rest, rest) = Zeros
    BY <1>3, <1>5, <2>1, VectorLaws
  <2>3. AddAll("xor", product, rest) \in Vector
    BY <1>7
  <2>4. AddAll("xor", rest, AddAll("xor", product, rest)) = AddAll("xor", AddAll("xor", product, rest), rest)
    BY <1>3, <1>5, <2>3, VectorLaws
  <2>5. AddAll("xor", AddAll("xor", product, rest), rest) = AddAll("xor", product, AddAll("xor", rest, rest))
    BY <1>3, <1>5, <1>6, VectorLaws
  <2>6. AddAll("xor", product, Zeros) = product
    BY <1>3, <1>6, VectorLaws
  <2> QED BY <2>2, <2>4, <2>5, <2>6
<1>12. TotalOf("xor", d, Party) = product
  BY <1>7, <1>8, <1>9, <1>10, <1>11
<1>13. t.a = a /\ t.b = f /\ t.c = d
  BY <1>1
<1>14. Fitting(t)
  BY <1>2, <1>8, <1>12, <1>13 DEF Fitting, product, A, B
<1> QED BY <1>14 DEF t

\* The masked inputs total the inputs and the masks.
LEMMA MaskedTotalIs ==
  ASSUME NEW t, Fitting(t), NEW data \in [Party -> Vector]
  PROVE /\ MaskedTotal(t, data) = AddAll("xor", TotalOf("xor", data, Party), TotalOf("xor", t.a, Party))
        /\ MaskedTotal(t, data) \in Vector
<1> DEFINE a == t.a
           masked == Both("xor", data, a)
           sent == [q \in Sender |-> MaskedInput(t, q, data[q])]
<1>1. "xor" \in Rings /\ a \in [Party -> Vector] /\ IsFiniteSet(Party) /\ 0 \in Party /\ Sender = Party \ {0}
      /\ IsFiniteSet(Sender) /\ Sender \in SUBSET Party
  BY Parties DEF Fitting, Rings
<1>2. \A p \in Party : MaskedInput(t, p, data[p]) = AddAll("xor", data[p], a[p])
  BY <1>1, PlusAllIs DEF MaskedInput
<1> HIDE DEF a
<1>3. /\ TotalOf("xor", masked, Party) = AddAll("xor", TotalOf("xor", data, Party), TotalOf("xor", a, Party))
      /\ masked \in [Party -> Vector] /\ \A p \in Party : masked[p] = AddAll("xor", data[p], a[p])
  BY <1>1, TotalAdds
<1> HIDE DEF masked
<1>4. /\ TotalOf("xor", masked, Party) \in Vector /\ TotalOf("xor", masked, Party \ {0}) \in Vector
      /\ TotalOf("xor", masked, Party) = AddAll("xor", TotalOf("xor", masked, Party \ {0}), masked[0])
  BY <1>1, <1>3, TotalWithout
<1>5. \A q \in Sender : q \in Party /\ sent[q] = masked[q]
  BY <1>1, <1>2, <1>3
<1>6. sent \in [Sender -> Vector]
  <2>1. \A q \in Sender : MaskedInput(t, q, data[q]) \in Vector
    BY <1>1, <1>2, <1>3
  <2> QED BY <2>1
<1>7. TotalOf("xor", sent, Sender) = TotalOf("xor", masked, Sender)
  <2> HIDE DEF sent
  <2>1. Alike(sent, masked, Sender)
    BY <1>5 DEF Alike
  <2> QED BY <1>1, <1>3, <1>6, <2>1, TotalAgree
<1>8. MaskedTotal(t, data) = AddAll("xor", masked[0], TotalOf("xor", sent, Sender))
  BY <1>1, <1>2, <1>3 DEF MaskedTotal
<1>9. masked[0] \in Vector
  BY <1>1, <1>3
<1>10. AddAll("xor", masked[0], TotalOf("xor", masked, Sender)) = AddAll("xor", TotalOf("xor", masked, Sender), masked[0])
  BY <1>1, <1>4, <1>9, VectorLaws
<1> HIDE DEF sent
<1>11. MaskedTotal(t, data) = TotalOf("xor", masked, Party)
  BY <1>1, <1>4, <1>7, <1>8, <1>10
<1> QED BY <1>3, <1>4, <1>11 DEF a

Products(t, sum) == [p \in Party |-> Product(t, p, sum)]

\* A party's share of the product is a vector.
LEMMA ProductIs ==
  ASSUME NEW t, Fitting(t), NEW sum \in Vector, NEW p \in Party
  PROVE Product(t, p, sum) = AddAll("xor", Scaled(sum, t.b[p]), t.c[p]) /\ Product(t, p, sum) \in Vector
<1>1. t.b[p] \in Vector /\ t.c[p] \in Vector /\ "xor" \in Rings
  BY DEF Fitting, Rings
<1>2. Scaled(sum, t.b[p]) \in Vector
  BY <1>1, ScaledLaws
<1> DEFINE v == AddAll("xor", Scaled(sum, t.b[p]), t.c[p])
           u == Scaled(sum, t.b[p])
           w == t.c[p]
<1>3. v \in Vector /\ \A b \in Bin : v[b] = Plus(Scaled(sum, t.b[p])[b], t.c[p][b])
  <2>1. u \in Vector /\ w \in Vector /\ v = AddAll("xor", u, w)
    BY <1>1, <1>2
  <2> HIDE DEF u, v, w
  <2>2. AddAll("xor", u, w) \in Vector
    BY <1>1, <2>1, VectorLaws
  <2>3. \A x, y \in Vector, b \in Bin : AddAll("xor", x, y)[b] = Add("xor", x[b], y[b])
    BY <1>1, VectorLaws
  <2>4. \A b \in Bin : AddAll("xor", u, w)[b] = Add("xor", u[b], w[b])
    BY <2>1, <2>3
  <2> QED BY <2>1, <2>2, <2>4 DEF Add, u, w
<1> HIDE DEF v
<1>4. \A b \in Bin : v[b] = Plus(Times(sum[b], t.b[p][b]), t.c[p][b])
  BY <1>3 DEF Scaled
<1>5. v = [b \in Bin |-> v[b]]
  BY <1>3 DEF Vector
<1>6. v = Product(t, p, sum)
  BY <1>4, <1>5 DEF Product
<1> QED BY <1>3, <1>6 DEF v

\* The parties of a multiplication are left with shares of the input times the factor.
THEOREM ProductTotal ==
  ASSUME NEW t, Fitting(t), NEW data \in [Party -> Vector]
  PROVE /\ TotalOf("xor", Products(t, MaskedTotal(t, data)), Party)
             = Scaled(TotalOf("xor", data, Party), TotalOf("xor", t.b, Party))
        /\ Products(t, MaskedTotal(t, data)) \in [Party -> Vector]
        /\ TotalOf("xor", data, Party) \in Vector /\ TotalOf("xor", t.b, Party) \in Vector
<1> DEFINE m == MaskedTotal(t, data)
           a == t.a
           b == t.b
           c == t.c
           x == TotalOf("xor", data, Party)
           A == TotalOf("xor", a, Party)
           B == TotalOf("xor", b, Party)
           C == TotalOf("xor", c, Party)
           scaled == Images(Scaling(m), b)
           parts == Both("xor", scaled, c)
           out == Products(t, m)
<1>1. /\ "xor" \in Rings /\ IsFiniteSet(Party)
      /\ a \in [Party -> Vector] /\ b \in [Party -> Vector] /\ c \in [Party -> Vector]
  BY Parties DEF Fitting, Rings
<1>2. C = Scaled(A, B)
  BY DEF Fitting
<1>3. m = AddAll("xor", x, A) /\ m \in Vector
  BY MaskedTotalIs
<1>4. \A p \in Party : out[p] = AddAll("xor", Scaled(m, b[p]), c[p]) /\ out[p] \in Vector
  BY <1>3, ProductIs DEF Products
<1>5. out \in [Party -> Vector]
  BY <1>4 DEF Products
<1> HIDE DEF a, b, c, m, out
<1>6. x \in Vector /\ A \in Vector /\ B \in Vector
  BY <1>1, TotalLaws
<1>7. Additive("xor", "xor", Scaling(m)) /\ \A v \in Vector : Scaling(m)[v] = Scaled(m, v)
  BY <1>3, ScaledLaws
<1>8. /\ Scaling(m)[B] = TotalOf("xor", scaled, Party)
      /\ scaled \in [Party -> Vector] /\ \A p \in Party : scaled[p] = Scaling(m)[b[p]]
  BY <1>1, <1>7, TotalMoved
<1> HIDE DEF scaled
<1>9. /\ TotalOf("xor", parts, Party) = AddAll("xor", TotalOf("xor", scaled, Party), C)
      /\ parts \in [Party -> Vector] /\ \A p \in Party : parts[p] = AddAll("xor", scaled[p], c[p])
  BY <1>1, <1>8, TotalAdds
<1> HIDE DEF parts, x, A, B, C
<1>10. TotalOf("xor", out, Party) = TotalOf("xor", parts, Party)
  <2>1. \A p \in Party : out[p] = parts[p]
    BY <1>1, <1>4, <1>7, <1>8, <1>9
  <2>2. Alike(out, parts, Party)
    BY <2>1 DEF Alike
  <2> QED BY <1>1, <1>5, <1>9, <2>2, TotalAgree
<1>11. Scaled(m, B) = AddAll("xor", Scaled(x, B), Scaled(A, B))
  BY <1>3, <1>6, ScaledLaws
<1>12. TotalOf("xor", out, Party) = AddAll("xor", AddAll("xor", Scaled(x, B), Scaled(A, B)), Scaled(A, B))
  BY <1>2, <1>6, <1>7, <1>8, <1>9, <1>10, <1>11
<1>13. AddAll("xor", AddAll("xor", Scaled(x, B), Scaled(A, B)), Scaled(A, B)) = Scaled(x, B)
  <2> DEFINE u == Scaled(x, B)
             v == Scaled(A, B)
  <2>1. u \in Vector /\ v \in Vector
    BY <1>6, ScaledLaws
  <2> HIDE DEF u, v
  <2>2. AddAll("xor", AddAll("xor", u, v), v) \in Vector
    BY <1>1, <2>1, VectorLaws
  <2>3. \A i \in Bin : AddAll("xor", AddAll("xor", u, v), v)[i] = Plus(Plus(u[i], v[i]), v[i])
    <3>1. AddAll("xor", u, v) \in Vector
      BY <1>1, <2>1, VectorLaws
    <3> QED BY <1>1, <2>1, <3>1, VectorLaws DEF Add
  <2>4. \A i \in Bin : Plus(Plus(u[i], v[i]), v[i]) = u[i]
    BY <2>1, PlusTwice DEF Vector
  <2>5. AddAll("xor", AddAll("xor", u, v), v) = u
    BY <2>1, <2>2, <2>3, <2>4, SameVectors
  <2> QED BY <2>5 DEF u, v
<1> QED BY <1>5, <1>6, <1>12, <1>13 DEF m, b, x, B, out

-----------------------------------------------------------------------------
(* What the parties have prepared. *)

AllKinds == {"PSI", "PSICS1", "PSICS2"}

\* The files of the parties.
LEMMA PreparedIs ==
  ASSUME NEW s
  PROVE /\ Prepared(s).triple = BeaverGen64(s)
        /\ Prepared(s).psic = Correlated(s, "psic", "xor", OrdersOf(s, "psic"))
        /\ Prepared(s).psics1 = Correlated(s, "psics1", "xor", OrdersOf(s, "psics1"))
        /\ Prepared(s).psics2 = Correlated(s, "psics2", "add", OrdersOf(s, "psics1"))
        /\ Prepared(s).vole = [PSI |-> Voles(s, "psi"), PSICS1 |-> Voles(s, "psics1"), PSICS2 |-> Voles(s, "psics2")]
<1> DEFINE first == Correlated(s, "psics1", "xor", OrdersOf(s, "psics1"))
           xor == Correlated(s, "psic", "xor", OrdersOf(s, "psic"))
           add == Correlated(s, "psics2", "add", first.pi)
           v0 == Voles(s, "psi")
           v1 == Voles(s, "psics1")
           v2 == Voles(s, "psics2")
           beaver == BeaverGen64(s)
           count == CardPreGen(s)
<1>1. count = [vole |-> [PSI |-> v0], triple |-> beaver, psic |-> xor]
  BY DEF CardPreGen, CardVoles, GenerateXor
<1>2. SumVoles(s) = [PSICS1 |-> v1, PSICS2 |-> v2]
  BY DEF SumVoles
<1>3. first.pi = OrdersOf(s, "psics1")
  BY CorrelatedIs
<1>4. Prepared(s) =
        [vole |-> [PSI |-> count.vole.PSI, PSICS1 |-> SumVoles(s).PSICS1, PSICS2 |-> SumVoles(s).PSICS2], triple |-> beaver,
         psic |-> count.psic, psics1 |-> first, psics2 |-> add]
  BY DEF Prepared, SumPreGen, GenerateXor, GenerateAdd
<1>5. add = Correlated(s, "psics2", "add", OrdersOf(s, "psics1"))
  BY <1>3
<1> HIDE DEF first, xor, add, v0, v1, v2, beaver, count
<1>6. count.vole.PSI = v0 /\ count.psic = xor /\ SumVoles(s).PSICS1 = v1 /\ SumVoles(s).PSICS2 = v2
  BY <1>1, <1>2
<1>7. /\ Prepared(s).triple = beaver /\ Prepared(s).psic = xor /\ Prepared(s).psics1 = first /\ Prepared(s).psics2 = add
      /\ Prepared(s).vole = [PSI |-> v0, PSICS1 |-> v1, PSICS2 |-> v2]
  BY <1>4, <1>6
<1> QED BY <1>5, <1>7 DEF first, xor, v0, v1, v2, beaver

\* The pairs of vectors a sender and party 0 look up with.
LEMMA VolesAre ==
  ASSUME NEW s, NEW kind \in AllKinds, NEW q \in Sender
  PROVE Prepared(s).vole[kind][q].send = VoleGenSend(s, PairOf(kind), q) /\ Prepared(s).vole[kind][q].recv = VoleGenRecv(s, PairOf(kind), q)
<1> DEFINE f == [PSI |-> Voles(s, "psi"), PSICS1 |-> Voles(s, "psics1"), PSICS2 |-> Voles(s, "psics2")]
<1>1. Prepared(s).vole = f
  BY PreparedIs
<1>2. f[kind] = Voles(s, PairOf(kind))
  <2>1. CASE kind = "PSI"
    BY <2>1 DEF PairOf
  <2>2. CASE kind = "PSICS1"
    BY <2>2 DEF PairOf
  <2>3. CASE kind = "PSICS2"
    BY <2>3 DEF PairOf
  <2> QED BY <2>1, <2>2, <2>3 DEF AllKinds
<1> HIDE DEF f
<1>3. Voles(s, PairOf(kind))[q] = [send |-> VoleGenSend(s, PairOf(kind), q), recv |-> VoleGenRecv(s, PairOf(kind), q)]
  BY DEF Voles
<1> QED BY <1>1, <1>2, <1>3

\* What is shuffled by is drawn as a permutation.
LEMMA OrdersOfTyped ==
  ASSUME NEW s, NEW what \in {"psic", "psics1"}, \A p \in Party, i \in Bin : Drawn(s, p, i), NEW p \in Party
  PROVE OrdersOf(s, what)[p] \in Turning
<1> DEFINE draws == [i \in 2..Bins |-> 1 + (Number(Draw(s, what, p, i)) % i)]
<1>1. ASSUME NEW i \in 2..Bins PROVE draws[i] \in 1..i
  <2>1. i \in Bin
    BY Parties DEF Bin
  <2>2. Draw(s, what, p, i) \in Element
    BY <2>1 DEF Drawn
  <2>3. Number(Draw(s, what, p, i)) \in Nat
    BY <2>2, NumberIs
  <2> DEFINE n == Number(Draw(s, what, p, i))
  <2> HIDE DEF n
  <2>4. n % i \in 0..(i - 1)
    BY <2>3, Parties DEF n
  <2>5. 1 + (n % i) \in 1..i
    BY <2>4
  <2> QED BY <2>5 DEF n
<1>2. Bins \in Nat /\ Bins > 0
  BY Parties
<1>3. FisherYates(Bins, draws) \in Orders(Bins)
  <2> HIDE DEF draws
  <2> QED BY <1>1, <1>2, FisherYatesPermutes
<1> QED BY <1>3 DEF OrdersOf, Turning

\* What is prepared for a shuffle fits together.
LEMMA CorrelatedFits ==
  ASSUME NEW s, NEW what \in {"psic", "psics1", "psics2"}, NEW ring, NEW pi,
         \A p \in Party, i \in Bin : Drawn(s, p, i), \A p \in Party : pi[p] \in Turning
  PROVE Fit(ring, Correlated(s, what, ring, pi)) /\ Correlated(s, what, ring, pi).pi = pi
<1> DEFINE sc == Correlated(s, what, ring, pi)
<1>1. /\ sc.pi = pi /\ sc.a = Drawing(s, what \o "a", Sender) /\ sc.aprime = Drawing(s, what \o "p", Party)
      /\ sc.b = Drawing(s, what \o "b", Party)
      /\ sc.delta = AddAll(ring, Carried(ring, sc.pi, sc.a, sc.aprime)[N - 1], Negated(ring, Spread(ring, sc.b)))
  BY CorrelatedIs
<1> HIDE DEF sc
<1>2. \A p \in Party, i \in Bin, part \in {"a", "p", "b"} : Draw(s, what \o part, p, i) \in Element
  BY DEF Drawn
<1>3. \A part \in {"a", "p", "b"} : Drawing(s, what \o part, Party) \in [Party -> Vector] /\ Drawing(s, what \o part, Sender) \in [Sender -> Vector]
  BY <1>2, Parties DEF Drawing, Vector
<1>4. Fit(ring, sc)
  BY <1>1, <1>3 DEF Fit
<1> QED BY <1>1, <1>4 DEF sc

\* The random words of a session.
LEMMA DrawnIs == ASSUME NEW c, Typed(c) PROVE \A p \in Party, i \in Bin : Drawn(c.seed, p, i)
BY DEF Typed

\* The correlations of a session fit, and its two shuffles of the sum are of one order.
LEMMA CorrFits ==
  ASSUME NEW c, Typed(c), NEW kind \in AllKinds
  PROVE /\ Fit(RingOf(kind), CorrOf(c, kind)) /\ RingOf(kind) \in Rings
        /\ CorrOf(c, "PSICS2").pi = CorrOf(c, "PSICS1").pi
<1> DEFINE s == c.seed
<1>1. \A p \in Party, i \in Bin : Drawn(s, p, i)
  BY DrawnIs
<1> HIDE DEF s
<1>2. \A what \in {"psic", "psics1"} : \A p \in Party : OrdersOf(s, what)[p] \in Turning
  BY <1>1, OrdersOfTyped
<1>3. Fit("xor", Correlated(s, "psic", "xor", OrdersOf(s, "psic")))
  BY <1>1, <1>2, CorrelatedFits
<1>4. Fit("xor", Correlated(s, "psics1", "xor", OrdersOf(s, "psics1"))) /\ Correlated(s, "psics1", "xor", OrdersOf(s, "psics1")).pi = OrdersOf(s, "psics1")
  BY <1>1, <1>2, CorrelatedFits
<1>5. Fit("add", Correlated(s, "psics2", "add", OrdersOf(s, "psics1"))) /\ Correlated(s, "psics2", "add", OrdersOf(s, "psics1")).pi = OrdersOf(s, "psics1")
  BY <1>1, <1>2, CorrelatedFits
<1>6. /\ CorrOf(c, "PSI") = Correlated(s, "psic", "xor", OrdersOf(s, "psic"))
      /\ CorrOf(c, "PSICS1") = Correlated(s, "psics1", "xor", OrdersOf(s, "psics1"))
      /\ CorrOf(c, "PSICS2") = Correlated(s, "psics2", "add", OrdersOf(s, "psics1"))
  BY PreparedIs DEF CorrOf, s
<1>7. Fit(RingOf(kind), CorrOf(c, kind))
  BY <1>3, <1>4, <1>5, <1>6 DEF AllKinds, RingOf
<1>8. RingOf(kind) \in Rings
  BY DEF RingOf, Rings
<1> QED BY <1>4, <1>5, <1>6, <1>7, <1>8

\* The triples of a session are shares of a product.
LEMMA TripleFits == ASSUME NEW c, Typed(c) PROVE Fitting(TripleOf(c)) /\ Prepared(c.seed).triple = TripleOf(c)
<1>1. \A p \in Party, i \in Bin : Drawn(c.seed, p, i)
  BY DrawnIs
<1>2. Fitting(BeaverGen64(c.seed))
  BY <1>1, BeaverTriple
<1> QED BY <1>2, PreparedIs DEF TripleOf

-----------------------------------------------------------------------------
(* The lookup. *)

\* Words added without carries, and hashed.
LEMMA PlusLaws ==
  /\ \A x, y \in Element : Plus(x, y) \in Element /\ Plus(x, Plus(x, y)) = y
  /\ \A x \in Element : Hash(x) \in Element
<1>1. "xor" \in Rings
  BY DEF Rings
<1>2. \A x, y \in Element : Add("xor", x, y) \in Element /\ Add("xor", x, y) = Add("xor", y, x)
  BY <1>1, GroupLaws
<1>3. \A x, y \in Element : Plus(x, y) \in Element /\ Plus(x, y) = Plus(y, x)
  BY <1>2 DEF Add
<1>4. \A x, y \in Element : Plus(x, Plus(x, y)) = y
  BY <1>3, PlusTwice
<1>5. {1} \in Element
  <2>1. Degree \in Nat /\ Degree >= 2
    BY SetAssumption
  <2> QED BY <2>1 DEF Element
<1>6. \A x \in Element : Hash(x) \in Element
  BY <1>5, TimesLaws DEF Hash
<1> QED BY <1>3, <1>4, <1>6

\* Labels, and what a key that is not encoded decodes to.
LEMMA LabelsTyped ==
  ASSUME NEW c, Typed(c), NEW kind \in AllKinds, NEW q \in Sender
  PROVE LabelOf(c, kind, q) \in Vector /\ JunkOf(c, kind, q) \in Vector
<1>1. q \in Party
  BY Parties
<1>2. \A b \in Bin : Drawn(c.seed, q, b)
  BY <1>1, DrawnIs
<1>3. \A b \in Bin : Draw(c.seed, kind \o "label", q, b) \in Element /\ Draw(c.seed, kind \o "junk", q, b) \in Element
  BY <1>2 DEF Drawn, AllKinds
<1> QED BY <1>3 DEF LabelOf, JunkOf, Vector

\* Party 0 has the sum of a sender's vector and the multiples of its factor.
LEMMA VoleTyped ==
  ASSUME NEW c, Typed(c), NEW kind \in AllKinds, NEW q \in Sender
  PROVE /\ SendOf(c, kind, q).D \in Element /\ SendOf(c, kind, q).B \in Vector
        /\ RecvOf(c, kind, q).C \in Vector /\ RecvOf(c, kind, q).A \in Vector
        /\ \A b \in Bin : RecvOf(c, kind, q).A[b] = Plus(SendOf(c, kind, q).B[b], Times(RecvOf(c, kind, q).C[b], SendOf(c, kind, q).D))
<1> DEFINE s == c.seed
           what == PairOf(kind)
           D == Draw(s, what \o "D", q, 1)
           B == [b \in Bin |-> Draw(s, what \o "B", q, b)]
           C == [b \in Bin |-> Draw(s, what \o "C", q, b)]
           A == [b \in Bin |-> Plus(B[b], Times(C[b], D))]
<1>1. q \in Party /\ 1 \in Bin
  BY Parties
<1>2. \A b \in Bin : Drawn(s, q, b)
  BY <1>1, DrawnIs
<1>3. what \in {"psi", "psics1", "psics2"}
  BY DEF PairOf
<1> HIDE DEF what, s
<1>4. \A b \in Bin, part \in {"D", "B", "C"} : Draw(s, what \o part, q, b) \in Element
  BY <1>2, <1>3 DEF Drawn
<1>5. D \in Element /\ B \in Vector /\ C \in Vector
  BY <1>1, <1>4 DEF Vector
<1>6. VoleGenSend(s, what, q) = [D |-> D, B |-> B]
  BY DEF VoleGenSend
<1>7. VoleGenSend(s, what, q).D = D /\ VoleGenSend(s, what, q).B = B
  BY <1>6
<1>8. VoleGenRecv(s, what, q) = [C |-> C, A |-> A]
  BY <1>7 DEF VoleGenRecv
<1>9. VoleGenRecv(s, what, q).C = C /\ VoleGenRecv(s, what, q).A = A
  BY <1>8
<1> HIDE DEF B, C, D
<1>10. A \in Vector /\ \A b \in Bin : A[b] = Plus(B[b], Times(C[b], D))
  BY <1>5, PlusLaws, TimesLaws DEF Vector
<1> HIDE DEF A
<1>11. SendOf(c, kind, q) = VoleGenSend(s, what, q) /\ RecvOf(c, kind, q) = VoleGenRecv(s, what, q)
  BY DEF SendOf, RecvOf, what, s
<1> QED BY <1>5, <1>7, <1>9, <1>10, <1>11

Keys(S) == UNION {InsertItems(S)[b] : b \in Bin}

\* The keys of a simple table: every id under its three hashes.
LEMMA KeysAre ==
  ASSUME NEW S, S \subseteq DOMAIN HashTo
  PROVE Keys(S) = [id : S, hash : 1..3] /\ \A k \in Keys(S) : BinOf(k) \in Bin /\ k.id \in Element \ {{}} /\ k.hash \in 1..3
<1>1. \A id \in S : id \in Element \ {{}} /\ HashTo[id] \in [1..3 -> Bin]
  BY SetAssumption DEF Bin
<1>2. ASSUME NEW k \in [id : S, hash : 1..3] PROVE BinOf(k) \in Bin /\ k.id \in Element \ {{}} /\ k.hash \in 1..3
  <2>1. k.id \in S /\ k.hash \in 1..3
    OBVIOUS
  <2> QED BY <1>1, <2>1 DEF BinOf
<1>3. \A b \in Bin : InsertItems(S)[b] = {k \in [id : S, hash : 1..3] : BinOf(k) = b}
  BY DEF InsertItems, KeysIn, BinOf
<1>4. \A k \in [id : S, hash : 1..3] : k \in Keys(S)
  BY <1>2, <1>3 DEF Keys
<1>5. \A k \in Keys(S) : k \in [id : S, hash : 1..3]
  BY <1>3 DEF Keys
<1>6. Keys(S) = [id : S, hash : 1..3]
  BY <1>4, <1>5
<1> QED BY <1>2, <1>6

\* A bin of the cuckoo table is empty or has a key of the bin.
LEMMA TableIs ==
  ASSUME NEW c, Typed(c), NEW b \in Bin
  PROVE /\ Block(c.table[b]) \in Element
        /\ \A q \in Party : c.table[b].id \in c.set[q] => c.table[b] \in Keys(c.set[q]) /\ BinOf(c.table[b]) = b
        /\ \A q \in Party : c.table[b].id \notin c.set[q] => c.table[b] \notin Keys(c.set[q])
<1> DEFINE k == c.table[b]
<1>1. \A q \in Party : c.set[q] \subseteq DOMAIN HashTo
  BY DEF Typed
<1>2. \A q \in Party : Keys(c.set[q]) = [id : c.set[q], hash : 1..3] /\ \A j \in Keys(c.set[q]) : j.id \in Element \ {{}} /\ j.hash \in 1..3
  BY <1>1, KeysAre
<1>3. k = Empty \/ k \in KeysIn(c.set[0], b)
  BY DEF Typed, Cuckoos
<1>4. KeysIn(c.set[0], b) = {j \in [id : c.set[0], hash : 1..3] : BinOf(j) = b}
  BY DEF KeysIn, BinOf
<1> HIDE DEF k
<1>5. \A id \in DOMAIN HashTo : id # {}
  BY SetAssumption
<1>6. 0 \in Party
  BY Parties
<1>7. k.id \in Element /\ k.hash \in 1..3
  <2>1. CASE k = Empty
    <3>1. {} \in Element
      BY NumberOfNothing
    <3> QED BY <2>1, <3>1 DEF Empty
  <2>2. CASE k \in KeysIn(c.set[0], b)
    BY <1>2, <1>4, <1>6, <2>2
  <2> QED BY <1>3, <2>1, <2>2
<1>8. Block(k) \in Element
  <2>1. Word(k.hash - 1) \in Element
    BY <1>7, NumberOfWord
  <2> QED BY <1>7, <2>1, PlusLaws DEF Block
<1>9. ASSUME NEW q \in Party, k.id \in c.set[q] PROVE k \in Keys(c.set[q]) /\ BinOf(k) = b
  <2>1. k # Empty
    BY <1>1, <1>5, <1>9 DEF Empty
  <2>2. k \in [id : c.set[0], hash : 1..3] /\ BinOf(k) = b
    BY <1>3, <1>4, <2>1
  <2>3. k \in [id : c.set[q], hash : 1..3]
    BY <1>9, <2>2
  <2> QED BY <1>2, <2>2, <2>3
<1>10. ASSUME NEW q \in Party, k \in Keys(c.set[q]) PROVE k.id \in c.set[q]
  <2>1. k \in [id : c.set[q], hash : 1..3]
    BY <1>2, <1>10
  <2> QED BY <2>1
<1> QED BY <1>8, <1>9, <1>10 DEF k

\* What a sender encodes for a key.
Worth(c, kind, q, key) ==
  IF kind = "PSICS2" THEN Add("add", Word(c.value[q][key.id]), Minus("add", LabelOf(c, kind, q)[BinOf(key)]))
  ELSE LabelOf(c, kind, q)[BinOf(key)]

\* A sender's function.
LEMMA OkvsIs ==
  ASSUME NEW c, Typed(c), NEW kind \in AllKinds, NEW q \in Sender
  PROVE /\ DOMAIN OkvsOf(c, kind, q) = Keys(c.set[q])
        /\ \A k \in Keys(c.set[q]) :
             OkvsOf(c, kind, q)[k] = Plus(Worth(c, kind, q, k), Pad(k, BinOf(k), SendOf(c, kind, q), DiffOf(c, kind, q)))
<1>1. CASE kind = "PSICS2"
  BY <1>1 DEF OkvsOf, OkvsOfValues, Keys, Worth
<1>2. CASE kind # "PSICS2"
  BY <1>2 DEF OkvsOf, OkvsOfLabels, Keys, Worth
<1> QED BY <1>1, <1>2

\* What is encoded is a word.
LEMMA WorthTyped ==
  ASSUME NEW c, Typed(c), NEW kind \in AllKinds, NEW q \in Sender, NEW k \in Keys(c.set[q])
  PROVE Worth(c, kind, q, k) \in Element
<1>1. c.set[q] \subseteq DOMAIN HashTo /\ c.value[q] \in [DOMAIN HashTo -> Nat]
  BY Parties DEF Typed
<1>2. BinOf(k) \in Bin /\ Keys(c.set[q]) = [id : c.set[q], hash : 1..3]
  BY <1>1, KeysAre
<1>3. k.id \in DOMAIN HashTo
  BY <1>1, <1>2
<1>4. c.value[q][k.id] \in Int
  BY <1>1, <1>3
<1>5. Word(c.value[q][k.id]) \in Element
  BY <1>4, NumberOfWord
<1>6. LabelOf(c, kind, q)[BinOf(k)] \in Element
  BY <1>2, LabelsTyped DEF Vector
<1>7. "add" \in Rings
  BY DEF Rings
<1> QED BY <1>5, <1>6, <1>7, GroupLaws DEF Worth

\* The pads of both ends are one where the key is party 0's: a bin of an id the sender
\* has shows what is encoded for it, and every bin some word.
LEMMA FoundIs ==
  ASSUME NEW c, Typed(c), NEW kind \in AllKinds, NEW q \in Sender
  PROVE /\ FoundIn(c, kind, q) \in Vector
        /\ \A b \in Bin : c.table[b].id \in c.set[q] => FoundIn(c, kind, q)[b] = Worth(c, kind, q, c.table[b]) /\ BinOf(c.table[b]) = b
<1> DEFINE send == SendOf(c, kind, q)
           recv == RecvOf(c, kind, q)
           diff == DiffOf(c, kind, q)
           okvs == OkvsOf(c, kind, q)
           junk == JunkOf(c, kind, q)
           seen == FoundIn(c, kind, q)
           keys == Keys(c.set[q])
           table == c.table
<1>1. q \in Party
  BY Parties
<1>2. /\ send.D \in Element /\ send.B \in Vector /\ recv.C \in Vector /\ recv.A \in Vector
      /\ \A b \in Bin : recv.A[b] = Plus(send.B[b], Times(recv.C[b], send.D))
  BY VoleTyped
<1>3. junk \in Vector
  BY LabelsTyped
<1>4. \A b \in Bin : diff[b] = Plus(Block(table[b]), recv.C[b])
  BY DEF DiffOf, DiffC
<1>5. /\ DOMAIN okvs = keys
      /\ \A k \in keys : okvs[k] = Plus(Worth(c, kind, q, k), Pad(k, BinOf(k), send, diff))
  BY OkvsIs
<1>6. seen = [b \in Bin |-> Plus(IF table[b] \in keys THEN okvs[table[b]] ELSE junk[b], Hash(recv.A[b]))]
  BY <1>5 DEF FoundIn, Learned
<1>7. ASSUME NEW b \in Bin, table[b].id \in c.set[q]
      PROVE /\ Plus(IF table[b] \in keys THEN okvs[table[b]] ELSE junk[b], Hash(recv.A[b])) = Worth(c, kind, q, table[b])
            /\ BinOf(table[b]) = b /\ Worth(c, kind, q, table[b]) \in Element
  <2> DEFINE k == table[b]
             w == Worth(c, kind, q, k)
             h == Hash(recv.A[b])
  <2>1. k \in keys /\ BinOf(k) = b /\ Block(k) \in Element
    BY <1>1, <1>7, TableIs
  <2>2. w \in Element
    BY <2>1, WorthTyped
  <2>3. diff[b] = Plus(Block(k), recv.C[b]) /\ recv.C[b] \in Element
    BY <1>2, <1>4 DEF Vector
  <2>4. Plus(Block(k), diff[b]) = recv.C[b]
    BY <2>1, <2>3, PlusLaws
  <2>5. Pad(k, b, send, diff) = Hash(Plus(send.B[b], Times(Plus(Block(k), diff[b]), send.D)))
    BY DEF Pad
  <2>6. Pad(k, b, send, diff) = h
    BY <1>2, <2>4, <2>5
  <2>7. h \in Element
    BY <1>2, PlusLaws DEF Vector
  <2>8. okvs[k] = Plus(w, h)
    BY <1>5, <2>1, <2>6
  <2> HIDE DEF k, w, h
  <2>9. Plus(okvs[k], h) = w
    BY <2>2, <2>7, <2>8, PlusTwice
  <2> QED BY <2>1, <2>2, <2>9 DEF k, w, h
<1>8. ASSUME NEW b \in Bin PROVE Plus(IF table[b] \in keys THEN okvs[table[b]] ELSE junk[b], Hash(recv.A[b])) \in Element
  <2>1. CASE table[b].id \in c.set[q]
    BY <1>7, <2>1
  <2>2. CASE table[b].id \notin c.set[q]
    <3>1. table[b] \notin keys
      BY <1>1, <2>2, TableIs
    <3>2. junk[b] \in Element /\ Hash(recv.A[b]) \in Element
      BY <1>2, <1>3, PlusLaws DEF Vector
    <3> QED BY <3>1, <3>2, PlusLaws
  <2> QED BY <2>1, <2>2
<1> HIDE DEF send, recv, okvs, junk, keys, seen, diff
<1>9. seen \in Vector
  BY <1>6, <1>8 DEF Vector
<1>10. \A b \in Bin : table[b].id \in c.set[q] => seen[b] = Worth(c, kind, q, table[b]) /\ BinOf(table[b]) = b
  BY <1>6, <1>7
<1> QED BY <1>9, <1>10 DEF seen

-----------------------------------------------------------------------------
(* What the parties have shares of. *)

\* A sum of vectors, bin by bin.
LEMMA AddAt ==
  ASSUME NEW ring \in Rings, NEW x \in Vector, NEW y \in Vector, NEW b \in Bin
  PROVE AddAll(ring, x, y)[b] = Add(ring, x[b], y[b])
BY VectorLaws

\* It is the same in either order.
LEMMA AddSwaps ==
  ASSUME NEW ring \in Rings, NEW x \in Vector, NEW y \in Vector
  PROVE AddAll(ring, x, y) = AddAll(ring, y, x) /\ AddAll(ring, x, y) \in Vector
BY VectorLaws

Pairs(c, kind) == [q \in Sender |-> AddAll(RingOf(kind), FoundIn(c, kind, q), LabelOf(c, kind, q))]
XOf(c, kind) == TotalOf(RingOf(kind), DataOf(c, kind), Party)

\* The shares before the multiplication are vectors.
LEMMA DataTyped ==
  ASSUME NEW c, Typed(c), NEW kind \in AllKinds
  PROVE /\ DataOf(c, kind) \in [Party -> Vector] /\ AllFound(c, kind) \in [Sender -> Vector]
        /\ DataOf(c, kind)[0] = TotalOf(RingOf(kind), AllFound(c, kind), Sender)
        /\ \A q \in Sender : DataOf(c, kind)[q] = LabelOf(c, kind, q)
<1> DEFINE first == TotalOf(RingOf(kind), AllFound(c, kind), Sender)
<1>1. RingOf(kind) \in Rings
  BY DEF RingOf, Rings
<1>2. AllFound(c, kind) \in [Sender -> Vector]
  BY FoundIs DEF AllFound
<1>3. first \in Vector
  BY <1>1, <1>2, Parties, TotalLaws
<1>4. \A q \in Sender : LabelOf(c, kind, q) \in Vector
  BY LabelsTyped
<1>5. DataOf(c, kind) = [p \in Party |-> IF p = 0 THEN first ELSE LabelOf(c, kind, p)]
  BY DEF DataOf
<1>6. \A p \in Party : p # 0 => p \in Sender
  BY Parties
<1>7. 0 \in Party /\ \A q \in Sender : q \in Party /\ q # 0
  BY Parties
<1> HIDE DEF first
<1>8. DataOf(c, kind) \in [Party -> Vector]
  BY <1>3, <1>4, <1>5, <1>6
<1>9. DataOf(c, kind)[0] = first
  BY <1>5, <1>7
<1>10. \A q \in Sender : DataOf(c, kind)[q] = LabelOf(c, kind, q)
  BY <1>5, <1>7
<1> QED BY <1>2, <1>8, <1>9, <1>10 DEF first

\* Together they are what party 0 finds at every sender and the sender's label.
LEMMA XIs ==
  ASSUME NEW c, Typed(c), NEW kind \in AllKinds
  PROVE /\ XOf(c, kind) = TotalOf(RingOf(kind), Pairs(c, kind), Sender) /\ XOf(c, kind) \in Vector
        /\ Pairs(c, kind) \in [Sender -> Vector]
        /\ \A q \in Sender, b \in Bin : Pairs(c, kind)[q][b] = Add(RingOf(kind), FoundIn(c, kind, q)[b], LabelOf(c, kind, q)[b])
<1> DEFINE ring == RingOf(kind)
           data == DataOf(c, kind)
           all == AllFound(c, kind)
           label == [q \in Sender |-> LabelOf(c, kind, q)]
           pairs == Pairs(c, kind)
<1>1. ring \in Rings
  BY DEF RingOf, Rings
<1>2. data \in [Party -> Vector] /\ all \in [Sender -> Vector] /\ data[0] = TotalOf(ring, all, Sender) /\ \A q \in Sender : data[q] = LabelOf(c, kind, q)
  BY DataTyped
<1>3. label \in [Sender -> Vector]
  BY LabelsTyped
<1>4. pairs = Both(ring, all, label)
  BY DEF Pairs, Both, AllFound
<1>5. \A q \in Sender : label[q] = data[q]
  BY <1>2
<1>6. \A q \in Sender : all[q] = FoundIn(c, kind, q) /\ label[q] = LabelOf(c, kind, q)
  BY DEF AllFound
<1> HIDE DEF ring, data, all, label, pairs
<1>7. IsFiniteSet(Party) /\ IsFiniteSet(Sender) /\ 0 \in Party /\ Sender = Party \ {0} /\ Sender \in SUBSET Party /\ Sender \in SUBSET Sender
  BY Parties
<1>8. /\ TotalOf(ring, pairs, Sender) = AddAll(ring, TotalOf(ring, all, Sender), TotalOf(ring, label, Sender))
      /\ pairs \in [Sender -> Vector] /\ \A q \in Sender : pairs[q] = AddAll(ring, all[q], label[q])
  BY <1>1, <1>2, <1>3, <1>4, <1>7, TotalAdds
<1>9. TotalOf(ring, label, Sender) = TotalOf(ring, data, Sender)
  <2>1. Alike(label, data, Sender)
    BY <1>5 DEF Alike
  <2> QED BY <1>1, <1>2, <1>3, <1>7, <2>1, TotalAgree
<1>10. TotalOf(ring, data, Party) = AddAll(ring, TotalOf(ring, data, Sender), data[0])
  BY <1>1, <1>2, <1>7, TotalWithout
<1>11. TotalOf(ring, data, Sender) \in Vector /\ data[0] \in Vector /\ TotalOf(ring, data, Party) \in Vector
  BY <1>1, <1>2, <1>7, TotalLaws
<1>12. AddAll(ring, TotalOf(ring, data, Sender), data[0]) = AddAll(ring, data[0], TotalOf(ring, data, Sender))
  BY <1>1, <1>11, AddSwaps
<1>13. TotalOf(ring, data, Party) = TotalOf(ring, pairs, Sender)
  BY <1>2, <1>8, <1>9, <1>10, <1>12
<1>14. \A q \in Sender, b \in Bin : pairs[q][b] = Add(ring, all[q][b], label[q][b])
  BY <1>1, <1>2, <1>3, <1>8, AddAt
<1>15. XOf(c, kind) = TotalOf(ring, data, Party)
  BY DEF XOf, ring, data
<1> QED BY <1>6, <1>8, <1>11, <1>13, <1>14, <1>15 DEF ring, pairs

FactorOf(c) == TotalOf("xor", TripleOf(c).b, Party)

\* The shares after it, and what they are shares of.
LEMMA ProdTyped ==
  ASSUME NEW c, Typed(c), NEW kind \in {"PSI", "PSICS1"}
  PROVE /\ ProdOf(c, kind) \in [Party -> Vector] /\ MaskOf(c, kind) \in Vector /\ FactorOf(c) \in Vector
        /\ TotalOf("xor", ProdOf(c, kind), Party) = Scaled(XOf(c, kind), FactorOf(c))
        /\ \A p \in Party : ProdOf(c, kind)[p] = Product(TripleOf(c), p, MaskOf(c, kind))
<1> DEFINE t == TripleOf(c)
           data == DataOf(c, kind)
           m == MaskedTotal(t, data)
<1>1. Fitting(t)
  BY TripleFits
<1>2. kind \in AllKinds /\ RingOf(kind) = "xor"
  BY DEF AllKinds, RingOf
<1>3. data \in [Party -> Vector]
  BY <1>2, DataTyped
<1> HIDE DEF t, data
<1>4. m \in Vector
  BY <1>1, <1>3, MaskedTotalIs
<1>5. /\ TotalOf("xor", Products(t, m), Party) = Scaled(TotalOf("xor", data, Party), TotalOf("xor", t.b, Party))
      /\ Products(t, m) \in [Party -> Vector] /\ TotalOf("xor", t.b, Party) \in Vector
  BY <1>1, <1>3, ProductTotal
<1>6. MaskOf(c, kind) = m
  BY DEF MaskOf, t, data
<1>7. ProdOf(c, kind) = Products(t, m) /\ \A p \in Party : ProdOf(c, kind)[p] = Product(t, p, m)
  BY <1>6 DEF ProdOf, Products, t
<1>8. TotalOf("xor", data, Party) = XOf(c, kind) /\ TotalOf("xor", t.b, Party) = FactorOf(c)
  BY <1>2 DEF XOf, FactorOf, t, data
<1> QED BY <1>4, <1>5, <1>6, <1>7, <1>8 DEF t

\* What is shuffled.
LEMMA InTyped ==
  ASSUME NEW c, Typed(c), NEW kind \in AllKinds
  PROVE /\ InOf(c, kind) \in [Party -> Vector] /\ JointOf(c, kind) \in Vector
        /\ JointOf(c, kind) = IF kind = "PSICS2" THEN XOf(c, kind) ELSE Scaled(XOf(c, kind), FactorOf(c))
<1>1. RingOf(kind) \in Rings
  BY DEF RingOf, Rings
<1>2. CASE kind = "PSICS2"
  <2>1. InOf(c, kind) = DataOf(c, kind) /\ JointOf(c, kind) = XOf(c, kind)
    BY <1>2 DEF InOf, JointOf, XOf
  <2> QED BY <1>2, <2>1, DataTyped, XIs
<1>3. CASE kind # "PSICS2"
  <2>1. kind \in {"PSI", "PSICS1"} /\ RingOf(kind) = "xor"
    BY <1>3 DEF AllKinds, RingOf
  <2>2. InOf(c, kind) = ProdOf(c, kind) /\ JointOf(c, kind) = TotalOf("xor", ProdOf(c, kind), Party)
    BY <1>3, <2>1 DEF InOf, JointOf
  <2>3. InOf(c, kind) \in [Party -> Vector] /\ JointOf(c, kind) = Scaled(XOf(c, kind), FactorOf(c))
    BY <2>1, <2>2, ProdTyped
  <2>4. JointOf(c, kind) \in Vector
    BY <1>1, <2>1, <2>2, <2>3, Parties, TotalLaws
  <2> QED BY <1>3, <2>3, <2>4
<1> QED BY <1>2, <1>3

LastTurn(c, kind) == Turn(CorrOf(c, kind).pi)[N - 1]

\* What they have shares of after the shuffle.
LEMMA OutTyped ==
  ASSUME NEW c, Typed(c), NEW kind \in AllKinds
  PROVE /\ OutOf(c, kind) \in [Party -> Vector] /\ LastTurn(c, kind) \in Turning
        /\ TotalOf(RingOf(kind), OutOf(c, kind), Party) = PermutedRows(JointOf(c, kind), LastTurn(c, kind))
        /\ LastTurn(c, "PSICS2") = LastTurn(c, "PSICS1")
<1>1. Fit(RingOf(kind), CorrOf(c, kind)) /\ RingOf(kind) \in Rings /\ CorrOf(c, "PSICS2").pi = CorrOf(c, "PSICS1").pi
  BY CorrFits
<1>2. JointOf(c, kind) \in Vector
  BY InTyped
<1> DEFINE ring == RingOf(kind)
           sc == CorrOf(c, kind)
           J == JointOf(c, kind)
<1>3. Fit(ring, sc) /\ ring \in Rings /\ J \in Vector
  BY <1>1, <1>2
<1>4. OutOf(c, kind) = LeftOver(ring, sc, J) /\ LastTurn(c, kind) = Turn(sc.pi)[N - 1]
  BY DEF OutOf, LastTurn
<1> HIDE DEF ring, sc, J
<1>5. LeftOver(ring, sc, J) \in [Party -> Vector]
  BY <1>3, LeftTyped
<1>6. TotalOf(ring, LeftOver(ring, sc, J), Party) = PermutedRows(J, Turn(sc.pi)[N - 1])
  BY <1>3, LeftTotal
<1>7. N - 1 \in Party /\ \A p \in Party : sc.pi[p] \in Turning
  BY <1>3, Parties DEF Fit
<1>8. Turn(sc.pi)[N - 1] \in Turning
  BY <1>7, TurnIs
<1> QED BY <1>1, <1>4, <1>5, <1>6, <1>8 DEF ring, J, LastTurn

\* Vectors that are zero in a bin total zero there.
LEMMA TotalZeroAt ==
  ASSUME NEW ring \in Rings, NEW S, IsFiniteSet(S), NEW x \in [S -> Vector], NEW b \in Bin, \A p \in S : x[p][b] = {}
  PROVE TotalOf(ring, x, S)[b] = {}
<1> DEFINE T == {t \in SUBSET S : TotalOf(ring, x, t)[b] = {}}
<1>1. {} \in T
  <2>1. TotalOf(ring, x, {}) = Zeros
    BY TotalLaws
  <2>2. Zeros[b] = {}
    BY DEF Zeros
  <2> QED BY <2>1, <2>2
<1>2. ASSUME NEW t \in SUBSET S, NEW p \in S, t \in T PROVE t \cup {p} \in T
  <2>1. CASE p \in t
    <3>1. t \cup {p} = t
      BY <2>1
    <3> QED BY <1>2, <3>1
  <2>2. CASE p \notin t
    <3> DEFINE a == TotalOf(ring, x, t)
               u == x[p]
    <3>1. a \in Vector /\ TotalOf(ring, x, t \cup {p}) = AddAll(ring, a, u)
      BY <2>2, TotalLaws
    <3>2. a[b] = {} /\ u[b] = {} /\ u \in Vector
      BY <1>2
    <3> HIDE DEF a, u
    <3>3. AddAll(ring, a, u)[b] = Add(ring, a[b], u[b])
      BY <3>1, <3>2, AddAt
    <3>4. Add(ring, {}, {}) = {}
      BY GroupLaws
    <3>5. TotalOf(ring, x, t \cup {p})[b] = {}
      BY <3>1, <3>2, <3>3, <3>4
    <3> QED BY <3>5
  <2> QED BY <2>1, <2>2
<1>3. S \in T
  <2> HIDE DEF T
  <2> QED BY <1>1, <1>2, Grow
<1> QED BY <1>3

CommonBins(c) == {b \in Bin : \A q \in Sender : c.table[b].id \in c.set[q]}

\* The indicator of a bin is 0 where the id of the bin is common, and, without an
\* accident, only there.
LEMMA ZeroIsCommon ==
  ASSUME NEW c, Typed(c), NoAccident(c), NEW kind \in {"PSI", "PSICS1"}, NEW b \in Bin
  PROVE JointOf(c, kind)[b] = {} <=> b \in CommonBins(c)
<1>1. kind \in AllKinds /\ RingOf(kind) = "xor" /\ kind # "PSICS2" /\ "xor" \in Rings
  BY DEF AllKinds, RingOf, Rings
<1>2. JointOf(c, kind)[b] = {} => b \in CommonBins(c)
  <2>1. \A k \in {"PSI", "PSICS1"} : \A i \in Bin : JointOf(c, k)[i] = {} => \A q \in Sender : c.table[i].id \in c.set[q]
    BY DEF NoAccident
  <2> QED BY <2>1 DEF CommonBins
<1>3. ASSUME b \in CommonBins(c) PROVE JointOf(c, kind)[b] = {}
  <2> DEFINE x == Pairs(c, kind)
  <2>1. XOf(c, kind) = TotalOf("xor", x, Sender) /\ x \in [Sender -> Vector]
    BY <1>1, XIs
  <2>2. ASSUME NEW q \in Sender PROVE x[q][b] = {}
    <3>1. FoundIn(c, kind, q)[b] = Worth(c, kind, q, c.table[b]) /\ BinOf(c.table[b]) = b
      BY <1>1, <1>3, FoundIs DEF CommonBins
    <3>2. FoundIn(c, kind, q)[b] = LabelOf(c, kind, q)[b]
      BY <1>1, <3>1 DEF Worth
    <3>3. LabelOf(c, kind, q)[b] \in Element
      BY <1>1, LabelsTyped DEF Vector
    <3>4. x[q][b] = Add("xor", FoundIn(c, kind, q)[b], LabelOf(c, kind, q)[b])
      BY <1>1, XIs
    <3> HIDE DEF x
    <3>5. x[q][b] = Plus(LabelOf(c, kind, q)[b], LabelOf(c, kind, q)[b])
      BY <3>2, <3>4 DEF Add
    <3> QED BY <3>3, <3>5, XorWords
  <2> HIDE DEF x
  <2>3. IsFiniteSet(Sender)
    BY Parties
  <2>4. TotalOf("xor", x, Sender)[b] = {}
    BY <1>1, <2>1, <2>2, <2>3, TotalZeroAt
  <2>5. JointOf(c, kind) = Scaled(XOf(c, kind), FactorOf(c)) /\ FactorOf(c) \in Vector
    BY <1>1, InTyped, ProdTyped
  <2>6. FactorOf(c)[b] \in Element
    BY <2>5 DEF Vector
  <2>7. JointOf(c, kind)[b] = Times(XOf(c, kind)[b], FactorOf(c)[b])
    BY <2>5 DEF Scaled
  <2> QED BY <2>1, <2>4, <2>6, <2>7, TimesLaws
<1> QED BY <1>2, <1>3

\* The bins party 0 finds to be 0 are those the common ids have been turned to.
LEMMA HitsAre ==
  ASSUME NEW c, Typed(c), NoAccident(c), NEW kind \in {"PSI", "PSICS1"}
  PROVE /\ HitsOf(c, kind) = {b \in Bin : LastTurn(c, kind)[b] \in CommonBins(c)}
        /\ LastTurn(c, kind) \in Turning
<1>1. kind \in AllKinds /\ RingOf(kind) = "xor" /\ "xor" \in Rings
  BY DEF AllKinds, RingOf, Rings
<1> DEFINE turn == LastTurn(c, kind)
           J == JointOf(c, kind)
<1>2. turn \in Turning /\ TotalOf("xor", OutOf(c, kind), Party) = PermutedRows(J, turn)
  BY <1>1, OutTyped
<1>3. J \in Vector
  BY <1>1, InTyped
<1>4. \A b \in Bin : J[b] = {} <=> b \in CommonBins(c)
  BY ZeroIsCommon
<1> HIDE DEF turn, J
<1>5. \A b \in Bin : PermutedRows(J, turn)[b] = J[turn[b]] /\ turn[b] \in Bin
  BY <1>1, <1>2, <1>3, MovedAdds
<1>6. HitsOf(c, kind) = {b \in Bin : turn[b] \in CommonBins(c)}
  BY <1>2, <1>4, <1>5 DEF HitsOf
<1> QED BY <1>2, <1>6 DEF turn

-----------------------------------------------------------------------------
(* Counting the common ids by their bins. *)

CommonIds(c) == {id \in c.set[0] : \A q \in Sender : id \in c.set[q]}
IdAt(c, kind) == [b \in HitsOf(c, kind) |-> c.table[LastTurn(c, kind)[b]].id]

\* An id of party 0 is in one bin of its table, and what is in a bin otherwise is in no set.
LEMMA PlacedOnce ==
  ASSUME NEW c, Typed(c)
  PROVE /\ \A id \in c.set[0] : \E b \in Bin : c.table[b].id = id /\ \A d \in Bin \ {b} : c.table[d].id # id
        /\ \A b \in CommonBins(c) : b \in Bin /\ c.table[b].id \in CommonIds(c)
<1>1. c.table \in Cuckoos(c.set[0])
  BY DEF Typed
<1>2. \A id \in c.set[0] : \E b \in Bin : c.table[b].id = id /\ \A d \in Bin \ {b} : c.table[d].id # id
  BY <1>1 DEF Cuckoos
<1>3. ASSUME NEW b \in CommonBins(c) PROVE c.table[b].id \in CommonIds(c)
  <2>1. b \in Bin /\ \A q \in Sender : c.table[b].id \in c.set[q]
    BY <1>3 DEF CommonBins
  <2>2. N - 1 \in Sender /\ N - 1 \in Party
    BY Parties
  <2>3. c.set[N - 1] \subseteq DOMAIN HashTo
    BY <2>2 DEF Typed
  <2>4. c.table[b].id # {}
    BY <2>1, <2>2, <2>3, SetAssumption
  <2>5. c.table[b] # Empty
    BY <2>4 DEF Empty
  <2>6. c.table[b] \in KeysIn(c.set[0], b)
    BY <1>1, <2>1, <2>5 DEF Cuckoos
  <2>7. c.table[b] \in [id : c.set[0], hash : 1..3]
    BY <2>6 DEF KeysIn
  <2>8. c.table[b].id \in c.set[0]
    BY <2>7
  <2> QED BY <2>1, <2>8 DEF CommonIds
<1> QED BY <1>2, <1>3 DEF CommonBins

\* Without an accident, every bin that is found stands for one common id, and every
\* common id for one.
LEMMA HitsStandFor ==
  ASSUME NEW c, Typed(c), NoAccident(c), NEW kind \in {"PSI", "PSICS1"}
  PROVE /\ IdAt(c, kind) \in [HitsOf(c, kind) -> CommonIds(c)] /\ Inject(IdAt(c, kind), HitsOf(c, kind))
        /\ {IdAt(c, kind)[b] : b \in HitsOf(c, kind)} = CommonIds(c)
        /\ IsFiniteSet(HitsOf(c, kind)) /\ HitsOf(c, kind) \subseteq Bin
<1> DEFINE hits == HitsOf(c, kind)
           turn == LastTurn(c, kind)
           at == IdAt(c, kind)
           T == c.table
<1>1. hits = {b \in Bin : turn[b] \in CommonBins(c)} /\ turn \in Turning
  BY HitsAre
<1>2. /\ turn \in [Bin -> Bin] /\ \A x, y \in Bin : turn[x] = turn[y] => x = y
      /\ \A y \in Bin : \E x \in Bin : turn[x] = y
  BY <1>1, OrderIs DEF Turning, Bin
<1>3. at = [b \in hits |-> T[turn[b]].id]
  BY DEF IdAt
<1>4. /\ \A id \in c.set[0] : \E b \in Bin : T[b].id = id /\ \A d \in Bin \ {b} : T[d].id # id
      /\ \A b \in CommonBins(c) : b \in Bin /\ T[b].id \in CommonIds(c)
  BY PlacedOnce
<1> HIDE DEF hits, turn, at, T
<1>5. \A b \in hits : b \in Bin /\ turn[b] \in CommonBins(c) /\ at[b] = T[turn[b]].id
  BY <1>1, <1>3
<1>6. at \in [hits -> CommonIds(c)]
  BY <1>3, <1>4, <1>5
<1>7. ASSUME NEW x \in hits, NEW y \in hits, at[x] = at[y] PROVE x = y
  <2>1. T[turn[x]].id = T[turn[y]].id /\ T[turn[x]].id \in c.set[0] /\ turn[x] \in Bin /\ turn[y] \in Bin
    BY <1>2, <1>4, <1>5, <1>7 DEF CommonIds
  <2>2. turn[x] = turn[y]
    BY <1>4, <2>1
  <2> QED BY <1>2, <1>5, <2>2
<1>8. ASSUME NEW id \in CommonIds(c) PROVE \E b \in hits : at[b] = id
  <2>1. id \in c.set[0] /\ \A q \in Sender : id \in c.set[q]
    BY DEF CommonIds
  <2>2. PICK d \in Bin : T[d].id = id
    BY <1>4, <2>1
  <2>3. d \in CommonBins(c)
    BY <2>1, <2>2 DEF CommonBins, T
  <2>4. PICK b \in Bin : turn[b] = d
    BY <1>2
  <2>5. b \in hits
    BY <1>1, <2>3, <2>4
  <2> QED BY <1>5, <2>2, <2>4, <2>5
<1>9. {at[b] : b \in hits} = CommonIds(c)
  BY <1>6, <1>8
<1>10. hits \subseteq Bin /\ IsFiniteSet(hits)
  <2>1. hits \subseteq Bin
    BY <1>5
  <2> QED BY <2>1, Parties, FS_Subset
<1>11. Inject(at, hits)
  BY <1>7 DEF Inject
<1> QED BY <1>6, <1>9, <1>10, <1>11 DEF at, hits

\* The count is right.
THEOREM CountIs ==
  ASSUME NEW c, Typed(c), NoAccident(c), NEW kind \in {"PSI", "PSICS1"}
  PROVE Cardinality(HitsOf(c, kind)) = Cardinality(CommonIds(c)) /\ IsFiniteSet(CommonIds(c))
<1> DEFINE hits == HitsOf(c, kind)
           at == IdAt(c, kind)
           ids == CommonIds(c)
<1>1. at \in [hits -> ids] /\ Inject(at, hits) /\ {at[b] : b \in hits} = ids /\ IsFiniteSet(hits)
  BY HitsStandFor
<1> HIDE DEF hits, at, ids
<1>2. at \in Surjection(hits, ids)
  BY <1>1 DEF Surjection
<1>3. at \in Injection(hits, ids)
  BY <1>1 DEF Injection, IsInjective, Inject
<1>4. IsFiniteSet(ids) /\ Cardinality(ids) = Cardinality(hits)
  BY <1>1, <1>2, <1>3, FS_Surjection
<1> QED BY <1>4 DEF hits, ids
-----------------------------------------------------------------------------
(* Sums of numbers, of which the code keeps the rest. *)

\* Sums of numbers with the same rests have the same rest.
LEMMA RestsAlike ==
  ASSUME NEW m \in Int, m > 0, NEW S, IsFiniteSet(S), NEW f \in [S -> Int], NEW g \in [S -> Int],
         \A x \in S : f[x] % m = g[x] % m
  PROVE SumOver(f, S) % m = SumOver(g, S) % m
<1> DEFINE T == {t \in SUBSET S : SumOver(f, t) % m = SumOver(g, t) % m}
<1>1. {} \in T
  <2>1. SumOver(f, {}) = 0 /\ SumOver(g, {}) = 0
    BY SumLaws
  <2> QED BY <2>1
<1>2. ASSUME NEW t \in SUBSET S, NEW x \in S, t \in T PROVE t \cup {x} \in T
  <2>1. CASE x \in t
    <3>1. t \cup {x} = t
      BY <2>1
    <3> QED BY <1>2, <3>1
  <2>2. CASE x \notin t
    <3> DEFINE a == SumOver(f, t)
               b == SumOver(g, t)
               u == f[x]
               v == g[x]
    <3>1. a \in Int /\ SumOver(f, t \cup {x}) = a + u
      BY <2>2, SumLaws
    <3>2. b \in Int /\ SumOver(g, t \cup {x}) = b + v
      BY <2>2, SumLaws
    <3>3. a % m = b % m /\ u % m = v % m /\ u \in Int /\ v \in Int
      BY <1>2
    <3> HIDE DEF a, b, u, v
    <3>4. (a + u) % m = ((a % m) + u) % m /\ a % m \in Int
      BY <3>1, <3>3, RestOfSum
    <3>5. (b + v) % m = ((b % m) + v) % m /\ b % m \in Int
      BY <3>2, <3>3, RestOfSum
    <3> DEFINE r == a % m
    <3>6. r \in Int /\ (a + u) % m = (r + u) % m /\ (b + v) % m = (r + v) % m
      BY <3>3, <3>4, <3>5
    <3> HIDE DEF r
    <3>7. (r + u) % m = (r + (u % m)) % m
      BY <3>3, <3>6, RestOfSum
    <3>8. (r + v) % m = (r + (v % m)) % m
      BY <3>3, <3>6, RestOfSum
    <3>9. (a + u) % m = (b + v) % m
      BY <3>3, <3>6, <3>7, <3>8
    <3> QED BY <3>1, <3>2, <3>9
  <2> QED BY <2>1, <2>2
<1>3. S \in T
  <2> HIDE DEF T
  <2> QED BY <1>1, <1>2, Grow
<1> QED BY <1>3

\* The number of a total is the rest of the sum of the numbers.
LEMMA NumberOfTotal ==
  ASSUME NEW S, IsFiniteSet(S), NEW x \in [S -> Vector], NEW b \in Bin
  PROVE /\ [p \in S |-> Number(x[p][b])] \in [S -> Int]
        /\ Number(TotalOf("add", x, S)[b]) = SumOver([p \in S |-> Number(x[p][b])], S) % Modulus
<1> DEFINE f == [p \in S |-> Number(x[p][b])]
           T == {t \in SUBSET S : Number(TotalOf("add", x, t)[b]) = SumOver(f, t) % Modulus}
<1>0. "add" \in Rings /\ Modulus \in Int /\ Modulus > 0
  BY WeightsType DEF Rings
<1>1. f \in [S -> Int]
  <2>1. \A p \in S : x[p][b] \in Element
    BY DEF Vector
  <2>2. \A w \in Element : Number(w) \in Int
    BY NumberInjects
  <2> QED BY <2>1, <2>2
<1>2. {} \in T
  <2>1. TotalOf("add", x, {}) = Zeros
    BY <1>0, TotalLaws
  <2>2. Zeros[b] = {}
    BY DEF Zeros
  <2>3. SumOver(f, {}) = 0
    <3> HIDE DEF f
    <3> QED BY <1>1, SumLaws
  <2>4. 0 % Modulus = 0
    <3> DEFINE m == Modulus
    <3> HIDE DEF m
    <3>1. m \in Int /\ m > 0
      BY <1>0 DEF m
    <3>2. 0 % m = 0
      BY <3>1
    <3> QED BY <3>2 DEF m
  <2> QED BY <2>1, <2>2, <2>3, <2>4, NumberOfNothing
<1>3. ASSUME NEW t \in SUBSET S, NEW p \in S, t \in T PROVE t \cup {p} \in T
  <2>1. CASE p \in t
    <3>1. t \cup {p} = t
      BY <2>1
    <3> QED BY <1>3, <3>1
  <2>2. CASE p \notin t
    <3> DEFINE a == TotalOf("add", x, t)
               u == x[p]
               s == SumOver(f, t)
               m == Modulus
    <3>1. a \in Vector /\ TotalOf("add", x, t \cup {p}) = AddAll("add", a, u)
      BY <1>0, <2>2, TotalLaws
    <3>2. u \in Vector /\ f[p] = Number(u[b]) /\ f[p] \in Int
      BY <1>1
    <3>3. s \in Int /\ SumOver(f, t \cup {p}) = s + f[p]
      <4> HIDE DEF f
      <4> QED BY <1>1, <2>2, SumLaws
    <3>4. Number(a[b]) = s % m
      BY <1>3
    <3> HIDE DEF a, u, s, f, m
    <3>5. AddAll("add", a, u)[b] = Add("add", a[b], u[b]) /\ a[b] \in Element /\ u[b] \in Element
      BY <1>0, <3>1, <3>2, AddAt DEF Vector
    <3>6. Number(Add("add", a[b], u[b])) = (Number(a[b]) + Number(u[b])) % m
      BY <3>5, AddWords DEF m
    <3>7. ((s % m) + f[p]) % m = (s + f[p]) % m
      BY <1>0, <3>2, <3>3, RestOfSum DEF m
    <3>8. Number(TotalOf("add", x, t \cup {p})[b]) = SumOver(f, t \cup {p}) % m
      BY <3>1, <3>2, <3>3, <3>4, <3>5, <3>6, <3>7
    <3> QED BY <3>8 DEF m
  <2> QED BY <2>1, <2>2
<1>4. S \in T
  <2> HIDE DEF T
  <2> QED BY <1>2, <1>3, Grow
<1> QED BY <1>1, <1>4

-----------------------------------------------------------------------------
(* The sums the program takes over bins and senders. *)

Numbers(w) == [b \in Bin |-> Number(w[b])]
ItemsNext(w, t, iter) == IF t = {} THEN 0 ELSE iter[t \ {Taken(t)}] + Number(w[Taken(t)])
ItemsRun(w, B) == CHOOSE f : f = [t \in SUBSET B |-> ItemsNext(w, t, f)]

\* What is added up over bins.
LEMMA ItemsIs ==
  ASSUME NEW w \in Vector, NEW B \in SUBSET Bin
  PROVE Numbers(w) \in [Bin -> Int] /\ Items(w, B) = SumOver(Numbers(w), B) /\ Items(w, B) \in Nat
<1>1. IsFiniteSet(B)
  BY Parties, FS_Subset
<1>2. Numbers(w) \in [Bin -> Int] /\ \A b \in B : Numbers(w)[b] = Number(w[b]) /\ Numbers(w)[b] \in Nat
  <2>1. \A b \in Bin : w[b] \in Element
    BY DEF Vector
  <2>2. \A e \in Element : Number(e) \in Int /\ Number(e) \in Nat
    BY NumberInjects, NumberIs
  <2> QED BY <2>1, <2>2 DEF Numbers
<1> DEFINE f == Numbers(w)
<1> HIDE DEF f
<1>3. PICK g : SumsUp(g, f, B)
  BY <1>1, <1>2, SumRun DEF f
<1>4. ASSUME NEW t \in SUBSET B, t # {} PROVE f[Taken(t)] = Number(w[Taken(t)])
  <2>1. Taken(t) \in B
    BY <1>4, TakenIn
  <2> QED BY <1>2, <2>1 DEF f
<1>5. g = [t \in SUBSET B |-> ItemsNext(w, t, g)]
  <2>0. g \in [SUBSET B -> Int]
    BY <1>3 DEF SumsUp
  <2>1. \A t \in SUBSET B : g[t] = ItemsNext(w, t, g)
    BY <1>3, <1>4 DEF ItemsNext, SumsUp
  <2> QED BY <2>0, <2>1
<1> DEFINE iter == ItemsRun(w, B)
<1>6. iter = [t \in SUBSET B |-> ItemsNext(w, t, iter)]
  BY <1>5 DEF ItemsRun
<1>7. Items(w, B) = iter[B]
  BY Zenon DEF Items, FoldSet, MapThenFoldSet, ItemsRun, ItemsNext, Taken
<1> HIDE DEF iter
<1>8. iter[{}] = 0 /\ \A t \in SUBSET B : t # {} => iter[t] = iter[t \ {Taken(t)}] + f[Taken(t)]
  <2>1. \A t \in SUBSET B : iter[t] = ItemsNext(w, t, iter)
    BY <1>6
  <2> QED BY <2>1, <1>4 DEF ItemsNext
<1>9. f \in [Bin -> Int]
  BY <1>2 DEF f
<1>10. iter[B] = SumOver(f, B)
  BY <1>1, <1>8, <1>9, SumTaken
<1>11. SumOver(f, B) \in Nat
  <2>1. \A b \in B : f[b] \in Nat
    BY <1>2 DEF f
  <2> QED BY <1>1, <1>9, <2>1, SumNat
<1> QED BY <1>2, <1>7, <1>10, <1>11 DEF f

\* What party 0 has added up of what the senders have sent it.
Heads(ch) == [q \in Sender |-> Head(ch[<<q, 0>>])]
AddedUp(ch, base, S) == FoldSet(LAMBDA q, n : n + Head(ch[<<q, 0>>]), base, S)
AddedNext(ch, base, t, iter) == IF t = {} THEN base ELSE iter[t \ {Taken(t)}] + Head(ch[<<Taken(t), 0>>])
AddedRun(ch, base, S) == CHOOSE f : f = [t \in SUBSET S |-> AddedNext(ch, base, t, f)]

\* It is their sum and what it starts from.
LEMMA AddedUpIs ==
  ASSUME NEW ch, NEW base \in Int, Heads(ch) \in [Sender -> Int]
  PROVE AddedUp(ch, base, Sender) = base + SumOver(Heads(ch), Sender)
<1> DEFINE f == Heads(ch)
           S == Sender
<1>0. \A q \in S : f[q] = Head(ch[<<q, 0>>])
  BY DEF Heads
<1>00. IsFiniteSet(S)
  BY Parties
<1>1. f \in [S -> Int]
  OBVIOUS
<1> HIDE DEF f, S
<1>3. PICK g : SumsUp(g, f, S)
  BY <1>00, <1>1, SumRun
<1>4. ASSUME NEW t \in SUBSET S, t # {} PROVE f[Taken(t)] = Head(ch[<<Taken(t), 0>>]) /\ f[Taken(t)] \in Int
  <2>1. Taken(t) \in S
    BY <1>4, TakenIn
  <2> QED BY <1>0, <1>1, <2>1
<1>5. g \in [SUBSET S -> Int] /\ \A t \in SUBSET S : g[t] = IF t = {} THEN 0 ELSE g[t \ {Taken(t)}] + f[Taken(t)]
  BY <1>3 DEF SumsUp
<1> DEFINE h == [t \in SUBSET S |-> base + g[t]]
<1>6. h = [t \in SUBSET S |-> AddedNext(ch, base, t, h)]
  <2>1. ASSUME NEW t \in SUBSET S PROVE h[t] = AddedNext(ch, base, t, h)
    <3>1. CASE t = {}
      <4>1. g[t] = 0 /\ h[t] = base + g[t] /\ AddedNext(ch, base, t, h) = base
        BY <1>5, <3>1 DEF AddedNext
      <4> HIDE DEF h
      <4> QED BY <4>1
    <3>2. CASE t # {}
      <4> DEFINE a == g[t \ {Taken(t)}]
                 b == f[Taken(t)]
      <4>1. g[t] = a + b /\ a \in Int /\ b \in Int /\ h[t] = base + g[t] /\ h[t \ {Taken(t)}] = base + a
        BY <1>4, <1>5, <3>2
      <4>2. AddedNext(ch, base, t, h) = h[t \ {Taken(t)}] + b
        BY <1>4, <3>2 DEF AddedNext
      <4> HIDE DEF a, b, h
      <4> QED BY <4>1, <4>2
    <3> QED BY <3>1, <3>2
  <2> HIDE DEF AddedNext
  <2> QED BY <2>1
<1> DEFINE iter == AddedRun(ch, base, S)
<1> HIDE DEF h
<1>7. iter = [t \in SUBSET S |-> AddedNext(ch, base, t, iter)]
  BY <1>6 DEF AddedRun
<1>8. AddedUp(ch, base, S) = iter[S]
  BY Zenon DEF AddedUp, FoldSet, MapThenFoldSet, AddedRun, AddedNext, Taken
<1> HIDE DEF iter
<1> DEFINE less == [t \in SUBSET S |-> iter[t] - base]
<1>10. \A t \in SUBSET S : t # {} => iter[t] = iter[t \ {Taken(t)}] + f[Taken(t)]
  <2>1. \A t \in SUBSET S : iter[t] = AddedNext(ch, base, t, iter)
    BY <1>7
  <2> QED BY <2>1, <1>4 DEF AddedNext
<1>11. \A t \in SUBSET S : iter[t] \in Int
  <2> DEFINE I == {k \in Nat : \A t \in SUBSET S : Cardinality(t) = k => iter[t] \in Int}
  <2>1. \A t \in SUBSET S : IsFiniteSet(t) /\ Cardinality(t) \in Nat
    BY <1>00, FS_Subset, FS_CardinalityType
  <2>2. 0 \in I
    <3>1. iter[{}] = base
      BY <1>7 DEF AddedNext
    <3>2. ASSUME NEW t \in SUBSET S, Cardinality(t) = 0 PROVE t = {}
      BY <2>1, <3>2, FS_EmptySet
    <3> QED BY <3>1, <3>2
  <2>3. ASSUME NEW k \in Nat, k \in I PROVE k + 1 \in I
    <3>1. ASSUME NEW t \in SUBSET S, Cardinality(t) = k + 1 PROVE iter[t] \in Int
      <4>1. Cardinality(t) # 0
        BY <3>1
      <4>2. t # {}
        <5>1. Cardinality({}) = 0
          BY FS_EmptySet
        <5> QED BY <4>1, <5>1, Zenon
      <4>3. Taken(t) \in t
        BY <4>2, TakenIn
      <4>4. Cardinality(t \ {Taken(t)}) = Cardinality(t) - 1
        BY <2>1, <4>3, FS_RemoveElement
      <4>5. Cardinality(t \ {Taken(t)}) = k
        BY <3>1, <4>4
      <4>6. iter[t \ {Taken(t)}] \in Int
        BY <2>3, <4>5
      <4>7. f[Taken(t)] \in Int
        BY <1>4, <4>2
      <4>8. iter[t] = iter[t \ {Taken(t)}] + f[Taken(t)]
        BY <1>10, <4>2
      <4> QED BY <4>6, <4>7, <4>8
    <3> QED BY <3>1
  <2>4. Nat \subseteq I
    <3> HIDE DEF I
    <3> QED BY <2>2, <2>3, Induct
  <2> QED BY <2>1, <2>4
<1>12. less[{}] = 0 /\ \A t \in SUBSET S : t # {} => less[t] = less[t \ {Taken(t)}] + f[Taken(t)]
  <2>1. less[{}] = 0
    BY <1>7 DEF AddedNext
  <2>2. ASSUME NEW t \in SUBSET S, t # {} PROVE less[t] = less[t \ {Taken(t)}] + f[Taken(t)]
    <3> DEFINE a == iter[t \ {Taken(t)}]
               b == f[Taken(t)]
    <3>1. a \in Int /\ b \in Int /\ iter[t] = a + b
      BY <1>4, <1>10, <1>11, <2>2
    <3>2. less[t] = iter[t] - base /\ less[t \ {Taken(t)}] = a - base
      OBVIOUS
    <3> HIDE DEF a, b, less
    <3>3. less[t] = less[t \ {Taken(t)}] + b
      BY <3>1, <3>2
    <3> QED BY <3>3 DEF b
  <2> QED BY <2>1, <2>2
<1>13. less[S] = iter[S] - base /\ iter[S] \in Int
  BY <1>11
<1> HIDE DEF less
<1>14. less[S] = SumOver(f, S)
  BY <1>00, <1>1, <1>12, SumTaken
<1>15. SumOver(f, S) \in Int
  BY <1>00, <1>1, SumLaws
<1>16. AddedUp(ch, base, S) = base + SumOver(f, S)
  BY <1>8, <1>13, <1>14, <1>15
<1> QED BY <1>16 DEF f, S

-----------------------------------------------------------------------------
(* The sum of the senders' values of the common ids. *)

ValueSum(value, C, q) == MapThenSumSet(LAMBDA id : value[q][id], C)
ValueSums(value, C, S) == MapThenSumSet(LAMBDA q : MapThenSumSet(LAMBDA id : value[q][id], C), S)
ValueNext(v, t, iter) == IF t = {} THEN 0 ELSE v[Taken(t)] + iter[t \ {Taken(t)}]
ValueRun(v, C) == CHOOSE f : f = [t \in SUBSET C |-> ValueNext(v, t, f)]
SendersNext(value, C, t, iter) == IF t = {} THEN 0 ELSE ValueSum(value, C, Taken(t)) + iter[t \ {Taken(t)}]
SendersRun(value, C, S) == CHOOSE f : f = [t \in SUBSET S |-> SendersNext(value, C, t, f)]

\* Taking a number, it does not matter on which side it is added.
LEMMA SumTurned ==
  ASSUME NEW D, NEW f \in [D -> Int], NEW S \in SUBSET D, IsFiniteSet(S), NEW iter, iter[{}] = 0,
         \A t \in SUBSET S : t # {} => iter[t] = f[Taken(t)] + iter[t \ {Taken(t)}]
  PROVE iter[S] = SumOver(f, S)
<1> DEFINE K == {k \in Nat : \A t \in SUBSET S : Cardinality(t) = k => iter[t] \in Int}
<1>1. \A t \in SUBSET S : IsFiniteSet(t) /\ Cardinality(t) \in Nat
  BY FS_Subset, FS_CardinalityType
<1>2. 0 \in K
  <2>1. ASSUME NEW t \in SUBSET S, Cardinality(t) = 0 PROVE t = {}
    BY <1>1, <2>1, FS_EmptySet
  <2>2. iter[{}] \in Int
    OBVIOUS
  <2>3. \A t \in SUBSET S : Cardinality(t) = 0 => iter[t] \in Int
    BY <2>1, <2>2
  <2> QED BY <2>3
<1>3. ASSUME NEW k \in Nat, k \in K PROVE k + 1 \in K
  <2>1. ASSUME NEW t \in SUBSET S, Cardinality(t) = k + 1 PROVE iter[t] \in Int
    <3>1. Cardinality(t) # 0
      BY <2>1
    <3>2. t # {}
      <4>1. Cardinality({}) = 0
        BY FS_EmptySet
      <4> QED BY <3>1, <4>1, Zenon
    <3>3. Taken(t) \in t
      BY <3>2, TakenIn
    <3>4. Cardinality(t \ {Taken(t)}) = Cardinality(t) - 1
      BY <1>1, <3>3, FS_RemoveElement
    <3>5. Cardinality(t \ {Taken(t)}) = k
      BY <2>1, <3>4
    <3>6. iter[t \ {Taken(t)}] \in Int
      BY <1>3, <3>5
    <3>7. f[Taken(t)] \in Int
      BY <3>3
    <3> QED BY <3>2, <3>6, <3>7
  <2> QED BY <2>1
<1>4. Nat \subseteq K
  <2> HIDE DEF K
  <2> QED BY <1>2, <1>3, Induct
<1>5. \A t \in SUBSET S : iter[t] \in Int
  BY <1>1, <1>4
<1>6. ASSUME NEW t \in SUBSET S, t # {} PROVE iter[t] = iter[t \ {Taken(t)}] + f[Taken(t)]
  <2>1. Taken(t) \in t
    BY <1>6, TakenIn
  <2> DEFINE a == iter[t \ {Taken(t)}]
             b == f[Taken(t)]
  <2>2. a \in Int /\ b \in Int /\ iter[t] = b + a
    BY <1>5, <1>6, <2>1
  <2> HIDE DEF a, b
  <2>3. iter[t] = a + b
    BY <2>2
  <2> QED BY <2>3 DEF a, b
<1>7. \A t \in SUBSET S : t # {} => iter[t] = iter[t \ {Taken(t)}] + f[Taken(t)]
  BY <1>6
<1> QED BY <1>7, SumTaken

\* What one sender's values add up to.
LEMMA ValueSumIs ==
  ASSUME NEW D, NEW C \in SUBSET D, IsFiniteSet(C), NEW value, NEW q, value[q] \in [D -> Nat]
  PROVE ValueSum(value, C, q) = SumOver(value[q], C) /\ ValueSum(value, C, q) \in Nat
<1> DEFINE v == value[q]
<1>1. v \in [D -> Int] /\ v \in [D -> Nat]
  OBVIOUS
<1>0. ValueSum(value, C, q) = ValueRun(v, C)[C]
  BY Zenon DEF ValueSum, MapThenSumSet, MapThenFoldSet, ValueRun, ValueNext, Taken
<1> HIDE DEF v
<1>2. PICK g : SumsUp(g, v, C)
  BY <1>1, SumRun
<1>3. ASSUME NEW t \in SUBSET C, t # {} PROVE v[Taken(t)] \in Int
  <2>1. Taken(t) \in C
    BY <1>3, TakenIn
  <2> QED BY <1>1, <2>1
<1>4. g \in [SUBSET C -> Int] /\ \A t \in SUBSET C : g[t] = IF t = {} THEN 0 ELSE g[t \ {Taken(t)}] + v[Taken(t)]
  BY <1>2 DEF SumsUp
<1>5. g = [t \in SUBSET C |-> ValueNext(v, t, g)]
  <2>1. ASSUME NEW t \in SUBSET C PROVE g[t] = ValueNext(v, t, g)
    <3>1. CASE t = {}
      BY <1>4, <3>1 DEF ValueNext
    <3>2. CASE t # {}
      <4> DEFINE a == g[t \ {Taken(t)}]
                 b == v[Taken(t)]
      <4>1. g[t] = a + b /\ a \in Int /\ b \in Int /\ ValueNext(v, t, g) = b + a
        BY <1>3, <1>4, <3>2 DEF ValueNext
      <4> HIDE DEF a, b
      <4> QED BY <4>1
    <3> QED BY <3>1, <3>2
  <2> QED BY <1>4, <2>1
<1> DEFINE iter == ValueRun(v, C)
<1>6. iter = [t \in SUBSET C |-> ValueNext(v, t, iter)]
  BY <1>5 DEF ValueRun
<1> HIDE DEF iter
<1>7. iter[{}] = 0 /\ \A t \in SUBSET C : t # {} => iter[t] = v[Taken(t)] + iter[t \ {Taken(t)}]
  <2>1. \A t \in SUBSET C : iter[t] = ValueNext(v, t, iter)
    BY <1>6
  <2> QED BY <2>1 DEF ValueNext
<1>8. iter[C] = SumOver(v, C)
  BY <1>1, <1>3, <1>7, SumTurned
<1>9. SumOver(v, C) \in Nat
  BY <1>1, SumNat
<1> QED BY <1>0, <1>8, <1>9 DEF v, iter

\* What the senders' values add up to.
LEMMA ValueSumsIs ==
  ASSUME NEW D, NEW C \in SUBSET D, IsFiniteSet(C), NEW S, IsFiniteSet(S), NEW value, \A q \in S : value[q] \in [D -> Nat]
  PROVE /\ [q \in S |-> SumOver(value[q], C)] \in [S -> Int]
        /\ ValueSums(value, C, S) = SumOver([q \in S |-> SumOver(value[q], C)], S) /\ ValueSums(value, C, S) \in Nat
<1> DEFINE v == [q \in S |-> SumOver(value[q], C)]
<1>0. \A q \in S : v[q] = ValueSum(value, C, q) /\ v[q] \in Nat
  BY ValueSumIs
<1>1. v \in [S -> Int]
  BY <1>0
<1>2. ValueSums(value, C, S) = SendersRun(value, C, S)[S]
  BY Zenon DEF ValueSums, ValueSum, MapThenSumSet, MapThenFoldSet, SendersRun, SendersNext, Taken
<1> HIDE DEF v
<1>3. PICK g : SumsUp(g, v, S)
  BY <1>1, SumRun
<1>4. ASSUME NEW t \in SUBSET S, t # {} PROVE v[Taken(t)] \in Int /\ v[Taken(t)] = ValueSum(value, C, Taken(t))
  <2>1. Taken(t) \in S
    BY <1>4, TakenIn
  <2> QED BY <1>0, <1>1, <2>1
<1>5. g \in [SUBSET S -> Int] /\ \A t \in SUBSET S : g[t] = IF t = {} THEN 0 ELSE g[t \ {Taken(t)}] + v[Taken(t)]
  BY <1>3 DEF SumsUp
<1>6. g = [t \in SUBSET S |-> SendersNext(value, C, t, g)]
  <2>1. ASSUME NEW t \in SUBSET S PROVE g[t] = SendersNext(value, C, t, g)
    <3>1. CASE t = {}
      BY <1>5, <3>1 DEF SendersNext
    <3>2. CASE t # {}
      <4> DEFINE a == g[t \ {Taken(t)}]
                 b == v[Taken(t)]
      <4>1. g[t] = a + b /\ a \in Int /\ b \in Int /\ SendersNext(value, C, t, g) = b + a
        BY <1>4, <1>5, <3>2 DEF SendersNext
      <4> HIDE DEF a, b
      <4> QED BY <4>1
    <3> QED BY <3>1, <3>2
  <2> QED BY <1>5, <2>1
<1> DEFINE iter == SendersRun(value, C, S)
<1>7. iter = [t \in SUBSET S |-> SendersNext(value, C, t, iter)]
  BY <1>6 DEF SendersRun
<1> HIDE DEF iter
<1>8. iter[{}] = 0 /\ \A t \in SUBSET S : t # {} => iter[t] = v[Taken(t)] + iter[t \ {Taken(t)}]
  <2>1. \A t \in SUBSET S : iter[t] = SendersNext(value, C, t, iter)
    BY <1>7
  <2> QED BY <2>1, <1>4 DEF SendersNext
<1>9. iter[S] = SumOver(v, S)
  <2>1. S \in SUBSET S
    OBVIOUS
  <2> QED BY <1>1, <1>8, <2>1, SumTurned
<1>10. SumOver(v, S) \in Nat
  BY <1>0, <1>1, SumNat
<1> QED BY <1>1, <1>2, <1>9, <1>10 DEF v, iter

\* A common id's bin and its sender's label hide the sender's value of it.
LEMMA PairWorth ==
  ASSUME NEW c, Typed(c), NEW q \in Sender, NEW b \in CommonBins(c)
  PROVE /\ c.value[q][c.table[b].id] \in Nat
        /\ Number(Pairs(c, "PSICS2")[q][b]) = c.value[q][c.table[b].id] % Modulus
<1> DEFINE label == LabelOf(c, "PSICS2", q)[b]
           w == Word(c.value[q][c.table[b].id])
           v == c.value[q][c.table[b].id]
<1>1. "PSICS2" \in AllKinds /\ RingOf("PSICS2") = "add" /\ "add" \in Rings
  BY DEF AllKinds, RingOf, Rings
<1>2. b \in Bin /\ c.table[b].id \in c.set[q]
  BY DEF CommonBins
<1>3. FoundIn(c, "PSICS2", q)[b] = Worth(c, "PSICS2", q, c.table[b]) /\ BinOf(c.table[b]) = b
  BY <1>1, <1>2, FoundIs
<1>4. label \in Element
  BY <1>1, <1>2, LabelsTyped DEF Vector
<1>5. v \in Nat
  <2>1. q \in Party
    BY Parties
  <2>2. c.set[q] \subseteq DOMAIN HashTo /\ c.value[q] \in [DOMAIN HashTo -> Nat]
    BY <2>1 DEF Typed
  <2> QED BY <1>2, <2>2
<1>6. Worth(c, "PSICS2", q, c.table[b]) = Add("add", w, Minus("add", label))
  BY <1>3 DEF Worth
<1>7. Pairs(c, "PSICS2")[q][b] = Add("add", Add("add", w, Minus("add", label)), label)
  <2>1. Pairs(c, "PSICS2")[q][b] = Add("add", FoundIn(c, "PSICS2", q)[b], label)
    BY <1>1, <1>2, XIs
  <2> QED BY <1>3, <1>6, <2>1
<1>8. w \in Element /\ Number(w) = v % Modulus
  <2> HIDE DEF v
  <2>1. v \in Int
    BY <1>5
  <2> QED BY <2>1, NumberOfWord DEF v
<1> HIDE DEF label, w, v
<1>9. Add("add", Add("add", w, Minus("add", label)), label) = w
  <2> DEFINE n == Minus("add", label)
  <2>1. n \in Element /\ Add("add", label, n) = {}
    BY <1>1, <1>4, GroupLaws
  <2> HIDE DEF n
  <2>2. Add("add", n, label) = {}
    BY <1>1, <1>4, <2>1, GroupLaws
  <2>3. Add("add", Add("add", w, n), label) = Add("add", w, Add("add", n, label))
    BY <1>1, <1>4, <1>8, <2>1, GroupLaws
  <2>4. Add("add", w, {}) = w
    BY <1>1, <1>8, GroupLaws
  <2> QED BY <2>2, <2>3, <2>4 DEF n
<1>10. Number(Pairs(c, "PSICS2")[q][b]) = v % Modulus
  BY <1>7, <1>8, <1>9
<1> QED BY <1>5, <1>10 DEF v

\* The parties' shares of a bin that is found, as numbers, and the senders' values of
\* the id it stands for.
SharesAt(c) == [p \in Party |-> [b \in HitsOf(c, "PSICS1") |-> Number(OutOf(c, "PSICS2")[p][b])]]
ValuesAt(c) == [q \in Sender |-> [b \in HitsOf(c, "PSICS1") |-> c.value[q][IdAt(c, "PSICS1")[b]]]]

\* Both are tables of numbers.
LEMMA TablesTyped ==
  ASSUME NEW c, Typed(c), NoAccident(c)
  PROVE /\ SharesAt(c) \in [Party -> [HitsOf(c, "PSICS1") -> Int]]
        /\ ValuesAt(c) \in [Sender -> [HitsOf(c, "PSICS1") -> Int]]
        /\ \A q \in Sender : c.value[q] \in [DOMAIN HashTo -> Nat]
        /\ CommonIds(c) \in SUBSET DOMAIN HashTo
<1> DEFINE hits == HitsOf(c, "PSICS1")
           at == IdAt(c, "PSICS1")
           out == OutOf(c, "PSICS2")
<1>1. out \in [Party -> Vector]
  BY OutTyped DEF AllKinds
<1>2. hits \subseteq Bin /\ at \in [hits -> CommonIds(c)]
  BY HitsStandFor
<1>3. CommonIds(c) \in SUBSET DOMAIN HashTo /\ \A q \in Sender : c.value[q] \in [DOMAIN HashTo -> Nat]
  <2>1. 0 \in Party
    BY Parties
  <2>2. c.set[0] \subseteq DOMAIN HashTo /\ \A q \in Sender : c.value[q] \in [DOMAIN HashTo -> Nat]
    BY <2>1 DEF Typed
  <2> QED BY <2>2 DEF CommonIds
<1>4. SharesAt(c) = [p \in Party |-> [b \in hits |-> Number(out[p][b])]]
  BY DEF SharesAt
<1>5. ValuesAt(c) = [q \in Sender |-> [b \in hits |-> c.value[q][at[b]]]]
  BY DEF ValuesAt
<1> HIDE DEF hits, at, out
<1>6. ASSUME NEW p \in Party, NEW b \in hits PROVE Number(out[p][b]) \in Int
  <2>1. out[p][b] \in Element
    BY <1>1, <1>2 DEF Vector
  <2> QED BY <2>1, NumberInjects
<1>7. ASSUME NEW q \in Sender, NEW b \in hits PROVE c.value[q][at[b]] \in Int
  BY <1>2, <1>3
<1>8. SharesAt(c) \in [Party -> [hits -> Int]]
  BY <1>4, <1>6
<1>9. ValuesAt(c) \in [Sender -> [hits -> Int]]
  BY <1>5, <1>7
<1> QED BY <1>3, <1>8, <1>9 DEF hits

\* Bin by bin they have the same rest.
LEMMA SharesStandFor ==
  ASSUME NEW c, Typed(c), NoAccident(c), NEW b \in HitsOf(c, "PSICS1")
  PROVE SumOver([p \in Party |-> SharesAt(c)[p][b]], Party) % Modulus
          = SumOver([q \in Sender |-> ValuesAt(c)[q][b]], Sender) % Modulus
<1> DEFINE out == OutOf(c, "PSICS2")
           turn == LastTurn(c, "PSICS1")
           J == JointOf(c, "PSICS2")
           pairs == Pairs(c, "PSICS2")
           d == turn[b]
           f == [p \in Party |-> SharesAt(c)[p][b]]
           g == [q \in Sender |-> ValuesAt(c)[q][b]]
           h == [q \in Sender |-> Number(pairs[q][d])]
<1>1. "PSICS2" \in AllKinds /\ RingOf("PSICS2") = "add" /\ "add" \in Rings
  BY DEF AllKinds, RingOf, Rings
<1>2. b \in Bin /\ d \in CommonBins(c) /\ turn \in Turning
  BY HitsAre
<1>3. out \in [Party -> Vector] /\ TotalOf("add", out, Party) = PermutedRows(J, turn)
  BY <1>1, OutTyped
<1>4. J \in Vector /\ J = TotalOf("add", pairs, Sender) /\ pairs \in [Sender -> Vector]
  BY <1>1, InTyped, XIs
<1>5. IsFiniteSet(Party) /\ IsFiniteSet(Sender) /\ Modulus \in Int /\ Modulus > 0 /\ d \in Bin
  BY <1>2, Parties, WeightsType DEF CommonBins
<1>6. f = [p \in Party |-> Number(out[p][b])]
  BY DEF SharesAt
<1>7. \A q \in Sender : g[q] = c.value[q][c.table[d].id]
  BY DEF ValuesAt, IdAt
<1>8. f \in [Party -> Int] /\ g \in [Sender -> Int]
  BY TablesTyped
<1>9. \A q \in Sender : h[q] = Number(pairs[q][d]) /\ h[q] = c.value[q][c.table[d].id] % Modulus
  BY <1>2, PairWorth
<1> HIDE DEF out, turn, J, pairs, d, f, g
<1>10. Number(TotalOf("add", out, Party)[b]) = SumOver(f, Party) % Modulus
  BY <1>2, <1>3, <1>5, <1>6, NumberOfTotal
<1>11. Number(TotalOf("add", pairs, Sender)[d]) = SumOver(h, Sender) % Modulus /\ h \in [Sender -> Int]
  BY <1>4, <1>5, NumberOfTotal
<1> HIDE DEF h
<1>12. PermutedRows(J, turn)[b] = J[d]
  BY <1>1, <1>2, <1>4, MovedAdds DEF d
<1>13. ASSUME NEW q \in Sender PROVE h[q] % Modulus = g[q] % Modulus
  <2> DEFINE v == g[q]
             m == Modulus
  <2>1. v \in Int /\ h[q] = v % m /\ m \in Int /\ m > 0 /\ 0 \in Int
    BY <1>5, <1>7, <1>8, <1>9
  <2> HIDE DEF v, m
  <2>2. ((v % m) + 0) % m = (v + 0) % m /\ v % m \in Int
    BY <2>1, RestOfSum
  <2>3. (v % m) % m = v % m
    BY <2>1, <2>2
  <2> QED BY <2>1, <2>3 DEF v, m
<1>14. SumOver(h, Sender) % Modulus = SumOver(g, Sender) % Modulus
  BY <1>5, <1>8, <1>11, <1>13, RestsAlike
<1>15. SumOver(f, Party) % Modulus = SumOver(g, Sender) % Modulus
  BY <1>3, <1>4, <1>10, <1>11, <1>12, <1>14
<1> QED BY <1>15 DEF f, g

\* What the parties send for the sum are words, and so is what is published of them.
LEMMA SumsTyped ==
  ASSUME NEW c, Typed(c)
  PROVE /\ SumsOf(c) \in [Party -> Int] /\ \A p \in Party : SumsOf(c)[p] = SumBy(c, p) /\ SumBy(c, p) \in 0..(Modulus - 1)
        /\ AggOf(c) \in 0..(Modulus - 1)
        /\ \A p \in Party, B \in SUBSET Bin : Items(OutOf(c, "PSICS2")[p], B) \in Nat
        /\ HitsOf(c, "PSI") \in SUBSET Bin /\ HitsOf(c, "PSICS1") \in SUBSET Bin
        /\ AggOf(c) = SumOver(SumsOf(c), Party) % Modulus
<1> DEFINE out == OutOf(c, "PSICS2")
           m == Modulus
           hits == HitsOf(c, "PSICS1")
<1>1. out \in [Party -> Vector]
  BY OutTyped DEF AllKinds
<1>2. m \in Int /\ m > 0 /\ \A n \in Int : n % m \in 0..(m - 1)
  BY WeightsType, NumberOfWord
<1>3. HitsOf(c, "PSI") \in SUBSET Bin /\ hits \in SUBSET Bin
  BY DEF HitsOf
<1>4. \A p \in Party : SumBy(c, p) = Items(out[p], hits) % m
  BY DEF SumBy
<1>5. \A p \in Party : SumsOf(c)[p] = SumBy(c, p)
  BY DEF SumsOf
<1> HIDE DEF out, m, hits
<1>6. \A p \in Party, B \in SUBSET Bin : Items(out[p], B) \in Nat
  <2>1. ASSUME NEW p \in Party, NEW B \in SUBSET Bin PROVE Items(out[p], B) \in Nat
    <3>1. out[p] \in Vector
      BY <1>1
    <3> QED BY <3>1, ItemsIs
  <2> QED BY <2>1
<1>7. \A p \in Party : SumBy(c, p) \in 0..(m - 1)
  <2>1. \A p \in Party : Items(out[p], hits) \in Int
    BY <1>3, <1>6
  <2> QED BY <1>2, <1>4, <2>1
<1>8. SumsOf(c) \in [Party -> Int]
  <2>1. \A p \in Party : SumBy(c, p) \in Int
    BY <1>2, <1>7
  <2> QED BY <2>1 DEF SumsOf
<1> DEFINE f == SumsOf(c)
<1>9. f \in [Party -> Int]
  BY <1>8
<1>90. AggOf(c) = (f[0] + SumOver(f, Sender)) % m
  BY DEF AggOf, m
<1> HIDE DEF f
<1>10. SumOver(f, Sender) \in Int /\ SumOver(f, Party) = SumOver(f, Sender) + f[0] /\ f[0] \in Int
  <2>1. /\ IsFiniteSet(Party) /\ IsFiniteSet(Sender) /\ 0 \in Party /\ Party \ {0} = Sender
        /\ Sender \in SUBSET Party /\ Sender \in SUBSET Sender /\ Party \in SUBSET Party
    BY Parties
  <2>2. SumOver(f, Party) = SumOver(f, Party \ {0}) + f[0]
    BY <1>9, <2>1, SumWithout
  <2>3. SumOver(f, Sender) \in Int
    BY <1>9, <2>1, SumLaws
  <2> QED BY <1>9, <2>1, <2>2, <2>3
<1>11. AggOf(c) \in 0..(m - 1) /\ AggOf(c) = SumOver(f, Party) % m
  <2> DEFINE a == SumOver(f, Sender)
             b == f[0]
  <2>1. a \in Int /\ b \in Int /\ SumOver(f, Party) = a + b
    BY <1>10
  <2>2. AggOf(c) = (b + a) % m
    BY <1>90
  <2> HIDE DEF a, b
  <2>3. b + a = a + b /\ b + a \in Int
    BY <2>1
  <2>4. (b + a) % m \in 0..(m - 1)
    BY <1>2, <2>3
  <2> QED BY <2>1, <2>2, <2>3, <2>4
<1> QED BY <1>3, <1>5, <1>6, <1>7, <1>9, <1>11 DEF m, out, hits, f

\* The sum is right: that of the senders' values of the common ids, as far as a word goes.
THEOREM SumIs ==
  ASSUME NEW c, Typed(c), NoAccident(c)
  PROVE /\ ValueSums(c.value, CommonIds(c), Sender) \in Nat
        /\ AggOf(c) = ValueSums(c.value, CommonIds(c), Sender) % Modulus
<1> DEFINE hits == HitsOf(c, "PSICS1")
           at == IdAt(c, "PSICS1")
           ids == CommonIds(c)
           D == DOMAIN HashTo
           G == SharesAt(c)
           K == ValuesAt(c)
           out == OutOf(c, "PSICS2")
           sums == SumsOf(c)
           m == Modulus
           value == c.value
           per == [q \in Sender |-> SumOver(value[q], ids)]
<1>1. /\ IsFiniteSet(Party) /\ IsFiniteSet(Sender) /\ m \in Int /\ m > 0
  BY Parties, WeightsType
<1>2. /\ at \in [hits -> ids] /\ Inject(at, hits) /\ {at[b] : b \in hits} = ids
      /\ IsFiniteSet(hits) /\ hits \subseteq Bin
  BY HitsStandFor
<1>3. /\ G \in [Party -> [hits -> Int]] /\ K \in [Sender -> [hits -> Int]]
      /\ (\A q \in Sender : value[q] \in [D -> Nat]) /\ ids \in SUBSET D
  BY TablesTyped
<1>4. IsFiniteSet(ids)
  BY CountIs
<1>5. sums \in [Party -> Int] /\ AggOf(c) = SumOver(sums, Party) % m /\ out \in [Party -> Vector]
  BY SumsTyped, OutTyped DEF AllKinds
<1>6. \A p \in Party : sums[p] = Items(out[p], hits) % m
  BY DEF SumsOf, SumBy
<1>7. \A p \in Party : G[p] = [b \in hits |-> Number(out[p][b])]
  BY DEF SharesAt
<1>8. \A q \in Sender : K[q] = [b \in hits |-> value[q][at[b]]]
  BY DEF ValuesAt
<1>9. \A b \in hits : SumOver([p \in Party |-> G[p][b]], Party) % m = SumOver([q \in Sender |-> K[q][b]], Sender) % m
  BY SharesStandFor
<1> HIDE DEF hits, at, ids, D, G, K, out, sums, m, value
<1>10. per \in [Sender -> Int] /\ ValueSums(value, ids, Sender) = SumOver(per, Sender) /\ ValueSums(value, ids, Sender) \in Nat
  <2>1. ids \in SUBSET D /\ IsFiniteSet(ids) /\ IsFiniteSet(Sender) /\ \A q \in Sender : value[q] \in [D -> Nat]
    BY <1>1, <1>3, <1>4
  <2>2. /\ [q \in Sender |-> SumOver(value[q], ids)] \in [Sender -> Int]
        /\ ValueSums(value, ids, Sender) = SumOver([q \in Sender |-> SumOver(value[q], ids)], Sender)
        /\ ValueSums(value, ids, Sender) \in Nat
    <3> HIDE DEF per
    <3> QED BY <2>1, ValueSumsIs
  <2> QED BY <2>2
<1> HIDE DEF per
\* By parties.
<1> DEFINE rows == RowSums(G, Party, hits)
           cols == ColumnSums(G, Party, hits)
<1>11. ASSUME NEW p \in Party PROVE rows[p] = Items(out[p], hits) /\ rows[p] \in Int
  <2> DEFINE w == out[p]
             u == G[p]
             n == Numbers(w)
  <2>1. w \in Vector /\ u \in [hits -> Int] /\ u = [b \in hits |-> Number(w[b])]
    BY <1>3, <1>5, <1>7
  <2>2. rows[p] = SumOver(u, hits)
    BY DEF RowSums
  <2> HIDE DEF w, u
  <2>3. n \in [Bin -> Int] /\ Items(w, hits) = SumOver(n, hits)
    BY <1>2, <2>1, ItemsIs
  <2>4. Alike(u, n, hits)
    BY <1>2, <2>1 DEF Alike, Numbers
  <2> HIDE DEF n
  <2>5. SumOver(u, hits) = SumOver(n, hits) /\ SumOver(u, hits) \in Int
    <3>1. hits \in SUBSET hits /\ hits \in SUBSET Bin
      BY <1>2
    <3> QED BY <1>2, <2>1, <2>3, <2>4, <3>1, SumAgree, SumLaws
  <2> QED BY <2>2, <2>3, <2>5 DEF w
<1>12. rows \in [Party -> Int] /\ SumOver(rows, Party) = SumOver(cols, hits)
  <2>1. SumOver(rows, Party) = SumOver(cols, hits)
    BY <1>1, <1>2, <1>3, SumSwap
  <2> QED BY <1>11, <2>1 DEF RowSums
<1>13. \A b \in hits : cols[b] = SumOver([p \in Party |-> G[p][b]], Party)
  BY DEF ColumnSums
<1>14. cols \in [hits -> Int]
  <2>1. ASSUME NEW b \in hits PROVE cols[b] \in Int
    <3> DEFINE u == [p \in Party |-> G[p][b]]
    <3>1. u \in [Party -> Int] /\ Party \in SUBSET Party
      BY <1>3
    <3>2. cols[b] = SumOver(u, Party)
      BY <1>13
    <3> HIDE DEF u, cols
    <3> QED BY <1>1, <3>1, <3>2, SumLaws
  <2> QED BY <2>1 DEF ColumnSums
<1> HIDE DEF rows, cols
<1>15. SumOver(sums, Party) % m = SumOver(rows, Party) % m
  <2>1. ASSUME NEW p \in Party PROVE sums[p] % m = rows[p] % m
    <3> DEFINE n == rows[p]
    <3>1. n \in Int /\ sums[p] = n % m /\ 0 \in Int
      BY <1>6, <1>11
    <3> HIDE DEF n
    <3>2. ((n % m) + 0) % m = (n + 0) % m /\ n % m \in Int
      BY <1>1, <3>1, RestOfSum
    <3>3. (n % m) % m = n % m
      BY <3>1, <3>2
    <3> QED BY <3>1, <3>3 DEF n
  <2> QED BY <1>1, <1>5, <1>12, <2>1, RestsAlike
\* By senders.
<1> DEFINE theirs == RowSums(K, Sender, hits)
           sides == ColumnSums(K, Sender, hits)
<1>16. theirs \in [Sender -> Int] /\ \A q \in Sender : theirs[q] = per[q]
  <2>1. ASSUME NEW q \in Sender PROVE theirs[q] = per[q]
    <3> DEFINE v == value[q]
               g == [id \in ids |-> v[id]]
               u == K[q]
    <3>1. v \in [D -> Nat] /\ u = [b \in hits |-> v[at[b]]]
      BY <1>3, <1>8
    <3> HIDE DEF v
    <3>2. g \in [ids -> Int] /\ v \in [D -> Int]
      BY <1>3, <3>1
    <3>3. u = [b \in hits |-> g[at[b]]]
      BY <1>2, <3>1
    <3>4. Alike(g, v, ids)
      BY DEF Alike
    <3>5. theirs[q] = SumOver(u, hits) /\ per[q] = SumOver(v, ids)
      BY DEF RowSums, per, v
    <3> HIDE DEF g, u, theirs
    <3>6. SumOver([b \in hits |-> g[at[b]]], hits) = SumOver(g, {at[b] : b \in hits})
      BY <1>2, <3>2, SumMoved
    <3>7. SumOver(g, ids) = SumOver(v, ids)
      <4>1. ids \in SUBSET ids /\ ids \in SUBSET D
        BY <1>3
      <4> QED BY <1>4, <3>2, <3>4, <4>1, SumAgree
    <3> QED BY <1>2, <3>3, <3>5, <3>6, <3>7
  <2> QED BY <1>10, <2>1 DEF RowSums
<1>17. SumOver(theirs, Sender) = SumOver(sides, hits)
  BY <1>1, <1>2, <1>3, SumSwap
<1>18. \A b \in hits : sides[b] = SumOver([q \in Sender |-> K[q][b]], Sender)
  BY DEF ColumnSums
<1>19. sides \in [hits -> Int]
  <2>1. ASSUME NEW b \in hits PROVE sides[b] \in Int
    <3> DEFINE u == [q \in Sender |-> K[q][b]]
    <3>1. u \in [Sender -> Int] /\ Sender \in SUBSET Sender
      BY <1>3
    <3>2. sides[b] = SumOver(u, Sender)
      BY <1>18
    <3> HIDE DEF u, sides
    <3> QED BY <1>1, <3>1, <3>2, SumLaws
  <2> QED BY <2>1 DEF ColumnSums
<1> HIDE DEF theirs, sides
<1>20. SumOver(cols, hits) % m = SumOver(sides, hits) % m
  <2>1. \A b \in hits : cols[b] % m = sides[b] % m
    BY <1>9, <1>13, <1>18
  <2> QED BY <1>1, <1>2, <1>14, <1>19, <2>1, RestsAlike
<1>21. SumOver(theirs, Sender) = SumOver(per, Sender)
  <2>1. Alike(theirs, per, Sender)
    BY <1>16 DEF Alike
  <2>2. Sender \in SUBSET Sender
    OBVIOUS
  <2> QED BY <1>1, <1>10, <1>16, <2>1, <2>2, SumAgree
<1>22. AggOf(c) = ValueSums(value, ids, Sender) % m
  BY <1>5, <1>10, <1>12, <1>15, <1>17, <1>20, <1>21
<1> QED BY <1>10, <1>22 DEF value, ids, m

-----------------------------------------------------------------------------
(* What travels. Everything a socket carries in a session is settled by the session:
   a socket holds a window of it, from what has been taken to what has been sent. *)

Terms(S, u) == {S[i] : i \in 1..u}

\* A window is a sequence of what it is a window of.
LEMMA WindowSeq ==
  ASSUME NEW ch, NEW S, NEW v, NEW u, Window(ch, S, v, u)
  PROVE /\ ch \in Seq(Terms(S, u)) /\ Len(ch) = u - v /\ v \in Nat /\ u \in Nat /\ v <= u
        /\ \A i \in 1..(u - v) : ch[i] = S[v + i]
<1>1. v \in Nat /\ u \in Nat /\ v <= u /\ u - v \in Nat /\ ch = [i \in 1..(u - v) |-> S[v + i]]
  BY DEF Window
<1>2. \A i \in 1..(u - v) : v + i \in 1..u
  BY <1>1
<1>3. \A i \in 1..(u - v) : S[v + i] \in Terms(S, u)
  BY <1>2 DEF Terms
<1>4. ch \in [1..(u - v) -> Terms(S, u)]
  BY <1>1, <1>3
<1>5. ch \in Seq(Terms(S, u)) /\ Len(ch) = u - v
  BY <1>1, <1>4
<1> QED BY <1>1, <1>5

\* Sending lengthens it.
LEMMA WindowSends ==
  ASSUME NEW ch, NEW S, NEW v, NEW u, Window(ch, S, v, u), NEW m, m = S[u + 1]
  PROVE Window(Append(ch, m), S, v, u + 1)
<1>1. /\ ch \in Seq(Terms(S, u)) /\ Len(ch) = u - v /\ v \in Nat /\ u \in Nat /\ v <= u
      /\ \A i \in 1..(u - v) : ch[i] = S[v + i]
  BY WindowSeq
<1> DEFINE T == Terms(S, u) \cup {m}
           n == u - v
           new == Append(ch, m)
<1>2. ch \in Seq(T) /\ m \in T /\ n \in Nat /\ Len(ch) = n
  <2>1. Terms(S, u) \subseteq T
    OBVIOUS
  <2>2. ch \in Seq(T)
    <3> HIDE DEF T
    <3> QED BY <1>1, <2>1
  <2> QED BY <1>1, <2>2
<1>20. n = u - v
  OBVIOUS
<1> HIDE DEF T, n
<1>3. new \in Seq(T) /\ Len(new) = n + 1 /\ new[n + 1] = m /\ \A i \in 1..n : new[i] = ch[i]
  BY <1>2
<1> HIDE DEF new
<1>4. ASSUME NEW i \in 1..(n + 1) PROVE new[i] = S[v + i]
  <2>1. CASE i \in 1..n
    BY <1>1, <1>20, <1>3, <2>1
  <2>2. CASE i = n + 1
    <3>1. v + i = u + 1
      BY <1>1, <1>20, <2>2
    <3> QED BY <1>3, <2>2, <3>1
  <2> QED BY <1>2, <2>1, <2>2
<1>5. (u + 1) - v = n + 1 /\ u + 1 \in Nat /\ v <= u + 1
  BY <1>1, <1>20
<1>6. new = [i \in 1..(n + 1) |-> S[v + i]]
  <2>1. new = [i \in 1..Len(new) |-> new[i]]
    BY <1>3
  <2> QED BY <1>3, <1>4, <2>1
<1> QED BY <1>1, <1>5, <1>6 DEF Window, new

\* Taking shortens it.
LEMMA WindowTakes ==
  ASSUME NEW ch, NEW S, NEW v, NEW u, Window(ch, S, v, u), ch # <<>>
  PROVE v < u /\ Head(ch) = S[v + 1] /\ Window(Tail(ch), S, v + 1, u)
<1>1. /\ ch \in Seq(Terms(S, u)) /\ Len(ch) = u - v /\ v \in Nat /\ u \in Nat /\ v <= u
      /\ \A i \in 1..(u - v) : ch[i] = S[v + i]
  BY WindowSeq
<1> DEFINE T == Terms(S, u)
           n == u - v
           new == Tail(ch)
<1>2. ch \in Seq(T) /\ n \in Nat /\ Len(ch) = n /\ n = u - v
  BY <1>1
<1> HIDE DEF T, n
<1>3. n # 0 /\ n - 1 \in Nat
  BY <1>2
<1>4. v < u /\ Head(ch) = S[v + 1]
  <2>1. Head(ch) = ch[1] /\ 1 \in 1..(u - v)
    BY <1>1, <1>2, <1>3
  <2> QED BY <1>1, <1>2, <1>3, <2>1
<1>5. new \in Seq(T) /\ Len(new) = n - 1 /\ \A i \in 1..(n - 1) : new[i] = ch[i + 1]
  BY <1>2, <1>3
<1> HIDE DEF new
<1>6. ASSUME NEW i \in 1..(n - 1) PROVE new[i] = S[(v + 1) + i]
  <2>1. i + 1 \in 1..(u - v) /\ v + (i + 1) = (v + 1) + i
    BY <1>1, <1>2
  <2> QED BY <1>1, <1>5, <2>1
<1>7. u - (v + 1) = n - 1 /\ v + 1 \in Nat /\ v + 1 <= u
  BY <1>1, <1>2, <1>4
<1>8. new = [i \in 1..(n - 1) |-> S[(v + 1) + i]]
  <2>1. new = [i \in 1..Len(new) |-> new[i]]
    BY <1>5
  <2> QED BY <1>5, <1>6, <2>1
<1> QED BY <1>1, <1>4, <1>7, <1>8 DEF Window, new

\* An empty one.
LEMMA WindowEmpty == ASSUME NEW S, NEW u \in Nat PROVE Window(<<>>, S, u, u)
<1>1. u - u = 0
  OBVIOUS
<1>2. <<>> = [i \in 1..0 |-> S[u + i]]
  OBVIOUS
<1> QED BY <1>1, <1>2 DEF Window

-----------------------------------------------------------------------------

-----------------------------------------------------------------------------
(* A step of a socket: nothing, a message sent, a message taken. *)

UpSame(q) == chan'[<<q, 0>>] = chan[<<q, 0>>] /\ U(q)' = U(q) /\ V(q)' = V(q)
UpSent(q) == chan'[<<q, 0>>] = Append(chan[<<q, 0>>], UpStream(conf, q)[U(q) + 1]) /\ U(q)' = U(q) + 1 /\ V(q)' = V(q)
UpTaken(q) == chan[<<q, 0>>] # <<>> /\ chan'[<<q, 0>>] = Tail(chan[<<q, 0>>]) /\ U(q)' = U(q) /\ V(q)' = V(q) + 1
UpMoves(q) == UpSame(q) \/ UpSent(q) \/ UpTaken(q)
DownSame(q) == chan'[<<0, q>>] = chan[<<0, q>>] /\ Y(q)' = Y(q) /\ W(q)' = W(q)
DownSent(q) == chan'[<<0, q>>] = Append(chan[<<0, q>>], DownStream(conf, q)[Y(q) + 1]) /\ Y(q)' = Y(q) + 1 /\ W(q)' = W(q)
DownTaken(q) == chan[<<0, q>>] # <<>> /\ chan'[<<0, q>>] = Tail(chan[<<0, q>>]) /\ Y(q)' = Y(q) /\ W(q)' = W(q) + 1
DownMoves(q) == DownSame(q) \/ DownSent(q) \/ DownTaken(q)
OverSame(q) == q # 1 => chan'[<<q - 1, q>>] = chan[<<q - 1, q>>] /\ X(q - 1)' = X(q - 1) /\ X(q)' = X(q)
OverSent(q) ==
  q # 1 => /\ chan'[<<q - 1, q>>] = Append(chan[<<q - 1, q>>], OverStream(conf, q)[X(q - 1) + 1])
           /\ X(q - 1)' = X(q - 1) + 1 /\ X(q)' = X(q)
OverTaken(q) ==
  q # 1 => /\ chan[<<q - 1, q>>] # <<>> /\ chan'[<<q - 1, q>>] = Tail(chan[<<q - 1, q>>])
           /\ X(q - 1)' = X(q - 1) /\ X(q)' = X(q) + 1
OverMoves(q) == OverSame(q) \/ OverSent(q) \/ OverTaken(q)

\* Each keeps the window from a sender to party 0.
LEMMA UpKept == ASSUME NEW q, UpOk(q), conf' = conf, UpMoves(q) PROVE UpOk(q)'
<1> DEFINE ch == chan[<<q, 0>>]
           S == UpStream(conf, q)
           v == V(q)
           u == U(q)
<1>1. Window(ch, S, v, u)
  BY DEF UpOk
<1>2. S' = S
  OBVIOUS
<1>3. CASE UpSame(q)
  BY <1>1, <1>2, <1>3 DEF UpSame, UpOk
<1>4. CASE UpSent(q)
  <2>1. ch' = Append(ch, S[u + 1]) /\ u' = u + 1 /\ v' = v
    BY <1>4 DEF UpSent
  <2>2. Window(Append(ch, S[u + 1]), S, v, u + 1)
    <3> HIDE DEF ch, S, v, u
    <3> QED BY <1>1, WindowSends
  <2>3. Window(ch', S', v', u')
    BY <1>2, <2>1, <2>2
  <2> QED BY <2>3 DEF UpOk
<1>5. CASE UpTaken(q)
  <2>1. ch # <<>> /\ ch' = Tail(ch) /\ u' = u /\ v' = v + 1
    BY <1>5 DEF UpTaken
  <2>2. Window(Tail(ch), S, v + 1, u)
    <3> HIDE DEF ch, S, v, u
    <3> QED BY <1>1, <2>1, WindowTakes
  <2>3. Window(ch', S', v', u')
    BY <1>2, <2>1, <2>2
  <2> QED BY <2>3 DEF UpOk
<1> QED BY <1>3, <1>4, <1>5 DEF UpMoves

\* Each keeps the window from party 0 to a sender.
LEMMA DownKept == ASSUME NEW q, DownOk(q), conf' = conf, DownMoves(q) PROVE DownOk(q)'
<1> DEFINE ch == chan[<<0, q>>]
           S == DownStream(conf, q)
           v == W(q)
           u == Y(q)
<1>1. Window(ch, S, v, u)
  BY DEF DownOk
<1>2. S' = S
  OBVIOUS
<1>3. CASE DownSame(q)
  BY <1>1, <1>2, <1>3 DEF DownSame, DownOk
<1>4. CASE DownSent(q)
  <2>1. ch' = Append(ch, S[u + 1]) /\ u' = u + 1 /\ v' = v
    BY <1>4 DEF DownSent
  <2>2. Window(Append(ch, S[u + 1]), S, v, u + 1)
    <3> HIDE DEF ch, S, v, u
    <3> QED BY <1>1, WindowSends
  <2>3. Window(ch', S', v', u')
    BY <1>2, <2>1, <2>2
  <2> QED BY <2>3 DEF DownOk
<1>5. CASE DownTaken(q)
  <2>1. ch # <<>> /\ ch' = Tail(ch) /\ u' = u /\ v' = v + 1
    BY <1>5 DEF DownTaken
  <2>2. Window(Tail(ch), S, v + 1, u)
    <3> HIDE DEF ch, S, v, u
    <3> QED BY <1>1, <2>1, WindowTakes
  <2>3. Window(ch', S', v', u')
    BY <1>2, <2>1, <2>2
  <2> QED BY <2>3 DEF DownOk
<1> QED BY <1>3, <1>4, <1>5 DEF DownMoves

\* Each keeps the window from a sender to the next.
LEMMA OverKept == ASSUME NEW q, OverOk(q), conf' = conf, OverMoves(q) PROVE OverOk(q)'
<1> DEFINE ch == chan[<<q - 1, q>>]
           S == OverStream(conf, q)
           v == X(q)
           u == X(q - 1)
<1> SUFFICES ASSUME q # 1 PROVE Window(ch', S', v', u')
  BY DEF OverOk
<1>1. Window(ch, S, v, u)
  BY DEF OverOk
<1>2. S' = S
  OBVIOUS
<1>3. CASE OverSame(q)
  <2>1. ch' = ch /\ u' = u /\ v' = v
    BY <1>3 DEF OverSame
  <2> QED BY <1>1, <1>2, <2>1
<1>4. CASE OverSent(q)
  <2>1. ch' = Append(ch, S[u + 1]) /\ u' = u + 1 /\ v' = v
    BY <1>4 DEF OverSent
  <2>2. Window(Append(ch, S[u + 1]), S, v, u + 1)
    <3> HIDE DEF ch, S, v, u
    <3> QED BY <1>1, WindowSends
  <2> QED BY <1>2, <2>1, <2>2
<1>5. CASE OverTaken(q)
  <2>1. ch # <<>> /\ ch' = Tail(ch) /\ u' = u /\ v' = v + 1
    BY <1>5 DEF OverTaken
  <2>2. Window(Tail(ch), S, v + 1, u)
    <3> HIDE DEF ch, S, v, u
    <3> QED BY <1>1, <2>1, WindowTakes
  <2> QED BY <1>2, <2>1, <2>2
<1> QED BY <1>3, <1>4, <1>5 DEF OverMoves

\* The other sockets are as they were.
RestSame == chan' = [d \in Party \X Party |-> chan'[d]] /\ \A d \in (Party \X Party) \ Used : chan'[d] = chan[d]

\* So all sockets keep their windows.
LEMMA SocketsKept ==
  ASSUME Sockets, conf' = conf, RestSame, \A q \in Sender : UpMoves(q) /\ DownMoves(q) /\ OverMoves(q)
  PROVE Sockets'
<1>1. \A q \in Sender : UpOk(q) /\ DownOk(q) /\ OverOk(q)
  BY DEF Sockets
<1>2. ASSUME NEW q \in Sender PROVE (UpOk(q) /\ DownOk(q) /\ OverOk(q))'
  BY <1>1, <1>2, UpKept, DownKept, OverKept
<1>3. \A d \in (Party \X Party) \ Used : chan'[d] = <<>>
  BY DEF Sockets, RestSame
<1>4. chan' = [d \in Party \X Party |-> chan'[d]]
  BY DEF RestSame
<1>5. DOMAIN chan' = Party \X Party
  BY <1>4
<1> QED BY <1>2, <1>3, <1>4, <1>5 DEF Sockets

-----------------------------------------------------------------------------
(* Which counters a step leaves alone, and what a sender's steps do to the sockets. *)

Alone(p) == conf' = conf /\ \A r \in Party \ {p} : pc'[r] = pc[r] /\ phase'[r] = phase[r]

\* A party that stays where it is.
LEMMA Still ==
  ASSUME NEW p, conf' = conf, pc'[p] = pc[p], phase'[p] = phase[p]
  PROVE U(p)' = U(p) /\ X(p)' = X(p) /\ W(p)' = W(p)
<1>1. U(p)' = U(p)
  BY DEF U
<1>2. X(p)' = X(p)
  BY DEF X
<1>3. W(p)' = W(p)
  BY <1>2 DEF W
<1> QED BY <1>1, <1>2, <1>3

\* Party 0 staying where it is, and with what it has looked up.
LEMMA Still0 ==
  ASSUME NEW q, conf' = conf, pc'[0] = pc[0], phase'[0] = phase[0], asked'[q] = asked[q], learned'[q] = learned[q]
  PROVE V(q)' = V(q) /\ Y(q)' = Y(q)
<1>1. X(0)' = X(0)
  BY DEF X
<1> QED BY <1>1 DEF V, Y

\* A sender's step moves no other party.
LEMMA SenderFrame ==
  ASSUME NEW p \in Sender, Alone(p), asked' = asked, learned' = learned
  PROVE /\ \A r \in Sender \ {p} : U(r)' = U(r) /\ W(r)' = W(r)
        /\ \A r \in Party \ {p} : X(r)' = X(r)
        /\ \A r \in Sender : V(r)' = V(r) /\ Y(r)' = Y(r)
<1>1. \A r \in Party \ {p} : U(r)' = U(r) /\ X(r)' = X(r) /\ W(r)' = W(r)
  <2>1. ASSUME NEW r \in Party \ {p} PROVE U(r)' = U(r) /\ X(r)' = X(r) /\ W(r)' = W(r)
    <3>1. conf' = conf /\ pc'[r] = pc[r] /\ phase'[r] = phase[r]
      BY DEF Alone
    <3> QED BY <3>1, Still
  <2> QED BY <2>1
<1>2. 0 \in Party \ {p} /\ Sender \in SUBSET Party
  BY Parties
<1>3. ASSUME NEW r \in Sender PROVE V(r)' = V(r) /\ Y(r)' = Y(r)
  <2>1. conf' = conf /\ pc'[0] = pc[0] /\ phase'[0] = phase[0] /\ asked'[r] = asked[r] /\ learned'[r] = learned[r]
    BY <1>2 DEF Alone
  <2> QED BY <2>1, Still0
<1> QED BY <1>1, <1>2, <1>3

\* The pairs a sender has sockets for.
LEMMA PairsAre ==
  ASSUME NEW q \in Sender
  PROVE /\ <<q, 0>> \in Party \X Party /\ <<0, q>> \in Party \X Party /\ <<q - 1, q>> \in Party \X Party
        /\ <<q, 0>> \in Used /\ <<0, q>> \in Used /\ <<q - 1, q>> \in Used
        /\ q - 1 \in Party /\ q # 0 /\ q \in Nat /\ q >= 1 /\ (q # 1 => q - 1 \in Sender)
        /\ (q < N - 1 => q + 1 \in Sender /\ (q + 1) - 1 = q /\ q + 1 # 1)
        /\ q <= N - 1 /\ (q # N - 1 => q < N - 1)
<1>1. q \in Party /\ q - 1 \in Party /\ q # 0 /\ q \in Nat /\ 0 \in Party /\ N \in Nat /\ N >= 2
  BY SenderIs, Parties
<1>2. q <= N - 1 /\ q >= 1
  BY <1>1 DEF Party
<1>3. q # 1 => q - 1 \in Sender
  BY <1>1 DEF Sender
<1>4. q < N - 1 => q + 1 \in Sender /\ (q + 1) - 1 = q /\ q + 1 # 1
  BY <1>1 DEF Sender, Party
<1>5. <<q, 0>> \in Used /\ <<0, q>> \in Used /\ <<q - 1, q>> \in Used
  BY DEF Used
<1> QED BY <1>1, <1>2, <1>3, <1>4, <1>5

\* No two of the sockets are the same, but party 0's to party 1.
LEMMA Apart ==
  ASSUME NEW q \in Sender, NEW r \in Sender
  PROVE /\ <<q, 0>> # <<0, r>> /\ <<q, 0>> # <<r - 1, r>>
        /\ (q # r => <<q, 0>> # <<r, 0>> /\ <<0, q>> # <<0, r>> /\ <<q - 1, q>> # <<r - 1, r>>)
        /\ (r # 1 => <<0, q>> # <<r - 1, r>>)
<1>1. q # 0 /\ r # 0 /\ q \in Nat /\ r \in Nat
  BY PairsAre
<1>2. r # 1 => r - 1 # 0
  BY <1>1
<1> QED BY <1>1, <1>2

\* A change of one socket.
LEMMA ChanExcept ==
  ASSUME NEW ch, ch = [d \in Party \X Party |-> ch[d]], NEW a \in Party \X Party, NEW e, NEW new, new = [ch EXCEPT ![a] = e]
  PROVE new = [d \in Party \X Party |-> new[d]] /\ new[a] = e /\ \A d \in (Party \X Party) \ {a} : new[d] = ch[d]
<1> DEFINE D == Party \X Party
<1>1. ch = [d \in D |-> ch[d]] /\ a \in D
  OBVIOUS
<1> HIDE DEF D
<1>2. new = [d \in D |-> new[d]] /\ new[a] = e /\ \A d \in D \ {a} : new[d] = ch[d]
  BY <1>1
<1> QED BY <1>2 DEF D

\* A step that leaves all sockets and counters alone.
LEMMA SocketsStill ==
  ASSUME Sockets, conf' = conf, chan' = chan,
         \A q \in Sender : U(q)' = U(q) /\ V(q)' = V(q) /\ W(q)' = W(q) /\ Y(q)' = Y(q),
         \A p \in Party : X(p)' = X(p)
  PROVE Sockets'
<1>1. RestSame
  <2>1. chan = [d \in Party \X Party |-> chan[d]]
    BY DEF Sockets
  <2> QED BY <2>1 DEF RestSame
<1>2. ASSUME NEW q \in Sender PROVE UpMoves(q) /\ DownMoves(q) /\ OverMoves(q)
  <2>1. q \in Party /\ q - 1 \in Party
    BY SenderIs
  <2>2. UpSame(q)
    BY DEF UpSame
  <2>3. DownSame(q)
    BY DEF DownSame
  <2>4. OverSame(q)
    BY <2>1 DEF OverSame
  <2> QED BY <2>2, <2>3, <2>4 DEF UpMoves, DownMoves, OverMoves
<1> QED BY <1>1, <1>2, SocketsKept

\* A sender sends party 0 the next message of its stream.
LEMMA SenderSends ==
  ASSUME Sockets, NEW p \in Sender, Alone(p), asked' = asked, learned' = learned, NEW m, Send(p, 0, m),
         m = UpStream(conf, p)[U(p) + 1], U(p)' = U(p) + 1, W(p)' = W(p), X(p)' = X(p)
  PROVE Sockets'
<1> DEFINE a == <<p, 0>>
<1>1. /\ \A r \in Sender \ {p} : U(r)' = U(r) /\ W(r)' = W(r)
      /\ \A r \in Party \ {p} : X(r)' = X(r)
      /\ \A r \in Sender : V(r)' = V(r) /\ Y(r)' = Y(r)
  BY SenderFrame
<1>2. a \in Party \X Party /\ a \in Used
  BY PairsAre
<1>3. chan = [d \in Party \X Party |-> chan[d]]
  BY DEF Sockets
<1>4. chan' = [chan EXCEPT ![a] = Append(chan[a], m)]
  BY DEF Send
<1>5. /\ chan' = [d \in Party \X Party |-> chan'[d]] /\ chan'[a] = Append(chan[a], m)
      /\ \A d \in (Party \X Party) \ {a} : chan'[d] = chan[d]
  BY <1>2, <1>3, <1>4, ChanExcept
<1>6. RestSame
  BY <1>2, <1>5 DEF RestSame
<1>7. ASSUME NEW q \in Sender PROVE UpMoves(q) /\ DownMoves(q) /\ OverMoves(q)
  <2>1. /\ <<q, 0>> \in Party \X Party /\ <<0, q>> \in Party \X Party /\ <<q - 1, q>> \in Party \X Party
        /\ q \in Party /\ q - 1 \in Party
    BY PairsAre, SenderIs
  <2>2. <<0, q>> # a /\ <<q - 1, q>> # a /\ (q # p => <<q, 0>> # a)
    BY Apart
  <2>3. chan'[<<0, q>>] = chan[<<0, q>>] /\ chan'[<<q - 1, q>>] = chan[<<q - 1, q>>] /\ (q # p => chan'[<<q, 0>>] = chan[<<q, 0>>])
    BY <1>5, <2>1, <2>2
  <2>4. W(q)' = W(q) /\ X(q)' = X(q) /\ X(q - 1)' = X(q - 1) /\ V(q)' = V(q) /\ Y(q)' = Y(q)
    BY <1>1, <2>1
  <2>5. DownSame(q)
    BY <2>3, <2>4 DEF DownSame
  <2>6. OverSame(q)
    BY <2>3, <2>4 DEF OverSame
  <2>7. UpSame(q) \/ UpSent(q)
    <3>1. CASE q = p
      BY <1>5, <2>4, <3>1 DEF UpSent
    <3>2. CASE q # p
      BY <1>1, <2>3, <2>4, <3>2 DEF UpSame
    <3> QED BY <3>1, <3>2
  <2> QED BY <2>5, <2>6, <2>7 DEF UpMoves, DownMoves, OverMoves
<1>8. conf' = conf
  BY DEF Alone
<1> QED BY <1>6, <1>7, <1>8, SocketsKept

\* A sender takes a message of party 0's.
LEMMA SenderTakes ==
  ASSUME Sockets, NEW p \in Sender, Alone(p), asked' = asked, learned' = learned, Waiting(0, p), Take(0, p),
         U(p)' = U(p), W(p)' = W(p) + 1, X(p)' = X(p)
  PROVE Sockets'
<1> DEFINE a == <<0, p>>
<1>1. /\ \A r \in Sender \ {p} : U(r)' = U(r) /\ W(r)' = W(r)
      /\ \A r \in Party \ {p} : X(r)' = X(r)
      /\ \A r \in Sender : V(r)' = V(r) /\ Y(r)' = Y(r)
  BY SenderFrame
<1>2. a \in Party \X Party /\ a \in Used
  BY PairsAre
<1>3. chan = [d \in Party \X Party |-> chan[d]]
  BY DEF Sockets
<1>4. chan' = [chan EXCEPT ![a] = Tail(chan[a])] /\ chan[a] # <<>>
  BY DEF Take, Waiting
<1>5. /\ chan' = [d \in Party \X Party |-> chan'[d]] /\ chan'[a] = Tail(chan[a])
      /\ \A d \in (Party \X Party) \ {a} : chan'[d] = chan[d]
  BY <1>2, <1>3, <1>4, ChanExcept
<1>6. RestSame
  BY <1>2, <1>5 DEF RestSame
<1>7. ASSUME NEW q \in Sender PROVE UpMoves(q) /\ DownMoves(q) /\ OverMoves(q)
  <2>1. /\ <<q, 0>> \in Party \X Party /\ <<0, q>> \in Party \X Party /\ <<q - 1, q>> \in Party \X Party
        /\ q \in Party /\ q - 1 \in Party
    BY PairsAre, SenderIs
  <2>2. <<q, 0>> # a /\ (q # 1 => <<q - 1, q>> # a) /\ (q # p => <<0, q>> # a)
    BY Apart
  <2>3. chan'[<<q, 0>>] = chan[<<q, 0>>] /\ (q # 1 => chan'[<<q - 1, q>>] = chan[<<q - 1, q>>]) /\ (q # p => chan'[<<0, q>>] = chan[<<0, q>>])
    BY <1>5, <2>1, <2>2
  <2>4. U(q)' = U(q) /\ X(q)' = X(q) /\ X(q - 1)' = X(q - 1) /\ V(q)' = V(q) /\ Y(q)' = Y(q)
    BY <1>1, <2>1
  <2>5. UpSame(q)
    BY <2>3, <2>4 DEF UpSame
  <2>6. OverSame(q)
    BY <2>3, <2>4 DEF OverSame
  <2>7. DownSame(q) \/ DownTaken(q)
    <3>1. CASE q = p
      BY <1>4, <1>5, <2>4, <3>1 DEF DownTaken
    <3>2. CASE q # p
      BY <1>1, <2>3, <2>4, <3>2 DEF DownSame
    <3> QED BY <3>1, <3>2
  <2> QED BY <2>5, <2>6, <2>7 DEF UpMoves, DownMoves, OverMoves
<1>8. conf' = conf
  BY DEF Alone
<1> QED BY <1>6, <1>7, <1>8, SocketsKept

\* A sender takes a message of party 0's and answers it.
LEMMA SenderAnswers ==
  ASSUME Sockets, NEW p \in Sender, Alone(p), asked' = asked, learned' = learned, NEW m, Waiting(0, p),
         TakeAndSend(0, p, 0, m), m = UpStream(conf, p)[U(p) + 1],
         U(p)' = U(p) + 1, W(p)' = W(p) + 1, X(p)' = X(p)
  PROVE Sockets'
<1> DEFINE a == <<0, p>>
           b == <<p, 0>>
           mid == [chan EXCEPT ![a] = Tail(chan[a])]
<1>1. /\ \A r \in Sender \ {p} : U(r)' = U(r) /\ W(r)' = W(r)
      /\ \A r \in Party \ {p} : X(r)' = X(r)
      /\ \A r \in Sender : V(r)' = V(r) /\ Y(r)' = Y(r)
  BY SenderFrame
<1>2. a \in Party \X Party /\ a \in Used /\ b \in Party \X Party /\ b \in Used /\ b # a
  BY PairsAre, Apart
<1>3. chan = [d \in Party \X Party |-> chan[d]]
  BY DEF Sockets
<1>4. chan' = [mid EXCEPT ![b] = Append(mid[b], m)] /\ chan[a] # <<>>
  BY DEF TakeAndSend, Waiting
<1>40. /\ mid = [d \in Party \X Party |-> mid[d]] /\ mid[a] = Tail(chan[a])
       /\ \A d \in (Party \X Party) \ {a} : mid[d] = chan[d]
  BY <1>2, <1>3, ChanExcept
<1> HIDE DEF mid
<1>41. /\ chan' = [d \in Party \X Party |-> chan'[d]] /\ chan'[b] = Append(mid[b], m)
       /\ \A d \in (Party \X Party) \ {b} : chan'[d] = mid[d]
  BY <1>2, <1>4, <1>40, ChanExcept
<1>5. /\ chan'[a] = Tail(chan[a]) /\ chan'[b] = Append(chan[b], m)
      /\ \A d \in (Party \X Party) \ {a, b} : chan'[d] = chan[d]
  BY <1>2, <1>40, <1>41
<1>6. RestSame
  BY <1>2, <1>41, <1>5 DEF RestSame
<1>7. ASSUME NEW q \in Sender PROVE UpMoves(q) /\ DownMoves(q) /\ OverMoves(q)
  <2>1. /\ <<q, 0>> \in Party \X Party /\ <<0, q>> \in Party \X Party /\ <<q - 1, q>> \in Party \X Party
        /\ q \in Party /\ q - 1 \in Party
    BY PairsAre, SenderIs
  <2>2. /\ <<q, 0>> # a /\ (q # 1 => <<q - 1, q>> # a) /\ (q # p => <<0, q>> # a)
        /\ <<0, q>> # b /\ <<q - 1, q>> # b /\ (q # p => <<q, 0>> # b)
    BY Apart
  <2>3. /\ (q # 1 => chan'[<<q - 1, q>>] = chan[<<q - 1, q>>])
        /\ (q # p => chan'[<<0, q>>] = chan[<<0, q>>] /\ chan'[<<q, 0>>] = chan[<<q, 0>>])
    BY <1>5, <2>1, <2>2
  <2>4. X(q)' = X(q) /\ X(q - 1)' = X(q - 1) /\ V(q)' = V(q) /\ Y(q)' = Y(q)
    BY <1>1, <2>1
  <2>6. OverSame(q)
    BY <2>3, <2>4 DEF OverSame
  <2>7. DownSame(q) \/ DownTaken(q)
    <3>1. CASE q = p
      BY <1>4, <1>5, <2>4, <3>1 DEF DownTaken
    <3>2. CASE q # p
      BY <1>1, <2>3, <2>4, <3>2 DEF DownSame
    <3> QED BY <3>1, <3>2
  <2>8. UpSame(q) \/ UpSent(q)
    <3>1. CASE q = p
      BY <1>5, <2>4, <3>1 DEF UpSent
    <3>2. CASE q # p
      BY <1>1, <2>3, <2>4, <3>2 DEF UpSame
    <3> QED BY <3>1, <3>2
  <2> QED BY <2>6, <2>7, <2>8 DEF UpMoves, DownMoves, OverMoves
<1>8. conf' = conf
  BY DEF Alone
<1> QED BY <1>6, <1>7, <1>8, SocketsKept

\* What is handed to a sender, it hands on: from party 0 to party 1 in the stream of
\* party 0, and not by the last party.
LEMMA SenderPasses ==
  ASSUME Sockets, NEW p \in Sender, Alone(p), asked' = asked, learned' = learned, NEW m, Waiting(p - 1, p),
         \/ p < N - 1 /\ TakeAndSend(p - 1, p, p + 1, m) /\ m = OverStream(conf, p + 1)[X(p) + 1]
         \/ p = N - 1 /\ Take(p - 1, p),
         U(p)' = U(p), W(p)' = W(p) + Second(p, 1), X(p)' = X(p) + 1
  PROVE Sockets'
<1> DEFINE a == <<p - 1, p>>
           b == <<p, p + 1>>
           mid == [chan EXCEPT ![a] = Tail(chan[a])]
<1>1. /\ \A r \in Sender \ {p} : U(r)' = U(r) /\ W(r)' = W(r)
      /\ \A r \in Party \ {p} : X(r)' = X(r)
      /\ \A r \in Sender : V(r)' = V(r) /\ Y(r)' = Y(r)
  BY SenderFrame
<1>2. /\ a \in Party \X Party /\ a \in Used /\ p \in Nat /\ p # 0 /\ p <= N - 1 /\ (p # N - 1 => p < N - 1)
      /\ (p < N - 1 => p + 1 \in Sender /\ (p + 1) - 1 = p /\ p + 1 # 1)
  BY PairsAre
<1>20. p < N - 1 => b \in Party \X Party /\ b \in Used /\ b # a
  <2> SUFFICES ASSUME p < N - 1 PROVE b \in Party \X Party /\ b \in Used /\ b # a
    OBVIOUS
  <2>1. p + 1 \in Sender /\ (p + 1) - 1 = p
    BY <1>2
  <2>2. <<(p + 1) - 1, p + 1>> \in Party \X Party /\ <<(p + 1) - 1, p + 1>> \in Used
    BY <2>1, PairsAre
  <2> QED BY <1>2, <2>1, <2>2
<1>3. chan = [d \in Party \X Party |-> chan[d]]
  BY DEF Sockets
<1>30. chan[a] # <<>>
  BY DEF Waiting
<1>40. /\ mid = [d \in Party \X Party |-> mid[d]] /\ mid[a] = Tail(chan[a])
       /\ \A d \in (Party \X Party) \ {a} : mid[d] = chan[d]
  BY <1>2, <1>3, ChanExcept
<1>4. /\ p < N - 1 => chan' = [mid EXCEPT ![b] = Append(mid[b], m)] /\ m = OverStream(conf, p + 1)[X(p) + 1]
      /\ p = N - 1 => chan' = mid
  <2>1. N \in Nat /\ p \in Nat
    BY <1>2, Parties
  <2>2. ~(p < N - 1 /\ p = N - 1)
    BY <2>1
  <2>3. p < N - 1 => TakeAndSend(p - 1, p, p + 1, m) /\ m = OverStream(conf, p + 1)[X(p) + 1]
    BY <2>2
  <2>4. p = N - 1 => Take(p - 1, p)
    BY <2>2
  <2> QED BY <2>3, <2>4 DEF TakeAndSend, Take
<1> HIDE DEF mid
<1>5. /\ chan' = [d \in Party \X Party |-> chan'[d]] /\ chan'[a] = Tail(chan[a])
      /\ p < N - 1 => chan'[b] = Append(chan[b], m)
      /\ \A d \in (Party \X Party) \ {a} : (p < N - 1 => d # b) => chan'[d] = chan[d]
  <2>1. CASE p < N - 1
    <3>1. /\ chan' = [d \in Party \X Party |-> chan'[d]] /\ chan'[b] = Append(mid[b], m)
          /\ \A d \in (Party \X Party) \ {b} : chan'[d] = mid[d]
      BY <1>20, <1>4, <1>40, <2>1, ChanExcept
    <3> QED BY <1>2, <1>20, <1>40, <2>1, <3>1
  <2>2. CASE p = N - 1
    <3>1. chan' = mid /\ ~(p < N - 1)
      BY <1>2, <1>4, <2>2
    <3>2. \A d \in (Party \X Party) \ {a} : chan'[d] = chan[d]
      BY <1>40, <3>1
    <3>3. chan'[a] = Tail(chan[a]) /\ chan' = [d \in Party \X Party |-> chan'[d]]
      BY <1>40, <3>1
    <3> QED BY <3>1, <3>2, <3>3
  <2> QED BY <1>2, <2>1, <2>2
<1>6. RestSame
  <2>1. ASSUME NEW d \in (Party \X Party) \ Used PROVE chan'[d] = chan[d]
    BY <1>2, <1>20, <1>5
  <2> QED BY <1>5, <2>1 DEF RestSame
<1>7. ASSUME NEW q \in Sender PROVE UpMoves(q) /\ DownMoves(q) /\ OverMoves(q)
  <2>1. /\ <<q, 0>> \in Party \X Party /\ <<0, q>> \in Party \X Party /\ <<q - 1, q>> \in Party \X Party
        /\ q \in Party /\ q - 1 \in Party /\ q # 0 /\ q \in Nat /\ (q # 1 => q - 1 \in Sender)
    BY PairsAre, SenderIs
  <2>2. V(q)' = V(q) /\ Y(q)' = Y(q) /\ U(q)' = U(q)
    BY <1>1
  <2>3. <<q, 0>> # a /\ <<q, 0>> # b /\ <<0, q>> # b
    BY <1>2, <2>1
  <2>4. UpSame(q)
    <3>1. chan'[<<q, 0>>] = chan[<<q, 0>>]
      BY <1>5, <2>1, <2>3
    <3> QED BY <2>2, <3>1 DEF UpSame
  <2>5. DownSame(q) \/ DownTaken(q)
    <3>1. CASE q = p /\ p = 1
      <4>1. a = <<0, q>> /\ Second(p, 1) = 1
        BY <3>1 DEF Second
      <4> QED BY <1>30, <1>5, <2>2, <3>1, <4>1 DEF DownTaken
    <3>2. CASE q # p \/ p # 1
      <4>1. <<0, q>> # a
        BY <1>2, <2>1, <3>2
      <4>2. chan'[<<0, q>>] = chan[<<0, q>>]
        BY <1>5, <2>1, <2>3, <4>1
      <4>3. W(q)' = W(q)
        <5>1. CASE q # p
          BY <1>1, <5>1
        <5>2. CASE q = p
          <6>1. Second(p, 1) = 0
            BY <3>2, <5>2 DEF Second
          <6>2. W(p) \in Int \/ W(p)' = W(p)
            <7>1. DownOk(q)
              BY DEF Sockets
            <7>2. W(q) \in Nat
              BY <7>1 DEF DownOk, Window
            <7> QED BY <5>2, <7>2
          <6> QED BY <5>2, <6>1, <6>2
        <5> QED BY <5>1, <5>2
      <4> QED BY <2>2, <4>2, <4>3 DEF DownSame
    <3> QED BY <3>1, <3>2
  <2>6. OverMoves(q)
    <3>1. CASE q = 1
      BY <3>1 DEF OverMoves, OverSame
    <3>2. CASE q # 1 /\ q = p
      <4>1. X(q - 1)' = X(q - 1)
        <5>1. q - 1 # p
          BY <1>2, <3>2
        <5> QED BY <1>1, <2>1, <5>1
      <4>2. OverTaken(q)
        BY <1>30, <1>5, <3>2, <4>1 DEF OverTaken
      <4> QED BY <4>2 DEF OverMoves
    <3>3. CASE q # 1 /\ q # p /\ q - 1 = p
      <4>1. p < N - 1 /\ q = p + 1
        <5>1. q <= N - 1 /\ N \in Nat
          BY PairsAre, Parties
        <5> QED BY <1>2, <2>1, <3>3, <5>1
      <4>2. X(q)' = X(q)
        BY <1>1, <2>1, <3>3
      <4>3. chan'[<<q - 1, q>>] = Append(chan[<<q - 1, q>>], OverStream(conf, q)[X(q - 1) + 1])
        BY <1>4, <1>5, <3>3, <4>1
      <4>4. X(q - 1)' = X(q - 1) + 1
        BY <3>3
      <4>5. OverSent(q)
        BY <4>2, <4>3, <4>4 DEF OverSent
      <4> QED BY <4>5 DEF OverMoves
    <3>4. CASE q # 1 /\ q # p /\ q - 1 # p
      <4>1. <<q - 1, q>> # a /\ <<q - 1, q>> # b
        BY <3>4
      <4>2. chan'[<<q - 1, q>>] = chan[<<q - 1, q>>]
        BY <1>5, <2>1, <4>1
      <4>3. X(q)' = X(q) /\ X(q - 1)' = X(q - 1)
        BY <1>1, <2>1, <3>4
      <4>4. OverSame(q)
        BY <4>2, <4>3 DEF OverSame
      <4> QED BY <4>4 DEF OverMoves
    <3> QED BY <3>1, <3>2, <3>3, <3>4
  <2> QED BY <2>4, <2>5, <2>6 DEF UpMoves, DownMoves
<1>8. conf' = conf
  BY DEF Alone
<1> QED BY <1>6, <1>7, <1>8, SocketsKept
-----------------------------------------------------------------------------
(* Party 0's steps. *)

\* They move no sender.
LEMMA FirstFrame ==
  ASSUME Alone(0)
  PROVE \A r \in Sender : U(r)' = U(r) /\ W(r)' = W(r) /\ X(r)' = X(r)
<1>1. ASSUME NEW r \in Sender PROVE U(r)' = U(r) /\ W(r)' = W(r) /\ X(r)' = X(r)
  <2>1. r \in Party \ {0}
    BY Parties
  <2>2. conf' = conf /\ pc'[r] = pc[r] /\ phase'[r] = phase[r]
    BY <2>1 DEF Alone
  <2> QED BY <2>2, Still
<1> QED BY <1>1

\* Nor what senders pass on.
LEMMA FirstOver ==
  ASSUME Alone(0), NEW q \in Sender, q # 1 => chan'[<<q - 1, q>>] = chan[<<q - 1, q>>]
  PROVE OverSame(q)
<1>1. q # 1 => q - 1 \in Sender
  BY PairsAre
<1> QED BY <1>1, FirstFrame DEF OverSame

\* Party 0 sends a sender the next message of its stream.
LEMMA FirstAsks ==
  ASSUME Sockets, NEW p \in Sender, Alone(0), NEW m, Send(0, p, m), m = DownStream(conf, p)[Y(p) + 1],
         Y(p)' = Y(p) + 1, \A r \in Sender \ {p} : Y(r)' = Y(r), \A r \in Sender : V(r)' = V(r)
  PROVE Sockets'
<1> DEFINE a == <<0, p>>
<1>1. \A r \in Sender : U(r)' = U(r) /\ W(r)' = W(r) /\ X(r)' = X(r)
  BY FirstFrame
<1>2. a \in Party \X Party /\ a \in Used
  BY PairsAre
<1>3. chan = [d \in Party \X Party |-> chan[d]]
  BY DEF Sockets
<1>4. chan' = [chan EXCEPT ![a] = Append(chan[a], m)]
  BY DEF Send
<1>5. /\ chan' = [d \in Party \X Party |-> chan'[d]] /\ chan'[a] = Append(chan[a], m)
      /\ \A d \in (Party \X Party) \ {a} : chan'[d] = chan[d]
  BY <1>2, <1>3, <1>4, ChanExcept
<1>6. RestSame
  BY <1>2, <1>5 DEF RestSame
<1>7. ASSUME NEW q \in Sender PROVE UpMoves(q) /\ DownMoves(q) /\ OverMoves(q)
  <2>1. <<q, 0>> \in Party \X Party /\ <<0, q>> \in Party \X Party /\ <<q - 1, q>> \in Party \X Party
    BY PairsAre
  <2>2. <<q, 0>> # a /\ (q # 1 => <<q - 1, q>> # a) /\ (q # p => <<0, q>> # a)
    BY Apart
  <2>3. chan'[<<q, 0>>] = chan[<<q, 0>>] /\ (q # 1 => chan'[<<q - 1, q>>] = chan[<<q - 1, q>>]) /\ (q # p => chan'[<<0, q>>] = chan[<<0, q>>])
    BY <1>5, <2>1, <2>2
  <2>4. UpSame(q)
    BY <1>1, <2>3 DEF UpSame
  <2>5. OverSame(q)
    BY <2>3, FirstOver
  <2>6. DownSame(q) \/ DownSent(q)
    <3>1. CASE q = p
      BY <1>1, <1>5, <3>1 DEF DownSent
    <3>2. CASE q # p
      BY <1>1, <2>3, <3>2 DEF DownSame
    <3> QED BY <3>1, <3>2
  <2> QED BY <2>4, <2>5, <2>6 DEF UpMoves, DownMoves, OverMoves
<1>8. conf' = conf
  BY DEF Alone
<1> QED BY <1>6, <1>7, <1>8, SocketsKept

\* Party 0 takes a message of a sender.
LEMMA FirstTakes ==
  ASSUME Sockets, NEW p \in Sender, Alone(0), Waiting(p, 0), Take(p, 0),
         V(p)' = V(p) + 1, \A r \in Sender \ {p} : V(r)' = V(r), \A r \in Sender : Y(r)' = Y(r)
  PROVE Sockets'
<1> DEFINE a == <<p, 0>>
<1>1. \A r \in Sender : U(r)' = U(r) /\ W(r)' = W(r) /\ X(r)' = X(r)
  BY FirstFrame
<1>2. a \in Party \X Party /\ a \in Used
  BY PairsAre
<1>3. chan = [d \in Party \X Party |-> chan[d]]
  BY DEF Sockets
<1>4. chan' = [chan EXCEPT ![a] = Tail(chan[a])] /\ chan[a] # <<>>
  BY DEF Take, Waiting
<1>5. /\ chan' = [d \in Party \X Party |-> chan'[d]] /\ chan'[a] = Tail(chan[a])
      /\ \A d \in (Party \X Party) \ {a} : chan'[d] = chan[d]
  BY <1>2, <1>3, <1>4, ChanExcept
<1>6. RestSame
  BY <1>2, <1>5 DEF RestSame
<1>7. ASSUME NEW q \in Sender PROVE UpMoves(q) /\ DownMoves(q) /\ OverMoves(q)
  <2>1. <<q, 0>> \in Party \X Party /\ <<0, q>> \in Party \X Party /\ <<q - 1, q>> \in Party \X Party
    BY PairsAre
  <2>2. <<0, q>> # a /\ <<q - 1, q>> # a /\ (q # p => <<q, 0>> # a)
    BY Apart
  <2>3. chan'[<<0, q>>] = chan[<<0, q>>] /\ chan'[<<q - 1, q>>] = chan[<<q - 1, q>>] /\ (q # p => chan'[<<q, 0>>] = chan[<<q, 0>>])
    BY <1>5, <2>1, <2>2
  <2>4. DownSame(q)
    BY <1>1, <2>3 DEF DownSame
  <2>5. OverSame(q)
    BY <2>3, FirstOver
  <2>6. UpSame(q) \/ UpTaken(q)
    <3>1. CASE q = p
      BY <1>1, <1>4, <1>5, <3>1 DEF UpTaken
    <3>2. CASE q # p
      BY <1>1, <2>3, <3>2 DEF UpSame
    <3> QED BY <3>1, <3>2
  <2> QED BY <2>4, <2>5, <2>6 DEF UpMoves, DownMoves, OverMoves
<1>8. conf' = conf
  BY DEF Alone
<1> QED BY <1>6, <1>7, <1>8, SocketsKept

\* Party 0 takes a message of every sender, and answers some.
LEMMA FirstTakesAll ==
  ASSUME Sockets, Alone(0), EveryoneWaits, NEW reply, TakeAll(reply), DOMAIN reply \subseteq Sender,
         \A q \in DOMAIN reply : reply[q] = DownStream(conf, q)[Y(q) + 1] /\ Y(q)' = Y(q) + 1,
         \A q \in Sender \ DOMAIN reply : Y(q)' = Y(q), \A q \in Sender : V(q)' = V(q) + 1
  PROVE Sockets'
<1> DEFINE R == DOMAIN reply
<1>1. \A r \in Sender : U(r)' = U(r) /\ W(r)' = W(r) /\ X(r)' = X(r)
  BY FirstFrame
<1>2. chan' = [c \in Party \X Party |->
                 IF c[2] = 0 /\ c[1] # 0 THEN Tail(chan[c])
                 ELSE IF c[1] = 0 /\ c[2] \in R THEN Append(chan[c], reply[c[2]]) ELSE chan[c]]
  BY DEF TakeAll
<1>3. \A q \in Sender : chan[<<q, 0>>] # <<>>
  BY DEF EveryoneWaits, Waiting
<1>30. R \subseteq Sender /\ 0 \notin Sender
  BY DEF Sender
<1> HIDE DEF R
<1>4. \A x, y \in Party : chan'[<<x, y>>] =
        IF y = 0 /\ x # 0 THEN Tail(chan[<<x, y>>])
        ELSE IF x = 0 /\ y \in R THEN Append(chan[<<x, y>>], reply[y]) ELSE chan[<<x, y>>]
  BY <1>2
<1>5. chan' = [d \in Party \X Party |-> chan'[d]]
  BY <1>2
<1>6. RestSame
  <2>1. ASSUME NEW d \in (Party \X Party) \ Used PROVE chan'[d] = chan[d]
    <3>1. PICK x \in Party, y \in Party : d = <<x, y>>
      OBVIOUS
    <3>2. Sender = Party \ {0}
      BY Parties
    <3>3. ~(y = 0 /\ x # 0)
      BY <3>1, <3>2 DEF Used
    <3>4. ~(x = 0 /\ y \in R)
      BY <1>30, <3>1 DEF Used
    <3> QED BY <1>4, <3>1, <3>3, <3>4
  <2> QED BY <1>5, <2>1 DEF RestSame
<1>7. ASSUME NEW q \in Sender PROVE UpMoves(q) /\ DownMoves(q) /\ OverMoves(q)
  <2>1. q \in Party /\ q # 0 /\ 0 \in Party /\ q - 1 \in Party /\ (q # 1 => q - 1 # 0)
    BY PairsAre, SenderIs, Parties
  <2>2. chan'[<<q, 0>>] = Tail(chan[<<q, 0>>])
    BY <1>4, <2>1
  <2>3. chan'[<<0, q>>] = IF q \in R THEN Append(chan[<<0, q>>], reply[q]) ELSE chan[<<0, q>>]
    BY <1>4, <2>1
  <2>4. q # 1 => chan'[<<q - 1, q>>] = chan[<<q - 1, q>>]
    BY <1>4, <2>1
  <2>5. UpTaken(q)
    BY <1>1, <1>3, <2>2 DEF UpTaken
  <2>6. OverSame(q)
    BY <2>4, FirstOver
  <2>7. DownSame(q) \/ DownSent(q)
    <3>1. CASE q \in R
      <4>1. reply[q] = DownStream(conf, q)[Y(q) + 1] /\ Y(q)' = Y(q) + 1
        BY <3>1 DEF R
      <4> QED BY <1>1, <2>3, <3>1, <4>1 DEF DownSent
    <3>2. CASE q \notin R
      <4>1. Y(q)' = Y(q)
        BY <3>2 DEF R
      <4> QED BY <1>1, <2>3, <3>2, <4>1 DEF DownSame
    <3> QED BY <3>1, <3>2
  <2> QED BY <2>5, <2>6, <2>7 DEF UpMoves, DownMoves, OverMoves
<1>8. conf' = conf
  BY DEF Alone
<1> QED BY <1>6, <1>7, <1>8, SocketsKept

-----------------------------------------------------------------------------
(* How the parts of the invariant move with one party. *)

\* A party that has entered the session and has not returned from it early.
Runs(p) == pc[p] # "start" /\ (phase[p] = 2 \/ pc[p] # "returned")
\* A place, phase and number of peers that a party can have next.
Fits(p, h, f, m) ==
  /\ h \in Reached(p, f) /\ f \in 1..2 /\ m \in 0..(N - 1)
  /\ f = 2 /\ conf.bad[p] = "values" => h \in {"release", "returned"}
  /\ h = "meet" => m < N - 1
  /\ h # "start"
Stepped(p, h, f, m) ==
  /\ conf' = conf /\ files' = files
  /\ pc' = [pc EXCEPT ![p] = h] /\ phase' = [phase EXCEPT ![p] = f] /\ met' = [met EXCEPT ![p] = m]

\* What can be reached is a place.
LEMMA ReachedPlaces == ASSUME NEW p, NEW f PROVE Reached(p, f) \subseteq Places
BY DEF Reached, Places

\* One party goes on, and everyone stands where he can.
LEMMA StandingMoves ==
  ASSUME Standing, NEW p \in Party, NEW h, NEW f, NEW m, Fits(p, h, f, m), Stepped(p, h, f, m)
  PROVE /\ Standing' /\ Alone(p) /\ pc'[p] = h /\ phase'[p] = f /\ met'[p] = m
<1>1. /\ pc \in [Party -> Places] /\ phase \in [Party -> 1..2] /\ met \in [Party -> 0..(N - 1)]
      /\ h \in Places /\ f \in 1..2 /\ m \in 0..(N - 1)
  BY ReachedPlaces DEF Standing, Fits
<1>2. /\ pc' \in [Party -> Places] /\ phase' \in [Party -> 1..2] /\ met' \in [Party -> 0..(N - 1)]
      /\ pc'[p] = h /\ phase'[p] = f /\ met'[p] = m
      /\ \A r \in Party \ {p} : pc'[r] = pc[r] /\ phase'[r] = phase[r] /\ met'[r] = met[r]
  BY <1>1 DEF Stepped
<1>3. conf' = conf /\ files' = files
  BY DEF Stepped
<1>4. PlaceOk(p)'
  <2>1. Reached(p, f) = Reached(p, phase[p])'
    BY <1>2 DEF Reached
  <2> QED BY <1>2, <1>3, <2>1 DEF PlaceOk, Fits
<1>5. ASSUME NEW r \in Party \ {p} PROVE PlaceOk(r)'
  <2>1. PlaceOk(r)
    BY DEF Standing
  <2>2. Reached(r, phase[r])' = Reached(r, phase[r])
    BY <1>2 DEF Reached
  <2>3. pc'[r] = pc[r] /\ phase'[r] = phase[r] /\ met'[r] = met[r]
    BY <1>2
  <2> QED BY <1>3, <2>1, <2>2, <2>3 DEF PlaceOk
<1>6. Prepared(conf.seed)' = Prepared(conf.seed)
  BY <1>3
<1>7. \A r \in Party : PlaceOk(r)'
  BY <1>4, <1>5
<1>8. Standing'
  BY <1>2, <1>3, <1>6, <1>7 DEF Standing
<1> QED BY <1>2, <1>3, <1>8 DEF Alone

\* Going on within a phase.
LEMMA StandingGoes ==
  ASSUME Standing, NEW p \in Party, NEW h, h \in Reached(p, phase[p]), h # "meet", h # "start",
         pc[p] \notin {"release", "returned"} \/ h = "returned",
         conf' = conf, files' = files, Goto(p, h), phase' = phase, met' = met
  PROVE Fits(p, h, phase[p], met[p]) /\ Stepped(p, h, phase[p], met[p])
<1>1. PlaceOk(p) /\ phase \in [Party -> 1..2] /\ met \in [Party -> 0..(N - 1)]
  BY DEF Standing
<1>2. Fits(p, h, phase[p], met[p])
  BY <1>1 DEF Fits, PlaceOk
<1>3. phase = [phase EXCEPT ![p] = phase[p]] /\ met = [met EXCEPT ![p] = met[p]]
  BY <1>1
<1> QED BY <1>2, <1>3 DEF Stepped, Goto

Held(old, new, p, s) == new = old \/ (s \in Vector /\ new = [old EXCEPT ![p] = s])

\* One party's vectors change with its place.
LEMMA HoldingMoves ==
  ASSUME Holding, NEW p \in Party, Alone(p), NEW s, Held(share, share', p, s), NEW t, Held(item, item', p, t),
         ShareOk(p)', ItemOk(p)'
  PROVE Holding'
<1>1. share \in [Party -> Vector] /\ item \in [Party -> Vector]
  BY DEF Holding
<1>2. share' \in [Party -> Vector] /\ \A r \in Party \ {p} : share'[r] = share[r]
  BY <1>1 DEF Held
<1>3. item' \in [Party -> Vector] /\ \A r \in Party \ {p} : item'[r] = item[r]
  BY <1>1 DEF Held
<1>4. ASSUME NEW r \in Party \ {p} PROVE (ShareOk(r) /\ ItemOk(r))'
  <2>1. ShareOk(r) /\ ItemOk(r)
    BY DEF Holding
  <2>2. conf' = conf /\ pc'[r] = pc[r] /\ phase'[r] = phase[r] /\ share'[r] = share[r] /\ item'[r] = item[r]
    BY <1>2, <1>3 DEF Alone
  <2>3. ShareOk(r)'
    BY <2>1, <2>2 DEF ShareOk
  <2>4. ItemOk(r)'
    BY <2>1, <2>2 DEF ItemOk
  <2> QED BY <2>3, <2>4
<1>5. \A r \in Party : (ShareOk(r) /\ ItemOk(r))'
  BY <1>4
<1> QED BY <1>2, <1>3, <1>5 DEF Holding

\* Nothing is looked up, counted or paid while party 0 stays where it is, or a party has paid already.
LEMMA LearningStays ==
  ASSUME Learning, conf' = conf, asked' = asked, learned' = learned, pc'[0] = pc[0], phase'[0] = phase[0]
  PROVE Learning'
<1>1. ASSUME NEW q \in Sender PROVE LookedUp(q)'
  <2>1. LookedUp(q)
    BY DEF Learning
  <2>2. Kinds(phase[0])' = Kinds(phase[0])
    BY DEF Kinds
  <2> QED BY <2>1, <2>2 DEF LookedUp
<1> QED BY <1>1 DEF Learning

\* The count and the sum.
LEMMA CountingStays ==
  ASSUME Counting, conf' = conf, card' = card, bits' = bits, agg' = agg, result' = result, pc'[0] = pc[0], phase'[0] = phase[0]
  PROVE Counting'
<1>1. HitsOf(conf, "PSI")' = HitsOf(conf, "PSI") /\ SumBy(conf, 0)' = SumBy(conf, 0) /\ AggOf(conf)' = AggOf(conf)
  OBVIOUS
<1> QED BY <1>1 DEF Counting

\* The scopes' files.
LEMMA PayingStays ==
  ASSUME Paying, conf' = conf, room' = room, charged' = charged, early' \subseteq Party,
         \A r \in Party : Entered(r)' = Entered(r)
  PROVE Paying'
<1>1. \A r : Scope(r)' = Scope(r)
  BY DEF Scope
<1>2. \A s : ChargedTo(s)' = ChargedTo(s)
  BY <1>1 DEF ChargedTo
<1> QED BY <1>1, <1>2 DEF Paying

\* Who runs has entered, and goes on running.
LEMMA EnteredStays ==
  ASSUME Standing, NEW p \in Party, Runs(p), NEW h, NEW f, NEW m, Fits(p, h, f, m), f = 1 => h # "returned",
         Alone(p), pc'[p] = h, phase'[p] = f
  PROVE \A r \in Party : Entered(r)' = Entered(r)
<1>1. phase[p] \in 1..2 /\ f \in 1..2 /\ h # "start"
  BY DEF Standing, Fits
<1>2. (Entered(p) <=> TRUE) /\ (Entered(p)' <=> TRUE)
  BY <1>1 DEF Runs, Entered
<1>3. Entered(p)' = Entered(p)
  BY <1>2 DEF Entered
<1>4. ASSUME NEW r \in Party \ {p} PROVE Entered(r)' = Entered(r)
  <2>1. pc'[r] = pc[r] /\ phase'[r] = phase[r]
    BY DEF Alone
  <2> QED BY <2>1 DEF Entered
<1> QED BY <1>3, <1>4

\* What a sender's step leaves to others.
Aside ==
  /\ room' = room /\ charged' = charged /\ asked' = asked /\ learned' = learned
  /\ card' = card /\ bits' = bits /\ agg' = agg /\ result' = result

\* A running sender goes on.
LEMMA SenderMoves ==
  ASSUME Standing, Holding, Learning, Counting, Paying, NEW p \in Sender, Runs(p), NEW h, NEW f, NEW m,
         Fits(p, h, f, m), Stepped(p, h, f, m), f = 1 => h # "returned", Aside, early' \subseteq Party,
         NEW s, Held(share, share', p, s), NEW t, Held(item, item', p, t), ShareOk(p)', ItemOk(p)'
  PROVE Standing' /\ Holding' /\ Learning' /\ Counting' /\ Paying'
<1>1. p \in Party /\ 0 \in Party /\ p # 0
  BY SenderIs, Parties
<1>2. Standing' /\ Alone(p) /\ pc'[p] = h /\ phase'[p] = f
  BY <1>1, StandingMoves
<1>3. conf' = conf /\ pc'[0] = pc[0] /\ phase'[0] = phase[0]
  BY <1>1, <1>2 DEF Alone
<1>4. Holding'
  BY <1>1, <1>2, HoldingMoves
<1>5. Learning'
  BY <1>3, LearningStays DEF Aside
<1>6. Counting'
  BY <1>3, CountingStays DEF Aside
<1>7. \A r \in Party : Entered(r)' = Entered(r)
  BY <1>1, <1>2, EnteredStays
<1>8. Paying'
  BY <1>3, <1>7, PayingStays DEF Aside
<1> QED BY <1>2, <1>4, <1>5, <1>6, <1>8

\* Where a sender can be.
LEMMA SenderAt ==
  ASSUME Standing, NEW q \in Sender
  PROVE /\ q \in Party /\ q # 0 /\ phase[q] \in 1..2 /\ pc[q] \in Reached(q, phase[q]) /\ Typed(conf) /\ met[q] \in 0..(N - 1)
        /\ (phase[q] = 2 /\ conf.bad[q] = "values" => pc[q] = "returned")
        /\ (phase[q] = 1 => pc[q] \in {"start", "meet", "lookup", "multiply", "product", "shuffle", "pass", "reveal", "returned"})
        /\ (phase[q] = 2 => pc[q] \in {"meet", "lookup", "lookup2", "multiply", "product", "shuffle", "pass", "shuffleItems",
                                       "passItems", "reveal", "bits", "returned"})
<1>1. q \in Party /\ q # 0
  BY SenderIs
<1>2. PlaceOk(q) /\ phase[q] \in 1..2 /\ met[q] \in 0..(N - 1)
  BY <1>1 DEF Standing
<1>3. Typed(conf)
  BY ConfsAssumption DEF Standing
<1>4. pc[q] \in Reached(q, phase[q])
  BY <1>2 DEF PlaceOk
<1>5. phase[q] = 1 => pc[q] \in {"start", "meet", "lookup", "multiply", "product", "shuffle", "pass", "reveal", "returned"}
  BY <1>1, <1>4 DEF Reached
<1>6. phase[q] = 2 => pc[q] \in {"meet", "lookup", "lookup2", "multiply", "product", "shuffle", "pass", "shuffleItems",
                                 "passItems", "reveal", "bits", "returned"}
  BY <1>1, <1>4 DEF Reached
<1>7. phase[q] = 2 /\ conf.bad[q] = "values" => pc[q] = "returned"
  BY <1>2, <1>6 DEF PlaceOk
<1> QED BY <1>1, <1>2, <1>3, <1>4, <1>5, <1>6, <1>7

\* A sender masks its input of the multiplication.
LEMMA SendMaskedKeeps == ASSUME Inv, NEW q \in Sender, SendMasked(q) PROVE Inv'
<1>0. Standing /\ Sockets /\ Holding /\ Learning /\ Counting /\ Paying
  BY DEF Inv
<1> DEFINE m == MaskedInput(files.triple, q, share[q])
<1>1. /\ pc[q] = "multiply" /\ Goto(q, "product") /\ Send(q, 0, m)
      /\ conf' = conf /\ files' = files /\ early' = early /\ phase' = phase /\ met' = met /\ share' = share /\ item' = item /\ Aside
  BY DEF SendMasked, At, history, vectors, found, Aside
<1>2. q \in Party /\ q # 0 /\ phase[q] \in 1..2 /\ Typed(conf) /\ ShareOk(q) /\ ItemOk(q) /\ files = Prepared(conf.seed)
  BY <1>0, SenderAt DEF Holding, Standing
<1>3. "product" \in Reached(q, phase[q])
  BY <1>2 DEF Reached
<1>4. Fits(q, "product", phase[q], met[q]) /\ Stepped(q, "product", phase[q], met[q])
  BY <1>0, <1>1, <1>2, <1>3, StandingGoes
<1>5. Alone(q) /\ pc'[q] = "product" /\ phase'[q] = phase[q]
  BY <1>0, <1>2, <1>4, StandingMoves
<1>6. ShareOk(q)' /\ ItemOk(q)'
  BY <1>1, <1>2, <1>5 DEF ShareOk, ItemOk
<1>7. early' \subseteq Party /\ Held(share, share', q, share) /\ Held(item, item', q, item) /\ Runs(q)
  BY <1>0, <1>1 DEF Held, Paying, Runs
<1>8. Standing' /\ Holding' /\ Learning' /\ Counting' /\ Paying'
  BY <1>0, <1>1, <1>4, <1>6, <1>7, SenderMoves
<1>9. m = UpStream(conf, q)[U(q) + 1]
  <2> DEFINE x == MaskedInput(TripleOf(conf), q, DataOf(conf, KindAt(phase[q]))[q])
  <2>1. m = x
    <3>1. files.triple = TripleOf(conf)
      BY <1>2, TripleFits
    <3>2. share[q] = DataOf(conf, KindAt(phase[q]))[q]
      BY <1>1, <1>2 DEF ShareOk
    <3> QED BY <3>1, <3>2
  <2>2. U(q) + 1 = IF phase[q] = 1 THEN 2 ELSE 7
    BY <1>1, <1>2 DEF U, SentUp
  <2>3. phase[q] = 1 => UpStream(conf, q)[2] = x
    BY DEF UpStream, KindAt
  <2>4. phase[q] # 1 => UpStream(conf, q)[7] = x
    BY DEF UpStream, KindAt
  <2> HIDE DEF m, x
  <2> QED BY <2>1, <2>2, <2>3, <2>4
<1>10. U(q)' = U(q) + 1 /\ W(q)' = W(q) /\ X(q)' = X(q)
  <2>1. U(q)' = U(q) + 1
    BY <1>1, <1>2, <1>5 DEF U, SentUp
  <2>2. X(q)' = X(q)
    BY <1>1, <1>2, <1>5 DEF X, Passed
  <2>3. W(q)' = W(q)
    BY <1>1, <1>2, <1>5, <2>2 DEF W, Answered
  <2> QED BY <2>1, <2>2, <2>3
<1>11. Sockets'
  <2> HIDE DEF m
  <2>1. asked' = asked /\ learned' = learned
    BY <1>1 DEF Aside
  <2> QED BY <1>0, <1>1, <1>5, <1>9, <1>10, <2>1, SenderSends
<1> QED BY <1>8, <1>11 DEF Inv

-----------------------------------------------------------------------------
(* What is taken from a socket is next in its stream. *)

\* Of party 0.
LEMMA HeadDown ==
  ASSUME Sockets, NEW q \in Sender, Waiting(0, q)
  PROVE First(0, q) = DownStream(conf, q)[W(q) + 1] /\ W(q) \in Nat /\ W(q) < Y(q)
<1> DEFINE ch == chan[<<0, q>>]
           S == DownStream(conf, q)
<1>1. Window(ch, S, W(q), Y(q)) /\ ch # <<>>
  BY DEF Sockets, DownOk, Waiting
<1> HIDE DEF ch, S
<1>2. W(q) < Y(q) /\ Head(ch) = S[W(q) + 1] /\ W(q) \in Nat
  BY <1>1, WindowTakes DEF Window
<1> QED BY <1>2 DEF ch, S, First

\* Of a sender.
LEMMA HeadUp ==
  ASSUME Sockets, NEW q \in Sender, Waiting(q, 0)
  PROVE First(q, 0) = UpStream(conf, q)[V(q) + 1] /\ V(q) < U(q) /\ V(q) \in Nat /\ U(q) \in Nat
<1> DEFINE ch == chan[<<q, 0>>]
           S == UpStream(conf, q)
<1>1. Window(ch, S, V(q), U(q)) /\ ch # <<>>
  BY DEF Sockets, UpOk, Waiting
<1> HIDE DEF ch, S
<1>2. V(q) < U(q) /\ Head(ch) = S[V(q) + 1] /\ V(q) \in Nat /\ U(q) \in Nat
  BY <1>1, WindowTakes DEF Window
<1> QED BY <1>2 DEF ch, S, First

\* Of the sender before.
LEMMA HeadOver ==
  ASSUME Sockets, NEW q \in Sender, q # 1, Waiting(q - 1, q)
  PROVE First(q - 1, q) = OverStream(conf, q)[X(q) + 1] /\ X(q) < X(q - 1)
<1> DEFINE ch == chan[<<q - 1, q>>]
           S == OverStream(conf, q)
<1>1. Window(ch, S, X(q), X(q - 1)) /\ ch # <<>>
  BY DEF Sockets, OverOk, Waiting
<1> HIDE DEF ch, S
<1>2. X(q) < X(q - 1) /\ Head(ch) = S[X(q) + 1]
  BY <1>1, WindowTakes
<1> QED BY <1>2 DEF ch, S, First

\* The masked total makes the shares of the product.
LEMMA TakeProductKeeps == ASSUME Inv, NEW q \in Sender, TakeProduct(q) PROVE Inv'
<1>0. Standing /\ Sockets /\ Holding /\ Learning /\ Counting /\ Paying
  BY DEF Inv
<1> DEFINE sum == First(0, q)
           s == Product(files.triple, q, sum)
           kind == KindAt(phase[q])
<1>1. /\ pc[q] = "product" /\ Waiting(0, q) /\ Take(0, q) /\ Goto(q, "shuffle") /\ share' = [share EXCEPT ![q] = s]
      /\ conf' = conf /\ files' = files /\ early' = early /\ phase' = phase /\ met' = met /\ item' = item /\ Aside
  BY DEF TakeProduct, At, history, found, Aside
<1>2. q \in Party /\ q # 0 /\ phase[q] \in 1..2 /\ Typed(conf) /\ ShareOk(q) /\ ItemOk(q) /\ files = Prepared(conf.seed)
  BY <1>0, SenderAt DEF Holding, Standing
<1>20. kind \in {"PSI", "PSICS1"} /\ kind = IF phase[q] = 1 THEN "PSI" ELSE "PSICS1"
  BY DEF KindAt
<1>21. sum = MaskOf(conf, kind)
  <2>1. sum = DownStream(conf, q)[W(q) + 1]
    BY <1>0, <1>1, HeadDown
  <2>2. W(q) + 1 = IF phase[q] = 1 THEN 2 ELSE IF q = 1 THEN 6 ELSE 5
    <3>1. X(q) = IF phase[q] = 1 THEN 0 ELSE 1
      BY <1>1, <1>2 DEF X, Passed
    <3>2. Answered(phase[q], pc[q], conf.bad[q]) = IF phase[q] = 1 THEN 1 ELSE 4
      BY <1>1, <1>2 DEF Answered
    <3> QED BY <3>1, <3>2 DEF W, Second
  <2>3. phase[q] = 1 => DownStream(conf, q)[2] = MaskOf(conf, kind)
    BY <1>20 DEF DownStream
  <2>4. phase[q] # 1 /\ q = 1 => DownStream(conf, q)[6] = MaskOf(conf, kind)
    BY <1>20 DEF DownStream
  <2>5. phase[q] # 1 /\ q # 1 => DownStream(conf, q)[5] = MaskOf(conf, kind)
    BY <1>20 DEF DownStream
  <2> HIDE DEF sum, kind
  <2> QED BY <2>1, <2>2, <2>3, <2>4, <2>5
<1>22. s = ProdOf(conf, kind)[q] /\ s \in Vector
  <2>1. files.triple = TripleOf(conf)
    BY <1>2, TripleFits
  <2>2. /\ ProdOf(conf, kind) \in [Party -> Vector]
        /\ ProdOf(conf, kind)[q] = Product(TripleOf(conf), q, MaskOf(conf, kind))
    <3> HIDE DEF kind
    <3> QED BY <1>2, <1>20, ProdTyped
  <2> HIDE DEF kind, sum
  <2> QED BY <1>2, <1>21, <2>1, <2>2
<1> HIDE DEF s, sum
<1>3. "shuffle" \in Reached(q, phase[q])
  BY <1>2 DEF Reached
<1>4. Fits(q, "shuffle", phase[q], met[q]) /\ Stepped(q, "shuffle", phase[q], met[q])
  BY <1>0, <1>1, <1>2, <1>3, StandingGoes
<1>5. Alone(q) /\ pc'[q] = "shuffle" /\ phase'[q] = phase[q]
  BY <1>0, <1>2, <1>4, StandingMoves
<1>50. share'[q] = s /\ conf' = conf
  BY <1>0, <1>1, <1>2 DEF Holding
<1>6. ShareOk(q)' /\ ItemOk(q)'
  BY <1>1, <1>2, <1>22, <1>5, <1>50 DEF ShareOk, ItemOk, KindAt
<1>7. early' \subseteq Party /\ Held(share, share', q, s) /\ Held(item, item', q, item) /\ Runs(q)
  BY <1>0, <1>1, <1>22 DEF Held, Paying, Runs
<1>8. Standing' /\ Holding' /\ Learning' /\ Counting' /\ Paying'
  BY <1>0, <1>1, <1>4, <1>6, <1>7, SenderMoves
<1>10. U(q)' = U(q) /\ W(q)' = W(q) + 1 /\ X(q)' = X(q)
  <2>1. U(q)' = U(q)
    BY <1>1, <1>2, <1>5 DEF U, SentUp
  <2>2. X(q)' = X(q)
    BY <1>1, <1>2, <1>5 DEF X, Passed
  <2>3. Second(q, X(q)) \in Int
    <3>1. X(q) \in Int
      BY <1>1, <1>2 DEF X, Passed
    <3> QED BY <3>1 DEF Second
  <2>4. Answered(phase[q], pc[q], conf.bad[q])' = Answered(phase[q], pc[q], conf.bad[q]) + 1
        /\ Answered(phase[q], pc[q], conf.bad[q]) \in Int
    BY <1>1, <1>2, <1>5 DEF Answered
  <2>5. W(q)' = W(q) + 1
    <3> DEFINE a == Answered(phase[q], pc[q], conf.bad[q])
               b == Second(q, X(q))
    <3>1. a' = a + 1 /\ b' = b /\ a \in Int /\ b \in Int /\ W(q) = a + b /\ W(q)' = a' + b'
      BY <2>2, <2>3, <2>4 DEF W
    <3> HIDE DEF a, b
    <3> QED BY <3>1
  <2> QED BY <2>1, <2>2, <2>5
<1>11. Sockets'
  <2>1. asked' = asked /\ learned' = learned
    BY <1>1 DEF Aside
  <2> QED BY <1>0, <1>1, <1>5, <1>10, <2>1, SenderTakes
<1> QED BY <1>8, <1>11 DEF Inv

-----------------------------------------------------------------------------
(* The shuffles. *)

Shuffles == {"shuffle", "pass", "shuffleItems", "passItems"}
KindNow(p) == IF phase[p] = 1 THEN "PSI" ELSE IF pc[p] \in {"shuffle", "pass"} THEN "PSICS1" ELSE "PSICS2"

\* Which of the three a party is at.
LEMMA KindIs ==
  ASSUME NEW p, pc[p] \in Shuffles, phase[p] \in 1..2, phase[p] = 1 => pc[p] \in {"shuffle", "pass"},
         files = Prepared(conf.seed), Typed(conf)
  PROVE /\ KindNow(p) \in AllKinds /\ RingOf(KindNow(p)) = Ring(p) /\ Correlation(p) = CorrOf(conf, KindNow(p))
        /\ Ring(p) \in Rings /\ Fit(Ring(p), Correlation(p)) /\ JointOf(conf, KindNow(p)) \in Vector
        /\ InOf(conf, KindNow(p)) \in [Party -> Vector]
<1>1. KindNow(p) \in AllKinds
  BY DEF KindNow, AllKinds
<1>2. RingOf(KindNow(p)) = Ring(p)
  BY DEF KindNow, RingOf, Ring, At, Shuffles
<1>3. Ring(p) = IF KindNow(p) = "PSICS2" THEN "add" ELSE "xor"
  BY <1>2 DEF RingOf
<1>4. Correlation(p) = CorrOf(conf, KindNow(p))
  <2>1. Correlation(p) = IF phase[p] = 1 THEN files.psic ELSE IF Ring(p) = "xor" THEN files.psics1 ELSE files.psics2
    BY DEF Correlation
  <2>2. CASE phase[p] = 1
    <3>1. KindNow(p) = "PSI"
      BY <2>2 DEF KindNow
    <3> QED BY <2>1, <2>2, <3>1 DEF CorrOf
  <2>3. CASE phase[p] # 1 /\ pc[p] \in {"shuffle", "pass"}
    <3>1. KindNow(p) = "PSICS1"
      BY <2>3 DEF KindNow
    <3> QED BY <1>3, <2>1, <2>3, <3>1 DEF CorrOf
  <2>4. CASE phase[p] # 1 /\ pc[p] \notin {"shuffle", "pass"}
    <3>1. KindNow(p) = "PSICS2"
      BY <2>4 DEF KindNow
    <3> QED BY <1>3, <2>1, <2>4, <3>1 DEF CorrOf
  <2> QED BY <2>2, <2>3, <2>4
<1>5. Fit(RingOf(KindNow(p)), CorrOf(conf, KindNow(p))) /\ RingOf(KindNow(p)) \in Rings
  BY <1>1, CorrFits
<1>6. JointOf(conf, KindNow(p)) \in Vector /\ InOf(conf, KindNow(p)) \in [Party -> Vector]
  BY <1>1, InTyped
<1> QED BY <1>1, <1>2, <1>4, <1>5, <1>6

\* What it puts in.
LEMMA PutIn ==
  ASSUME NEW p \in Party, pc[p] \in {"shuffle", "shuffleItems"}, phase[p] \in 1..2, phase[p] = 1 => pc[p] = "shuffle",
         ShareOk(p), ItemOk(p)
  PROVE Data(p) = InOf(conf, KindNow(p))[p]
<1>1. CASE pc[p] = "shuffle"
  <2>1. Data(p) = share[p] /\ share[p] = ProdOf(conf, KindAt(phase[p]))[p]
    BY <1>1 DEF Data, Ring, At, ShareOk
  <2>2. KindNow(p) = KindAt(phase[p]) /\ KindNow(p) # "PSICS2"
    BY <1>1 DEF KindNow, KindAt
  <2> QED BY <2>1, <2>2 DEF InOf
<1>2. CASE pc[p] = "shuffleItems"
  <2>1. Data(p) = item[p] /\ phase[p] = 2
    BY <1>2 DEF Data, Ring, At
  <2>2. item[p] = DataOf(conf, "PSICS2")[p]
    BY <1>2, <2>1 DEF ItemOk
  <2>3. KindNow(p) = "PSICS2"
    BY <1>2, <2>1 DEF KindNow
  <2> QED BY <2>1, <2>2, <2>3 DEF InOf
<1> QED BY <1>1, <1>2

\* A sender gives party 0 its share, masked.
LEMMA ShuffleInKeeps == ASSUME Inv, NEW q \in Sender, ShuffleIn(q) PROVE Inv'
<1>0. Standing /\ Sockets /\ Holding /\ Learning /\ Counting /\ Paying
  BY DEF Inv
<1> DEFINE m == ToFirst(Ring(q), Correlation(q), q, Data(q))
           h == IF Ring(q) = "xor" THEN "pass" ELSE "passItems"
           kind == KindNow(q)
<1>1. /\ pc[q] \in {"shuffle", "shuffleItems"} /\ Goto(q, h) /\ Send(q, 0, m)
      /\ conf' = conf /\ files' = files /\ early' = early /\ phase' = phase /\ met' = met /\ share' = share /\ item' = item /\ Aside
  BY DEF ShuffleIn, Shuffling, At, history, vectors, found, Aside
<1>2. q \in Party /\ q # 0 /\ phase[q] \in 1..2 /\ Typed(conf) /\ ShareOk(q) /\ ItemOk(q) /\ files = Prepared(conf.seed)
  BY <1>0, SenderAt DEF Holding, Standing
<1>20. phase[q] = 1 => pc[q] = "shuffle"
  BY <1>0, <1>1, SenderAt
<1>21. h = IF pc[q] = "shuffle" THEN "pass" ELSE "passItems"
  BY <1>1 DEF Ring, At
<1>22. m = ToFirst(RingOf(kind), CorrOf(conf, kind), q, InOf(conf, kind)[q])
  <2>1. RingOf(kind) = Ring(q) /\ Correlation(q) = CorrOf(conf, kind)
    <3>1. pc[q] \in Shuffles
      BY <1>1 DEF Shuffles
    <3> QED BY <1>2, <1>20, <3>1, KindIs
  <2>2. Data(q) = InOf(conf, kind)[q]
    BY <1>1, <1>2, <1>20, PutIn
  <2> QED BY <2>1, <2>2
<1>23. kind = IF phase[q] = 1 THEN "PSI" ELSE IF pc[q] = "shuffle" THEN "PSICS1" ELSE "PSICS2"
  BY <1>1 DEF KindNow
<1> HIDE DEF m, h, kind
<1>3. h \in Reached(q, phase[q]) /\ h # "meet" /\ h # "start"
  BY <1>2, <1>20, <1>21 DEF Reached
<1>4. Fits(q, h, phase[q], met[q]) /\ Stepped(q, h, phase[q], met[q])
  BY <1>0, <1>1, <1>2, <1>3, StandingGoes
<1>5. Alone(q) /\ pc'[q] = h /\ phase'[q] = phase[q]
  BY <1>0, <1>2, <1>4, StandingMoves
<1>6. ShareOk(q)' /\ ItemOk(q)'
  <2>1. ShareOk(q)'
    BY <1>1, <1>2, <1>21, <1>5 DEF ShareOk
  <2>2. ItemOk(q)'
    BY <1>1, <1>2, <1>21, <1>5 DEF ItemOk
  <2> QED BY <2>1, <2>2
<1>7. early' \subseteq Party /\ Held(share, share', q, share) /\ Held(item, item', q, item) /\ Runs(q) /\ (phase[q] = 1 => h # "returned")
  BY <1>0, <1>1, <1>21 DEF Held, Paying, Runs
<1>8. Standing' /\ Holding' /\ Learning' /\ Counting' /\ Paying'
  BY <1>0, <1>1, <1>4, <1>6, <1>7, SenderMoves
<1>9. m = UpStream(conf, q)[U(q) + 1]
  <2>1. U(q) + 1 = IF phase[q] = 1 THEN 3 ELSE IF pc[q] = "shuffle" THEN 8 ELSE 9
    BY <1>1, <1>2, <1>20 DEF U, SentUp
  <2>2. UpStream(conf, q)[3] = ToFirst("xor", CorrOf(conf, "PSI"), q, InOf(conf, "PSI")[q])
    BY DEF UpStream
  <2>3. UpStream(conf, q)[8] = ToFirst("xor", CorrOf(conf, "PSICS1"), q, InOf(conf, "PSICS1")[q])
    BY DEF UpStream
  <2>4. UpStream(conf, q)[9] = ToFirst("add", CorrOf(conf, "PSICS2"), q, InOf(conf, "PSICS2")[q])
    BY DEF UpStream
  <2> QED BY <1>22, <1>23, <2>1, <2>2, <2>3, <2>4 DEF RingOf
<1>10. U(q)' = U(q) + 1 /\ W(q)' = W(q) /\ X(q)' = X(q)
  <2>1. U(q)' = U(q) + 1
    BY <1>1, <1>2, <1>20, <1>21, <1>5 DEF U, SentUp
  <2>2. X(q)' = X(q)
    BY <1>1, <1>2, <1>20, <1>21, <1>5 DEF X, Passed
  <2>3. W(q)' = W(q)
    BY <1>1, <1>2, <1>20, <1>21, <1>5, <2>2 DEF W, Answered
  <2> QED BY <2>1, <2>2, <2>3
<1>11. Sockets'
  <2>1. asked' = asked /\ learned' = learned
    BY <1>1 DEF Aside
  <2> QED BY <1>0, <1>1, <1>5, <1>9, <1>10, <2>1, SenderSends
<1> QED BY <1>8, <1>11 DEF Inv

\* What a sender is handed is what the party before it hands on.
LEMMA HandedKinds ==
  ASSUME Sockets, NEW q \in Sender, Waiting(q - 1, q), pc[q] \in {"pass", "passItems"}, phase[q] \in 1..2,
         phase[q] = 1 => pc[q] = "pass", ~(phase[q] = 2 /\ conf.bad[q] = "values")
  PROVE First(q - 1, q) = HandedOf(conf, KindNow(q), q - 1)
<1>1. X(q) = IF phase[q] = 1 THEN 0 ELSE IF pc[q] = "pass" THEN 1 ELSE 2
  BY DEF X, Passed
<1>2. KindNow(q) = IF phase[q] = 1 THEN "PSI" ELSE IF pc[q] = "pass" THEN "PSICS1" ELSE "PSICS2"
  BY DEF KindNow
<1>3. CASE q # 1
  <2>1. First(q - 1, q) = OverStream(conf, q)[X(q) + 1]
    BY <1>3, HeadOver
  <2>2. X(q) + 1 = IF phase[q] = 1 THEN 1 ELSE IF pc[q] = "pass" THEN 2 ELSE 3
    BY <1>1
  <2>3. /\ OverStream(conf, q)[1] = HandedOf(conf, "PSI", q - 1) /\ OverStream(conf, q)[2] = HandedOf(conf, "PSICS1", q - 1)
        /\ OverStream(conf, q)[3] = HandedOf(conf, "PSICS2", q - 1)
    BY DEF OverStream
  <2> QED BY <1>2, <2>1, <2>2, <2>3
<1>4. CASE q = 1
  <2>0. q - 1 = 0
    BY <1>4
  <2>1. First(0, q) = DownStream(conf, q)[W(q) + 1]
    BY <2>0, HeadDown
  <2>2. W(q) + 1 = IF phase[q] = 1 THEN 3 ELSE IF pc[q] = "pass" THEN 7 ELSE 8
    <3>1. Answered(phase[q], pc[q], conf.bad[q]) = IF phase[q] = 1 THEN 2 ELSE 5
      BY DEF Answered
    <3> QED BY <1>1, <1>4, <3>1 DEF W, Second
  <2>3. /\ DownStream(conf, q)[3] = HandedOf(conf, "PSI", 0) /\ DownStream(conf, q)[7] = HandedOf(conf, "PSICS1", 0)
        /\ DownStream(conf, q)[8] = HandedOf(conf, "PSICS2", 0)
    BY <1>4 DEF DownStream
  <2> QED BY <1>2, <2>0, <2>1, <2>2, <2>3
<1> QED BY <1>3, <1>4

\* Of what a sender is handed it keeps its share and hands on the rest.
LEMMA LeftIs ==
  ASSUME NEW ring \in Rings, NEW sc, Fit(ring, sc), NEW J \in Vector, NEW q \in Sender, NEW z, z = Handed(ring, sc, J, q - 1)
  PROVE /\ HandOn(ring, sc, q, z) = Handed(ring, sc, J, q) /\ LeftOver(ring, sc, J)[q] \in Vector
        /\ q < N - 1 => Kept(ring, sc, q) = LeftOver(ring, sc, J)[q]
        /\ q = N - 1 => LastShare(ring, sc, z) = LeftOver(ring, sc, J)[q]
<1>1. q \in Party /\ N \in Nat /\ q \in Nat
  BY SenderIs, Parties
<1>2. HandOn(ring, sc, q, z) = Handed(ring, sc, J, q)
  BY HandedOn
<1>3. LeftOver(ring, sc, J)[q] = Left(ring, sc, J, q) /\ Left(ring, sc, J, q) \in Vector
  BY <1>1, LeftTyped
<1>4. q < N - 1 => q # N - 1
  BY <1>1
<1>5. q < N - 1 => Left(ring, sc, J, q) = Kept(ring, sc, q)
  BY <1>4 DEF Left
<1>6. q = N - 1 => q - 1 = N - 2
  BY <1>1
<1>7. q = N - 1 => Left(ring, sc, J, q) = LastShare(ring, sc, z)
  BY <1>6 DEF Left
<1> QED BY <1>2, <1>3, <1>5, <1>7

\* A sender shuffles what it is handed.
LEMMA ShuffleOnKeeps == ASSUME Inv, NEW q \in Sender, ShuffleOn(q) PROVE Inv'
<1>0. Standing /\ Sockets /\ Holding /\ Learning /\ Counting /\ Paying
  BY DEF Inv
<1> DEFINE ring == Ring(q)
           sc == Correlation(q)
           z == First(q - 1, q)
           kind == KindNow(q)
           left == IF q < N - 1 THEN Kept(ring, sc, q) ELSE LastShare(ring, sc, z)
           on == HandOn(ring, sc, q, z)
           h == IF ring = "xor" /\ phase[q] = 2 THEN "shuffleItems" ELSE "reveal"
<1>1. /\ pc[q] \in {"pass", "passItems"} /\ Waiting(q - 1, q) /\ Goto(q, h)
      /\ (q < N - 1 => TakeAndSend(q - 1, q, q + 1, on)) /\ (~(q < N - 1) => Take(q - 1, q))
      /\ IF ring = "xor" THEN share' = [share EXCEPT ![q] = left] /\ item' = item
         ELSE item' = [item EXCEPT ![q] = left] /\ share' = share
      /\ conf' = conf /\ files' = files /\ early' = early /\ phase' = phase /\ met' = met /\ Aside
  BY DEF ShuffleOn, Leave, history, found, Aside
<1>2. /\ q \in Party /\ q # 0 /\ phase[q] \in 1..2 /\ Typed(conf) /\ ShareOk(q) /\ ItemOk(q) /\ files = Prepared(conf.seed)
      /\ q \in Nat /\ q <= N - 1 /\ (q # N - 1 => q < N - 1) /\ N \in Nat
  BY <1>0, SenderAt, PairsAre, Parties DEF Holding, Standing
<1>20. (phase[q] = 1 => pc[q] = "pass") /\ ~(phase[q] = 2 /\ conf.bad[q] = "values")
  BY <1>0, <1>1, SenderAt
<1>21. ring = IF pc[q] = "pass" THEN "xor" ELSE "add"
  BY <1>1 DEF Ring, At
<1>22. h = IF pc[q] = "pass" /\ phase[q] = 2 THEN "shuffleItems" ELSE "reveal"
  BY <1>21
<1>23. kind = IF phase[q] = 1 THEN "PSI" ELSE IF pc[q] = "pass" THEN "PSICS1" ELSE "PSICS2"
  BY <1>1 DEF KindNow
<1>24. /\ RingOf(kind) = ring /\ sc = CorrOf(conf, kind) /\ ring \in Rings /\ Fit(ring, sc) /\ JointOf(conf, kind) \in Vector
  <2>1. pc[q] \in Shuffles
    BY <1>1 DEF Shuffles
  <2> QED BY <1>2, <1>20, <2>1, KindIs
<1>25. z = HandedOf(conf, kind, q - 1)
  BY <1>0, <1>1, <1>2, <1>20, HandedKinds
<1>26. /\ on = HandedOf(conf, kind, q) /\ OutOf(conf, kind)[q] \in Vector
       /\ left = OutOf(conf, kind)[q]
  <2> DEFINE J == JointOf(conf, kind)
  <2>1. z = Handed(ring, sc, J, q - 1) /\ HandedOf(conf, kind, q) = Handed(ring, sc, J, q) /\ OutOf(conf, kind) = LeftOver(ring, sc, J)
    BY <1>24, <1>25 DEF HandedOf, OutOf
  <2>2. J \in Vector
    BY <1>24
  <2> HIDE DEF z, J, kind, ring, sc
  <2>3. /\ HandOn(ring, sc, q, z) = Handed(ring, sc, J, q) /\ LeftOver(ring, sc, J)[q] \in Vector
        /\ q < N - 1 => Kept(ring, sc, q) = LeftOver(ring, sc, J)[q]
        /\ q = N - 1 => LastShare(ring, sc, z) = LeftOver(ring, sc, J)[q]
    BY <1>24, <2>1, <2>2, LeftIs
  <2>4. ~(q < N - 1) => q = N - 1
    BY <1>2
  <2> QED BY <2>1, <2>3, <2>4
<1>27. q < N - 1 => on = OverStream(conf, q + 1)[X(q) + 1]
  <2> SUFFICES ASSUME q < N - 1 PROVE on = OverStream(conf, q + 1)[X(q) + 1]
    OBVIOUS
  <2>1. X(q) + 1 = IF phase[q] = 1 THEN 1 ELSE IF pc[q] = "pass" THEN 2 ELSE 3
    BY <1>1, <1>2, <1>20 DEF X, Passed
  <2>2. (q + 1) - 1 = q
    BY <1>2
  <2>3. /\ OverStream(conf, q + 1)[1] = HandedOf(conf, "PSI", q) /\ OverStream(conf, q + 1)[2] = HandedOf(conf, "PSICS1", q)
        /\ OverStream(conf, q + 1)[3] = HandedOf(conf, "PSICS2", q)
    BY <2>2 DEF OverStream
  <2> HIDE DEF on, kind
  <2> QED BY <1>23, <1>26, <2>1, <2>3
<1> HIDE DEF ring, sc, z, kind, left, on, h
<1>3. h \in Reached(q, phase[q]) /\ h # "meet" /\ h # "start"
  BY <1>2, <1>22 DEF Reached
<1>4. Fits(q, h, phase[q], met[q]) /\ Stepped(q, h, phase[q], met[q])
  BY <1>0, <1>1, <1>2, <1>3, StandingGoes
<1>5. Alone(q) /\ pc'[q] = h /\ phase'[q] = phase[q]
  BY <1>0, <1>2, <1>4, StandingMoves
<1>50. /\ (pc[q] = "pass" => share'[q] = left /\ item'[q] = item[q]) /\ (pc[q] = "passItems" => item'[q] = left /\ share'[q] = share[q])
  BY <1>0, <1>1, <1>2, <1>21 DEF Holding
<1>6. ShareOk(q)' /\ ItemOk(q)'
  <2>1. CASE phase[q] = 1
    <3>1. pc[q] = "pass" /\ h = "reveal" /\ kind = "PSI"
      BY <1>20, <1>22, <1>23, <2>1
    <3>2. ShareOk(q)'
      BY <1>1, <1>26, <1>5, <1>50, <2>1, <3>1 DEF ShareOk, KindAt
    <3>3. ItemOk(q)'
      BY <1>5, <2>1 DEF ItemOk
    <3> QED BY <3>2, <3>3
  <2>2. CASE phase[q] = 2 /\ pc[q] = "pass"
    <3>1. h = "shuffleItems" /\ kind = "PSICS1"
      BY <1>22, <1>23, <2>2
    <3>2. ShareOk(q)'
      BY <1>1, <1>26, <1>5, <1>50, <2>2, <3>1 DEF ShareOk, KindAt
    <3>3. ItemOk(q)'
      BY <1>1, <1>2, <1>5, <1>50, <2>2, <3>1 DEF ItemOk
    <3> QED BY <3>2, <3>3
  <2>3. CASE phase[q] = 2 /\ pc[q] = "passItems"
    <3>1. h = "reveal" /\ kind = "PSICS2"
      BY <1>22, <1>23, <2>3
    <3>2. ShareOk(q)'
      BY <1>1, <1>2, <1>5, <1>50, <2>3, <3>1 DEF ShareOk, KindAt
    <3>3. ItemOk(q)'
      BY <1>1, <1>26, <1>5, <1>50, <2>3, <3>1 DEF ItemOk
    <3> QED BY <3>2, <3>3
  <2> QED BY <1>1, <1>2, <2>1, <2>2, <2>3
<1>7. early' \subseteq Party /\ Held(share, share', q, left) /\ Held(item, item', q, left) /\ Runs(q) /\ (phase[q] = 1 => h # "returned")
  <2>1. left \in Vector
    BY <1>26
  <2>2. Held(share, share', q, left)
    BY <1>1, <2>1 DEF Held
  <2>3. Held(item, item', q, left)
    BY <1>1, <2>1 DEF Held
  <2> QED BY <1>0, <1>1, <1>22, <2>2, <2>3 DEF Paying, Runs
<1>8. Standing' /\ Holding' /\ Learning' /\ Counting' /\ Paying'
  BY <1>0, <1>1, <1>4, <1>6, <1>7, SenderMoves
<1>10. U(q)' = U(q) /\ W(q)' = W(q) + Second(q, 1) /\ X(q)' = X(q) + 1
  <2>1. U(q)' = U(q)
    BY <1>1, <1>2, <1>20, <1>22, <1>5 DEF U, SentUp
  <2>2. X(q)' = X(q) + 1 /\ X(q) \in Int
    BY <1>1, <1>2, <1>20, <1>22, <1>5 DEF X, Passed
  <2>3. /\ Answered(phase[q], pc[q], conf.bad[q])' = Answered(phase[q], pc[q], conf.bad[q])
        /\ Answered(phase[q], pc[q], conf.bad[q]) \in Int
    BY <1>1, <1>2, <1>20, <1>22, <1>5 DEF Answered
  <2>4. W(q)' = W(q) + Second(q, 1)
    <3> DEFINE a == Answered(phase[q], pc[q], conf.bad[q])
               b == X(q)
    <3>1. a' = a /\ b' = b + 1 /\ a \in Int /\ b \in Int /\ W(q) = a + Second(q, b) /\ W(q)' = a' + Second(q, b')
      BY <2>2, <2>3 DEF W
    <3> HIDE DEF a, b
    <3> QED BY <3>1 DEF Second
  <2> QED BY <2>1, <2>2, <2>4
<1>11. Sockets'
  <2>1. asked' = asked /\ learned' = learned
    BY <1>1 DEF Aside
  <2>2. \/ q < N - 1 /\ TakeAndSend(q - 1, q, q + 1, on) /\ on = OverStream(conf, q + 1)[X(q) + 1]
        \/ q = N - 1 /\ Take(q - 1, q)
    BY <1>1, <1>2, <1>27
  <2> QED BY <1>0, <1>1, <1>5, <1>10, <2>1, <2>2, SenderPasses
<1> QED BY <1>8, <1>11 DEF Inv

-----------------------------------------------------------------------------
(* A sender's other steps. *)

\* What a party adds up of its shares of the values.
LEMMA ItemsAtIs == ASSUME NEW p, NEW B PROVE ItemsAt(p, B) = Items(item[p], B) % Modulus
BY Zenon DEF ItemsAt, Items, Modulus

\* A sender adds up its shares of the values.
LEMMA SumUpKeeps == ASSUME Inv, NEW q \in Sender, SumUp(q) PROVE Inv'
<1>0. Standing /\ Sockets /\ Holding /\ Learning /\ Counting /\ Paying
  BY DEF Inv
<1> DEFINE B == First(0, q)
           m == ItemsAt(q, B)
<1>1. /\ pc[q] = "bits" /\ Waiting(0, q) /\ TakeAndSend(0, q, 0, m) /\ Goto(q, "returned")
      /\ conf' = conf /\ files' = files /\ early' = early /\ phase' = phase /\ met' = met /\ share' = share /\ item' = item /\ Aside
  BY DEF SumUp, At, history, vectors, found, Aside
<1>2. q \in Party /\ q # 0 /\ phase[q] \in 1..2 /\ ShareOk(q) /\ ItemOk(q)
  BY <1>0, SenderAt DEF Holding
<1>20. phase[q] = 2 /\ conf.bad[q] # "values"
  BY <1>0, <1>1, SenderAt
<1>21. B = HitsOf(conf, "PSICS1")
  <2>1. B = DownStream(conf, q)[W(q) + 1]
    BY <1>0, <1>1, HeadDown
  <2>2. W(q) + 1 = IF q = 1 THEN 9 ELSE 6
    <3>1. X(q) = 3
      BY <1>1, <1>20 DEF X, Passed
    <3>2. Answered(phase[q], pc[q], conf.bad[q]) = 5
      BY <1>1, <1>20 DEF Answered
    <3> QED BY <3>1, <3>2 DEF W, Second
  <2>3. q = 1 => DownStream(conf, q)[9] = HitsOf(conf, "PSICS1")
    BY DEF DownStream
  <2>4. q # 1 => DownStream(conf, q)[6] = HitsOf(conf, "PSICS1")
    BY DEF DownStream
  <2> HIDE DEF B
  <2> QED BY <2>1, <2>2, <2>3, <2>4
<1>22. m = SumBy(conf, q)
  <2>1. item[q] = OutOf(conf, "PSICS2")[q]
    BY <1>1, <1>2, <1>20 DEF ItemOk
  <2>2. m = Items(item[q], B) % Modulus
    BY ItemsAtIs
  <2> HIDE DEF m, B
  <2> QED BY <1>21, <2>1, <2>2 DEF SumBy
<1> HIDE DEF m, B
<1>3. "returned" \in Reached(q, phase[q])
  BY <1>2, <1>20 DEF Reached
<1>4. Fits(q, "returned", phase[q], met[q]) /\ Stepped(q, "returned", phase[q], met[q])
  BY <1>0, <1>1, <1>2, <1>3, StandingGoes
<1>5. Alone(q) /\ pc'[q] = "returned" /\ phase'[q] = phase[q]
  BY <1>0, <1>2, <1>4, StandingMoves
<1>6. ShareOk(q)' /\ ItemOk(q)'
  BY <1>5 DEF ShareOk, ItemOk
<1>7. early' \subseteq Party /\ Held(share, share', q, share) /\ Held(item, item', q, item) /\ Runs(q)
  BY <1>0, <1>1 DEF Held, Paying, Runs
<1>8. Standing' /\ Holding' /\ Learning' /\ Counting' /\ Paying'
  <2>1. phase[q] = 1 => "returned" # "returned"
    BY <1>20
  <2> QED BY <1>0, <1>1, <1>4, <1>6, <1>7, <2>1, SenderMoves
<1>9. m = UpStream(conf, q)[U(q) + 1]
  <2>1. U(q) + 1 = 11
    BY <1>1, <1>20 DEF U, SentUp
  <2>2. UpStream(conf, q)[11] = SumBy(conf, q)
    BY DEF UpStream
  <2> QED BY <1>22, <2>1, <2>2
<1>10. U(q)' = U(q) + 1 /\ W(q)' = W(q) + 1 /\ X(q)' = X(q)
  <2>1. U(q)' = U(q) + 1
    BY <1>1, <1>20, <1>5 DEF U, SentUp
  <2>2. X(q)' = X(q) /\ X(q) = 3
    BY <1>1, <1>20, <1>5 DEF X, Passed
  <2>3. Answered(phase[q], pc[q], conf.bad[q])' = 6 /\ Answered(phase[q], pc[q], conf.bad[q]) = 5
    BY <1>1, <1>20, <1>5 DEF Answered
  <2>4. W(q)' = 6 + Second(q, 3) /\ W(q) = 5 + Second(q, 3) /\ Second(q, 3) \in Int
    BY <2>2, <2>3 DEF W, Second
  <2> QED BY <2>1, <2>2, <2>4
<1>11. Sockets'
  <2>1. asked' = asked /\ learned' = learned
    BY <1>1 DEF Aside
  <2> QED BY <1>0, <1>1, <1>5, <1>9, <1>10, <2>1, SenderAnswers
<1> QED BY <1>8, <1>11 DEF Inv

\* A sender shows its share of the indicators, and goes on to the sum or with it.
LEMMA RevealKeeps == ASSUME Inv, NEW q \in Sender, Reveal(q) PROVE Inv'
<1>0. Standing /\ Sockets /\ Holding /\ Learning /\ Counting /\ Paying
  BY DEF Inv
<1> DEFINE h == IF phase[q] = 2 THEN "bits" ELSE IF conf.bad[q] = "values" THEN "returned" ELSE "meet"
           n == IF phase[q] = 2 THEN met[q] ELSE 0
<1>2. q \in Party /\ q # 0 /\ phase[q] \in 1..2 /\ ShareOk(q) /\ ItemOk(q) /\ met[q] \in 0..(N - 1) /\ N \in Nat /\ N >= 2
  BY <1>0, SenderAt, Parties DEF Holding
<1>1. /\ pc[q] = "reveal" /\ Send(q, 0, share[q]) /\ Goto(q, h)
      /\ phase' = [phase EXCEPT ![q] = 2] /\ met' = [met EXCEPT ![q] = n]
      /\ (early' = early \/ early' = early \cup {q})
      /\ conf' = conf /\ files' = files /\ share' = share /\ item' = item /\ Aside
  <2>1. /\ pc[q] = "reveal" /\ Send(q, 0, share[q])
        /\ conf' = conf /\ files' = files /\ share' = share /\ item' = item /\ Aside
    BY DEF Reveal, At, vectors, found, Aside
  <2>2. CASE phase[q] = 1
    <3>1. SecondPhase(q)
      BY <2>2 DEF Reveal
    <3> QED BY <1>2, <2>1, <2>2, <3>1 DEF SecondPhase
  <2>3. CASE phase[q] = 2
    <3>1. Goto(q, "bits") /\ early' = early /\ phase' = phase /\ met' = met
      BY <2>3 DEF Reveal
    <3>2. phase = [phase EXCEPT ![q] = phase[q]] /\ met = [met EXCEPT ![q] = met[q]]
      BY <1>0 DEF Standing
    <3> QED BY <2>1, <2>3, <3>1, <3>2
  <2> QED BY <1>2, <2>2, <2>3
<1>20. phase[q] = 2 => conf.bad[q] # "values"
  BY <1>0, <1>1, SenderAt
<1>21. /\ (phase[q] = 2 => h = "bits" /\ n = met[q]) /\ (phase[q] = 1 => n = 0)
       /\ (phase[q] = 1 /\ conf.bad[q] = "values" => h = "returned") /\ (phase[q] = 1 /\ conf.bad[q] # "values" => h = "meet")
       /\ h \in {"bits", "returned", "meet"} /\ (h = "meet" => phase[q] = 1)
  BY <1>2
<1> HIDE DEF h, n
<1>3. h \in Reached(q, 2)
  BY <1>2, <1>21 DEF Reached
<1>4. Fits(q, h, 2, n) /\ Stepped(q, h, 2, n)
  <2>1. Fits(q, h, 2, n)
    <3>1. n \in 0..(N - 1) /\ (h = "meet" => n < N - 1) /\ h # "start"
      BY <1>2, <1>21
    <3>2. conf.bad[q] = "values" => h \in {"release", "returned"}
      BY <1>2, <1>20, <1>21
    <3> QED BY <1>3, <3>1, <3>2 DEF Fits
  <2> QED BY <1>1, <2>1 DEF Stepped, Goto
<1>5. Alone(q) /\ pc'[q] = h /\ phase'[q] = 2
  BY <1>0, <1>2, <1>4, StandingMoves
<1>6. ShareOk(q)' /\ ItemOk(q)'
  <2>1. ShareOk(q)'
    BY <1>21, <1>5 DEF ShareOk
  <2>2. ItemOk(q)'
    BY <1>1, <1>2, <1>21, <1>5 DEF ItemOk
  <2> QED BY <2>1, <2>2
<1>7. early' \subseteq Party /\ Held(share, share', q, share) /\ Held(item, item', q, item) /\ Runs(q)
  BY <1>0, <1>1, <1>2 DEF Held, Paying, Runs
<1>8. Standing' /\ Holding' /\ Learning' /\ Counting' /\ Paying'
  <2>1. 2 = 1 => h # "returned"
    OBVIOUS
  <2> QED BY <1>0, <1>1, <1>4, <1>6, <1>7, <2>1, SenderMoves
<1>9. share[q] = UpStream(conf, q)[U(q) + 1]
  <2>1. U(q) + 1 = IF phase[q] = 1 THEN 4 ELSE 10
    BY <1>1, <1>2 DEF U, SentUp
  <2>2. UpStream(conf, q)[4] = OutOf(conf, "PSI")[q] /\ UpStream(conf, q)[10] = OutOf(conf, "PSICS1")[q]
    BY DEF UpStream
  <2>3. share[q] = OutOf(conf, KindAt(phase[q]))[q]
    BY <1>1, <1>2 DEF ShareOk
  <2> QED BY <2>1, <2>2, <2>3 DEF KindAt
<1>10. U(q)' = U(q) + 1 /\ W(q)' = W(q) /\ X(q)' = X(q)
  <2>1. U(q)' = U(q) + 1
    BY <1>1, <1>2, <1>20, <1>21, <1>5 DEF U, SentUp
  <2>2. X(q)' = X(q)
    BY <1>1, <1>2, <1>20, <1>21, <1>5 DEF X, Passed
  <2>3. Answered(phase[q], pc[q], conf.bad[q])' = Answered(phase[q], pc[q], conf.bad[q])
    BY <1>1, <1>2, <1>20, <1>21, <1>5 DEF Answered
  <2>4. W(q)' = W(q)
    BY <2>2, <2>3 DEF W
  <2> QED BY <2>1, <2>2, <2>4
<1>11. Sockets'
  <2>1. asked' = asked /\ learned' = learned
    BY <1>1 DEF Aside
  <2> QED BY <1>0, <1>1, <1>5, <1>9, <1>10, <2>1, SenderSends
<1> QED BY <1>8, <1>11 DEF Inv

\* A sender programs its function for the table it is sent.
LEMMA AnswerKeeps == ASSUME Inv, NEW q \in Sender, NEW kind \in AllKinds, AnswerLabels(q, kind) PROVE Inv'
<1>0. Standing /\ Sockets /\ Holding /\ Learning /\ Counting /\ Paying
  BY DEF Inv
<1> DEFINE label == Label(kind, q)
           keys == InsertItems(conf.set[q])
           send == files.vole[kind][q].send
           m == IF kind = "PSICS2" THEN OkvsOfValues(keys, send, First(0, q), label, conf.value[q])
                ELSE OkvsOfLabels(keys, send, First(0, q), label)
           h == IF kind = "PSICS1" THEN "lookup2" ELSE "multiply"
           s == label
<1>1. /\ pc[q] = (IF kind = "PSICS2" THEN "lookup2" ELSE "lookup") /\ Waiting(0, q) /\ Goto(q, h)
      /\ kind \in ToSet(Kinds(phase[q])) /\ TakeAndSend(0, q, 0, m)
      /\ IF kind = "PSICS2" THEN item' = [item EXCEPT ![q] = s] /\ share' = share
         ELSE share' = [share EXCEPT ![q] = s] /\ item' = item
      /\ conf' = conf /\ files' = files /\ early' = early /\ phase' = phase /\ met' = met /\ Aside
  BY DEF AnswerLabels, At, history, found, Aside
<1>2. q \in Party /\ q # 0 /\ phase[q] \in 1..2 /\ Typed(conf) /\ ShareOk(q) /\ ItemOk(q) /\ files = Prepared(conf.seed)
  BY <1>0, SenderAt DEF Holding, Standing
<1>20. phase[q] = (IF kind = "PSI" THEN 1 ELSE 2) /\ ~(phase[q] = 2 /\ conf.bad[q] = "values")
  <2>1. ToSet(<<"PSI">>) = {"PSI"} /\ ToSet(<<"PSICS1", "PSICS2">>) = {"PSICS1", "PSICS2"}
    <3>1. DOMAIN <<"PSI">> = {1} /\ <<"PSI">>[1] = "PSI"
      OBVIOUS
    <3>2. DOMAIN <<"PSICS1", "PSICS2">> = {1, 2} /\ <<"PSICS1", "PSICS2">>[1] = "PSICS1" /\ <<"PSICS1", "PSICS2">>[2] = "PSICS2"
      OBVIOUS
    <3> QED BY <3>1, <3>2 DEF ToSet
  <2>2. kind \in (IF phase[q] = 1 THEN {"PSI"} ELSE {"PSICS1", "PSICS2"})
    BY <1>1, <2>1 DEF Kinds
  <2>3. ~(phase[q] = 2 /\ conf.bad[q] = "values")
    BY <1>0, <1>1, SenderAt
  <2> QED BY <1>2, <2>2, <2>3
<1>21. First(0, q) = DiffOf(conf, kind, q)
  <2>1. First(0, q) = DownStream(conf, q)[W(q) + 1]
    BY <1>0, <1>1, HeadDown
  <2>2. W(q) + 1 = IF kind = "PSI" THEN 1 ELSE IF kind = "PSICS1" THEN IF q = 1 THEN 4 ELSE 3 ELSE IF q = 1 THEN 5 ELSE 4
    <3>1. X(q) = IF kind = "PSI" THEN 0 ELSE 1
      BY <1>1, <1>20 DEF X, Passed
    <3>2. Answered(phase[q], pc[q], conf.bad[q]) = IF kind = "PSI" THEN 0 ELSE IF kind = "PSICS1" THEN 2 ELSE 3
      BY <1>1, <1>20 DEF Answered, AllKinds
    <3> QED BY <3>1, <3>2 DEF W, Second
  <2>3. /\ DownStream(conf, q)[1] = DiffOf(conf, "PSI", q)
        /\ (q = 1 => DownStream(conf, q)[4] = DiffOf(conf, "PSICS1", q) /\ DownStream(conf, q)[5] = DiffOf(conf, "PSICS2", q))
        /\ (q # 1 => DownStream(conf, q)[3] = DiffOf(conf, "PSICS1", q) /\ DownStream(conf, q)[4] = DiffOf(conf, "PSICS2", q))
    BY DEF DownStream
  <2> QED BY <2>1, <2>2, <2>3 DEF AllKinds
<1>22. s = LabelOf(conf, kind, q) /\ s \in Vector /\ s = DataOf(conf, kind)[q]
  <2>1. s = LabelOf(conf, kind, q)
    BY DEF Label, LabelOf
  <2> HIDE DEF s
  <2>2. LabelOf(conf, kind, q) \in Vector /\ DataOf(conf, kind)[q] = LabelOf(conf, kind, q)
    BY <1>2, LabelsTyped, DataTyped
  <2> QED BY <2>1, <2>2
<1>23. m = OkvsOf(conf, kind, q)
  <2>1. send = SendOf(conf, kind, q)
    BY <1>2, VolesAre DEF SendOf
  <2>2. label = LabelOf(conf, kind, q)
    BY <1>22
  <2> HIDE DEF label, send, keys
  <2>3. m = IF kind = "PSICS2" THEN OkvsOfValues(keys, SendOf(conf, kind, q), DiffOf(conf, kind, q), LabelOf(conf, kind, q), conf.value[q])
                ELSE OkvsOfLabels(keys, SendOf(conf, kind, q), DiffOf(conf, kind, q), LabelOf(conf, kind, q))
    BY <1>21, <2>1, <2>2
  <2> QED BY <2>3 DEF OkvsOf, keys
<1> HIDE DEF m, s, label, keys, send
<1>24. h \in {"lookup2", "multiply"} /\ h = IF kind = "PSICS1" THEN "lookup2" ELSE "multiply"
  OBVIOUS
<1> HIDE DEF h
<1>3. h \in Reached(q, phase[q])
  BY <1>2, <1>20, <1>24 DEF Reached
<1>4. Fits(q, h, phase[q], met[q]) /\ Stepped(q, h, phase[q], met[q])
  <2>1. pc[q] \notin {"release", "returned"} /\ h # "meet" /\ h # "start"
    BY <1>1, <1>24
  <2> QED BY <1>0, <1>1, <1>2, <1>3, <2>1, StandingGoes
<1>5. Alone(q) /\ pc'[q] = h /\ phase'[q] = phase[q]
  BY <1>0, <1>2, <1>4, StandingMoves
<1>50. /\ (kind # "PSICS2" => share'[q] = s /\ item'[q] = item[q]) /\ (kind = "PSICS2" => item'[q] = s /\ share'[q] = share[q])
  BY <1>0, <1>1, <1>2 DEF Holding
<1>6. ShareOk(q)' /\ ItemOk(q)'
  <2>1. CASE kind = "PSI"
    <3>1. KindAt(phase[q]) = kind /\ phase[q] = 1 /\ h = "multiply"
      BY <1>20, <1>24, <2>1 DEF KindAt
    <3>2. ShareOk(q)'
      BY <1>1, <1>22, <1>5, <1>50, <2>1, <3>1 DEF ShareOk
    <3>3. ItemOk(q)'
      BY <1>5, <3>1 DEF ItemOk
    <3> QED BY <3>2, <3>3
  <2>2. CASE kind = "PSICS1"
    <3>1. KindAt(phase[q]) = kind /\ phase[q] = 2 /\ h = "lookup2"
      BY <1>20, <1>24, <2>2 DEF KindAt
    <3>2. ShareOk(q)'
      BY <1>1, <1>22, <1>5, <1>50, <2>2, <3>1 DEF ShareOk
    <3>3. ItemOk(q)'
      BY <1>5, <3>1 DEF ItemOk
    <3> QED BY <3>2, <3>3
  <2>3. CASE kind = "PSICS2"
    <3>1. KindAt(phase[q]) = "PSICS1" /\ phase[q] = 2 /\ h = "multiply"
      BY <1>20, <1>24, <2>3 DEF KindAt
    <3>2. ShareOk(q)'
      BY <1>1, <1>2, <1>5, <1>50, <2>3, <3>1 DEF ShareOk
    <3>3. ItemOk(q)'
      BY <1>1, <1>22, <1>5, <1>50, <2>3, <3>1 DEF ItemOk
    <3> QED BY <3>2, <3>3
  <2> QED BY <2>1, <2>2, <2>3 DEF AllKinds
<1>7. early' \subseteq Party /\ Held(share, share', q, s) /\ Held(item, item', q, s) /\ Runs(q) /\ (phase[q] = 1 => h # "returned")
  <2>1. Held(share, share', q, s)
    BY <1>1, <1>22 DEF Held
  <2>2. Held(item, item', q, s)
    BY <1>1, <1>22 DEF Held
  <2>3. Runs(q)
    BY <1>1 DEF Runs
  <2> QED BY <1>0, <1>1, <1>24, <2>1, <2>2, <2>3 DEF Paying
<1>8. Standing' /\ Holding' /\ Learning' /\ Counting' /\ Paying'
  BY <1>0, <1>1, <1>4, <1>6, <1>7, SenderMoves
<1>9. m = UpStream(conf, q)[U(q) + 1]
  <2>1. U(q) + 1 = IF kind = "PSI" THEN 1 ELSE IF kind = "PSICS1" THEN 5 ELSE 6
    BY <1>1, <1>20 DEF U, SentUp, AllKinds
  <2>2. /\ UpStream(conf, q)[1] = OkvsOf(conf, "PSI", q) /\ UpStream(conf, q)[5] = OkvsOf(conf, "PSICS1", q)
        /\ UpStream(conf, q)[6] = OkvsOf(conf, "PSICS2", q)
    BY DEF UpStream
  <2> QED BY <1>23, <2>1, <2>2 DEF AllKinds
<1>10. U(q)' = U(q) + 1 /\ W(q)' = W(q) + 1 /\ X(q)' = X(q)
  <2>1. U(q)' = U(q) + 1
    BY <1>1, <1>20, <1>24, <1>5 DEF U, SentUp, AllKinds
  <2>2. X(q)' = X(q) /\ X(q) \in Int
    BY <1>1, <1>20, <1>24, <1>5 DEF X, Passed
  <2>3. /\ Answered(phase[q], pc[q], conf.bad[q])' = Answered(phase[q], pc[q], conf.bad[q]) + 1
        /\ Answered(phase[q], pc[q], conf.bad[q]) \in Int
    BY <1>1, <1>20, <1>24, <1>5 DEF Answered, AllKinds
  <2>4. W(q)' = W(q) + 1
    <3> DEFINE a == Answered(phase[q], pc[q], conf.bad[q])
               b == Second(q, X(q))
    <3>0. b \in Int
      BY <2>2 DEF Second
    <3>1. a' = a + 1 /\ b' = b /\ a \in Int /\ b \in Int /\ W(q) = a + b /\ W(q)' = a' + b'
      BY <2>2, <2>3, <3>0 DEF W
    <3> HIDE DEF a, b
    <3> QED BY <3>1
  <2> QED BY <2>1, <2>2, <2>4
<1>11. Sockets'
  <2>1. asked' = asked /\ learned' = learned
    BY <1>1 DEF Aside
  <2> QED BY <1>0, <1>1, <1>5, <1>9, <1>10, <2>1, SenderAnswers
<1> QED BY <1>8, <1>11 DEF Inv

-----------------------------------------------------------------------------
(* How the parts of the invariant move with party 0. *)

\* Party 0 goes on, and has paid already.
LEMMA FirstMoves ==
  ASSUME Standing, Holding, Paying, Runs(0), NEW h, NEW f, NEW m, Fits(0, h, f, m),
         Stepped(0, h, f, m), f = 1 => h # "returned", room' = room, charged' = charged, early' \subseteq Party,
         NEW s, Held(share, share', 0, s), NEW t, Held(item, item', 0, t), ShareOk(0)', ItemOk(0)'
  PROVE Standing' /\ Holding' /\ Paying' /\ Alone(0) /\ pc'[0] = h /\ phase'[0] = f /\ conf' = conf
<1>1. 0 \in Party
  BY Parties
<1>2. Standing' /\ Alone(0) /\ pc'[0] = h /\ phase'[0] = f
  BY <1>1, StandingMoves
<1>3. conf' = conf
  BY <1>2 DEF Alone
<1>4. Holding'
  BY <1>1, <1>2, HoldingMoves
<1>5. \A r \in Party : Entered(r)' = Entered(r)
  BY <1>1, <1>2, EnteredStays
<1>6. Paying'
  BY <1>3, <1>5, PayingStays
<1> QED BY <1>2, <1>3, <1>4, <1>6

\* Where party 0 can be.
LEMMA FirstAt ==
  ASSUME Standing
  PROVE /\ 0 \in Party /\ phase[0] \in 1..2 /\ pc[0] \in Reached(0, phase[0]) /\ Typed(conf) /\ met[0] \in 0..(N - 1)
        /\ (phase[0] = 2 /\ conf.bad[0] = "values" => pc[0] \in {"release", "returned"})
        /\ (phase[0] = 1 => pc[0] \in {"start", "meet", "lookup", "multiply", "shuffle", "reveal", "returned"})
        /\ (phase[0] = 2 => pc[0] \in {"meet", "lookup", "multiply", "shuffle", "shuffleItems", "reveal", "sums", "release", "returned"})
<1>1. 0 \in Party
  BY Parties
<1>2. PlaceOk(0) /\ phase[0] \in 1..2 /\ met[0] \in 0..(N - 1)
  BY <1>1 DEF Standing
<1>3. Typed(conf)
  BY ConfsAssumption DEF Standing
<1>4. pc[0] \in Reached(0, phase[0]) /\ (phase[0] = 2 /\ conf.bad[0] = "values" => pc[0] \in {"release", "returned"})
  BY <1>2 DEF PlaceOk
<1>5. phase[0] = 1 => pc[0] \in {"start", "meet", "lookup", "multiply", "shuffle", "reveal", "returned"}
  BY <1>4 DEF Reached
<1>6. phase[0] = 2 => pc[0] \in {"meet", "lookup", "multiply", "shuffle", "shuffleItems", "reveal", "sums", "release", "returned"}
  BY <1>4 DEF Reached
<1> QED BY <1>1, <1>2, <1>3, <1>4, <1>5, <1>6

\* Except while it looks up, it has nothing asked for.
LEMMA Idle ==
  ASSUME Learning, pc[0] # "lookup", NEW q \in Sender
  PROVE asked[q] = 0 /\ learned[q] \in Seq(Vector) /\ Len(learned[q]) = 0
<1>1. LookedUp(q) /\ learned[q] \in Seq(Vector)
  BY DEF Learning
<1>2. asked[q] = 0 /\ Len(learned[q]) <= asked[q]
  BY <1>1 DEF LookedUp
<1>3. Len(learned[q]) \in Nat
  BY <1>1
<1> QED BY <1>1, <1>2, <1>3

\* And still has nothing after a step that asks for nothing.
LEMMA LearningIdle ==
  ASSUME Learning, pc[0] # "lookup", asked' = asked, learned' = learned
  PROVE Learning'
<1>1. ASSUME NEW q \in Sender PROVE LookedUp(q)'
  <2>1. asked'[q] = 0 /\ Len(learned'[q]) = 0
    BY Idle
  <2>2. Len(Kinds(phase'[0])) >= 0
    BY DEF Kinds
  <2>3. \A i \in 1..Len(learned'[q]) : FALSE
    BY <2>1
  <2> QED BY <2>1, <2>2, <2>3 DEF LookedUp
<1>2. asked' \in [Sender -> 0..2] /\ learned' \in [Sender -> Seq(Vector)]
  BY DEF Learning
<1> QED BY <1>1, <1>2 DEF Learning

\* Its counts then are those of its place.
LEMMA IdleCounters ==
  ASSUME Learning, pc[0] # "lookup", NEW q \in Sender
  PROVE V(q) = TakenUp(phase[0], pc[0], conf.bad[0]) + 0 /\ Y(q) = Asked0(phase[0], pc[0], conf.bad[0]) + Second(q, X(0)) + 0
BY Idle DEF V, Y

\* Before and after a step.
LEMMA IdleThen ==
  ASSUME Learning, pc[0] # "lookup", asked' = asked, learned' = learned, NEW q \in Sender
  PROVE /\ V(q)' = TakenUp(phase'[0], pc'[0], conf'.bad[0]) + 0
        /\ Y(q)' = Asked0(phase'[0], pc'[0], conf'.bad[0]) + Second(q, X(0)') + 0
<1>1. asked'[q] = 0 /\ Len(learned'[q]) = 0
  BY Idle
<1>2. V(q)' = TakenUp(phase'[0], pc'[0], conf'.bad[0]) + 0
  BY <1>1 DEF V
<1>3. Y(q)' = Asked0(phase'[0], pc'[0], conf'.bad[0]) + Second(q, X(0)') + 0
  BY <1>1 DEF Y
<1> QED BY <1>2, <1>3

\* Where nothing is counted and summed.
Quiet == {"start", "meet", "lookup", "multiply", "shuffle", "shuffleItems", "reveal"}
\* The count and the sum are then as they were.
LEMMA CountingMoves ==
  ASSUME Counting, conf' = conf, card' = card, bits' = bits, agg' = agg, result' = result, phase'[0] = phase[0],
         pc[0] \in Quiet, pc'[0] \in Quiet
  PROVE Counting'
<1>1. HitsOf(conf, "PSI")' = HitsOf(conf, "PSI")
  OBVIOUS
<1>2. pc[0] \notin {"sums", "release", "returned"} /\ pc'[0] \notin {"sums", "release", "returned"}
  BY DEF Quiet
<1>3. agg = 0 /\ result = NoResult
  BY <1>2 DEF Counting
<1>4. card' = IF phase'[0] = 1 THEN 0 ELSE Cardinality(HitsOf(conf', "PSI"))
  BY <1>1 DEF Counting
<1>5. bits' \subseteq Bin
  BY DEF Counting
<1> QED BY <1>2, <1>3, <1>4, <1>5 DEF Counting

\* What it takes of all senders.
LEMMA GatheredIs ==
  ASSUME Sockets, EveryoneWaits, NEW f, \A q \in Sender : UpStream(conf, q)[V(q) + 1] = f[q], NEW ring
  PROVE Gathered(ring) = TotalOf(ring, [q \in Sender |-> f[q]], Sender)
<1>1. \A q \in Sender : First(q, 0) = f[q]
  BY HeadUp DEF EveryoneWaits
<1>2. [q \in Sender |-> First(q, 0)] = [q \in Sender |-> f[q]]
  BY <1>1, Zenon
<1> QED BY <1>2 DEF Gathered

-----------------------------------------------------------------------------
(* Party 0's steps that take a message of every sender. *)

\* Party 0 adds up what is masked.
LEMMA AddMaskedKeeps == ASSUME Inv, AddMasked PROVE Inv'
<1>0. Standing /\ Sockets /\ Holding /\ Learning /\ Counting /\ Paying
  BY DEF Inv
<1> DEFINE sum == PlusAll(MaskedInput(files.triple, 0, share[0]), Gathered("xor"))
           s == Product(files.triple, 0, sum)
           reply == Everybody(sum)
           kind == KindAt(phase[0])
           data == DataOf(conf, kind)
           parts == [q \in Sender |-> MaskedInput(TripleOf(conf), q, data[q])]
<1>1. /\ pc[0] = "multiply" /\ EveryoneWaits /\ TakeAll(reply) /\ Goto(0, "shuffle") /\ share' = [share EXCEPT ![0] = s]
      /\ conf' = conf /\ files' = files /\ early' = early /\ phase' = phase /\ met' = met /\ item' = item /\ Aside
  BY DEF AddMasked, At, history, found, Aside
<1>2. 0 \in Party /\ phase[0] \in 1..2 /\ Typed(conf) /\ ShareOk(0) /\ ItemOk(0) /\ files = Prepared(conf.seed)
  BY <1>0, FirstAt DEF Holding, Standing
<1>20. kind \in {"PSI", "PSICS1"} /\ kind = IF phase[0] = 1 THEN "PSI" ELSE "PSICS1"
  BY DEF KindAt
<1>21. ~(phase[0] = 2 /\ conf.bad[0] = "values")
  BY <1>0, <1>1, FirstAt
<1>22. ASSUME NEW q \in Sender PROVE UpStream(conf, q)[V(q) + 1] = parts[q]
  <2>1. V(q) + 1 = IF phase[0] = 1 THEN 2 ELSE 7
    <3>1. V(q) = TakenUp(phase[0], pc[0], conf.bad[0]) + 0
      BY <1>0, <1>1, IdleCounters
    <3>2. TakenUp(phase[0], pc[0], conf.bad[0]) = IF phase[0] = 1 THEN 1 ELSE 6
      BY <1>1, <1>2, <1>21 DEF TakenUp
    <3> QED BY <3>1, <3>2
  <2>2. phase[0] = 1 => UpStream(conf, q)[2] = parts[q]
    BY <1>20 DEF UpStream
  <2>3. phase[0] # 1 => UpStream(conf, q)[7] = parts[q]
    BY <1>20 DEF UpStream
  <2> HIDE DEF parts
  <2> QED BY <2>1, <2>2, <2>3
<1>23. sum = MaskOf(conf, kind)
  <2>1. Gathered("xor") = TotalOf("xor", [q \in Sender |-> parts[q]], Sender)
    <3> HIDE DEF parts
    <3> QED BY <1>0, <1>1, <1>22, GatheredIs
  <2>2. [q \in Sender |-> parts[q]] = parts
    OBVIOUS
  <2>3. files.triple = TripleOf(conf) /\ Fitting(TripleOf(conf))
    BY <1>2, TripleFits
  <2>4. share[0] = data[0]
    BY <1>1, <1>2 DEF ShareOk
  <2>5. data \in [Party -> Vector] /\ 0 \in Party
    <3>1. kind \in AllKinds
      BY <1>20 DEF AllKinds
    <3> HIDE DEF kind
    <3> QED BY <1>2, <3>1, DataTyped
  <2> DEFINE mine == MaskedInput(TripleOf(conf), 0, data[0])
             theirs == TotalOf("xor", parts, Sender)
  <2>6. mine \in Vector
    <3>1. data[0] \in Vector /\ TripleOf(conf).a[0] \in Vector
      BY <2>3, <2>5 DEF Fitting
    <3> QED BY <3>1, PlusAllIs DEF MaskedInput
  <2>7. theirs \in Vector
    <3>1. \A q \in Sender : parts[q] \in Vector
      <4> SUFFICES ASSUME NEW q \in Sender PROVE MaskedInput(TripleOf(conf), q, data[q]) \in Vector
        OBVIOUS
      <4>1. q \in Party
        BY SenderIs
      <4>2. data[q] \in Vector /\ TripleOf(conf).a[q] \in Vector
        BY <2>3, <2>5, <4>1 DEF Fitting
      <4> QED BY <4>2, PlusAllIs DEF MaskedInput
    <3>2. parts \in [Sender -> Vector]
      BY <3>1
    <3> HIDE DEF parts
    <3>3. Sender \in SUBSET Sender /\ IsFiniteSet(Sender) /\ "xor" \in Rings
      BY Parties DEF Rings
    <3> QED BY <3>2, <3>3, TotalLaws
  <2>8. sum = PlusAll(mine, theirs)
    BY <2>1, <2>2, <2>3, <2>4
  <2>9. MaskOf(conf, kind) = AddAll("xor", mine, theirs)
    BY DEF MaskOf, MaskedTotal
  <2> HIDE DEF sum, mine, theirs, kind, data, parts
  <2> QED BY <2>6, <2>7, <2>8, <2>9, PlusAllIs
<1>24. s = ProdOf(conf, kind)[0] /\ s \in Vector
  <2>1. files.triple = TripleOf(conf)
    BY <1>2, TripleFits
  <2>2. /\ ProdOf(conf, kind) \in [Party -> Vector]
        /\ ProdOf(conf, kind)[0] = Product(TripleOf(conf), 0, MaskOf(conf, kind))
    <3> HIDE DEF kind
    <3> QED BY <1>2, <1>20, ProdTyped
  <2> HIDE DEF kind, sum
  <2> QED BY <1>2, <1>23, <2>1, <2>2
<1>25. DOMAIN reply = Sender /\ \A q \in Sender : reply[q] = MaskOf(conf, kind)
  BY <1>23 DEF Everybody
<1> HIDE DEF s, sum, reply, data, parts
<1>3. "shuffle" \in Reached(0, phase[0])
  BY <1>2 DEF Reached
<1>4. Fits(0, "shuffle", phase[0], met[0]) /\ Stepped(0, "shuffle", phase[0], met[0])
  BY <1>0, <1>1, <1>2, <1>3, StandingGoes
<1>5. Alone(0) /\ pc'[0] = "shuffle" /\ phase'[0] = phase[0] /\ conf' = conf
  BY <1>0, <1>1, <1>2, <1>4, StandingMoves
<1>50. share'[0] = s
  BY <1>0, <1>1, <1>2 DEF Holding
<1>6. ShareOk(0)' /\ ItemOk(0)'
  BY <1>1, <1>2, <1>24, <1>5, <1>50 DEF ShareOk, ItemOk, KindAt
<1>7. early' \subseteq Party /\ Held(share, share', 0, s) /\ Held(item, item', 0, item) /\ Runs(0)
  BY <1>0, <1>1, <1>24 DEF Held, Paying, Runs
<1>8. Standing' /\ Holding' /\ Paying'
  <2>1. room' = room /\ charged' = charged
    BY <1>1 DEF Aside
  <2> QED BY <1>0, <1>4, <1>6, <1>7, <2>1, FirstMoves
<1>80. Learning' /\ Counting'
  <2>1. Learning'
    BY <1>0, <1>1, LearningIdle DEF Aside
  <2>2. pc[0] \in Quiet /\ pc'[0] \in Quiet
    BY <1>1, <1>5 DEF Quiet
  <2>3. Counting'
    BY <1>0, <1>1, <1>5, <2>2, CountingMoves DEF Aside
  <2> QED BY <2>1, <2>3
<1>9. ASSUME NEW q \in Sender
      PROVE V(q)' = V(q) + 1 /\ Y(q)' = Y(q) + 1 /\ DownStream(conf, q)[Y(q) + 1] = MaskOf(conf, kind)
  <2>1. /\ V(q) = TakenUp(phase[0], pc[0], conf.bad[0]) + 0 /\ Y(q) = Asked0(phase[0], pc[0], conf.bad[0]) + Second(q, X(0)) + 0
        /\ V(q)' = TakenUp(phase'[0], pc'[0], conf'.bad[0]) + 0
        /\ Y(q)' = Asked0(phase'[0], pc'[0], conf'.bad[0]) + Second(q, X(0)') + 0
    BY <1>0, <1>1, IdleCounters, IdleThen DEF Aside
  <2>2. X(0) = (IF phase[0] = 1 THEN 0 ELSE 1) /\ X(0)' = X(0)
    BY <1>1, <1>2, <1>21, <1>5 DEF X, Passed
  <2>3. TakenUp(phase'[0], pc'[0], conf'.bad[0]) = TakenUp(phase[0], pc[0], conf.bad[0]) + 1 /\ TakenUp(phase[0], pc[0], conf.bad[0]) \in Int
    BY <1>1, <1>2, <1>21, <1>5 DEF TakenUp
  <2>4. /\ Asked0(phase'[0], pc'[0], conf'.bad[0]) = Asked0(phase[0], pc[0], conf.bad[0]) + 1
        /\ Asked0(phase[0], pc[0], conf.bad[0]) = IF phase[0] = 1 THEN 1 ELSE 4
    BY <1>1, <1>2, <1>21, <1>5 DEF Asked0
  <2>5. V(q)' = V(q) + 1
    BY <2>1, <2>3
  <2>6. Y(q)' = Y(q) + 1
    BY <2>1, <2>2, <2>4 DEF Second
  <2>7. Y(q) + 1 = IF phase[0] = 1 THEN 2 ELSE IF q = 1 THEN 6 ELSE 5
    BY <2>1, <2>2, <2>4 DEF Second
  <2>8. /\ DownStream(conf, q)[2] = MaskOf(conf, "PSI") /\ (q = 1 => DownStream(conf, q)[6] = MaskOf(conf, "PSICS1"))
        /\ (q # 1 => DownStream(conf, q)[5] = MaskOf(conf, "PSICS1"))
    BY DEF DownStream
  <2> HIDE DEF kind
  <2> QED BY <1>20, <2>5, <2>6, <2>7, <2>8
<1>11. Sockets'
  BY <1>0, <1>1, <1>25, <1>5, <1>9, FirstTakesAll
<1> QED BY <1>8, <1>80, <1>11 DEF Inv

\* Party 0 begins a shuffle with the sum of the masked shares and its own.
LEMMA ShuffleFirstKeeps == ASSUME Inv, ShuffleFirst PROVE Inv'
<1>0. Standing /\ Sockets /\ Holding /\ Learning /\ Counting /\ Paying
  BY DEF Inv
<1> DEFINE ring == Ring(0)
           sc == Correlation(0)
           sum == AddAll(ring, Gathered(ring), Data(0))
           m == FromFirst(ring, sc, sum)
           reply == [q \in {1} |-> m]
           kind == KindNow(0)
           C == CorrOf(conf, kind)
           J == JointOf(conf, kind)
           data == InOf(conf, kind)
           parts == [q \in Sender |-> ToFirst(ring, sc, q, data[q])]
           left == Kept(ring, sc, 0)
           h == IF ring = "xor" /\ phase[0] = 2 THEN "shuffleItems" ELSE "reveal"
<1>1. /\ pc[0] \in {"shuffle", "shuffleItems"} /\ EveryoneWaits /\ TakeAll(reply) /\ Goto(0, h)
      /\ IF ring = "xor" THEN share' = [share EXCEPT ![0] = left] /\ item' = item
         ELSE item' = [item EXCEPT ![0] = left] /\ share' = share
      /\ conf' = conf /\ files' = files /\ early' = early /\ phase' = phase /\ met' = met /\ Aside
  BY DEF ShuffleFirst, Shuffling, Leave, history, found, Aside
<1>2. 0 \in Party /\ phase[0] \in 1..2 /\ Typed(conf) /\ ShareOk(0) /\ ItemOk(0) /\ files = Prepared(conf.seed)
  BY <1>0, FirstAt DEF Holding, Standing
<1>20. (phase[0] = 1 => pc[0] = "shuffle") /\ ~(phase[0] = 2 /\ conf.bad[0] = "values")
  BY <1>0, <1>1, FirstAt
<1>21. ring = IF pc[0] = "shuffle" THEN "xor" ELSE "add"
  BY <1>1 DEF Ring, At
<1>22. h = IF pc[0] = "shuffle" /\ phase[0] = 2 THEN "shuffleItems" ELSE "reveal"
  BY <1>21
<1>23. kind = IF phase[0] = 1 THEN "PSI" ELSE IF pc[0] = "shuffle" THEN "PSICS1" ELSE "PSICS2"
  BY <1>1 DEF KindNow
<1>24. /\ RingOf(kind) = ring /\ sc = CorrOf(conf, kind) /\ ring \in Rings /\ Fit(ring, sc) /\ J \in Vector
       /\ data \in [Party -> Vector]
  <2>1. pc[0] \in Shuffles
    BY <1>1 DEF Shuffles
  <2>2. phase[0] = 1 => pc[0] \in {"shuffle", "pass"}
    BY <1>20
  <2> QED BY <1>2, <2>1, <2>2, KindIs
<1>25. Data(0) = data[0]
  BY <1>1, <1>2, <1>20, PutIn
<1> HIDE DEF data
<1>26. ASSUME NEW q \in Sender PROVE UpStream(conf, q)[V(q) + 1] = parts[q]
  <2>1. V(q) + 1 = IF phase[0] = 1 THEN 3 ELSE IF pc[0] = "shuffle" THEN 8 ELSE 9
    <3>1. V(q) = TakenUp(phase[0], pc[0], conf.bad[0]) + 0
      BY <1>0, <1>1, IdleCounters
    <3>2. TakenUp(phase[0], pc[0], conf.bad[0]) = IF phase[0] = 1 THEN 2 ELSE IF pc[0] = "shuffle" THEN 7 ELSE 8
      BY <1>1, <1>2, <1>20 DEF TakenUp
    <3> QED BY <3>1, <3>2
  <2>2. parts[q] = ToFirst(RingOf(kind), CorrOf(conf, kind), q, InOf(conf, kind)[q])
    BY <1>24 DEF data
  <2>3. /\ UpStream(conf, q)[3] = ToFirst("xor", CorrOf(conf, "PSI"), q, InOf(conf, "PSI")[q])
        /\ UpStream(conf, q)[8] = ToFirst("xor", CorrOf(conf, "PSICS1"), q, InOf(conf, "PSICS1")[q])
        /\ UpStream(conf, q)[9] = ToFirst("add", CorrOf(conf, "PSICS2"), q, InOf(conf, "PSICS2")[q])
    BY DEF UpStream
  <2> HIDE DEF parts, kind
  <2> QED BY <1>23, <2>1, <2>2, <2>3 DEF RingOf
<1>27. m = HandedOf(conf, kind, 0)
  <2> DEFINE A == TotalOf(ring, sc.a, Sender)
             D == TotalOf(ring, data, Sender)
  <2>0. /\ Sender \in SUBSET Sender /\ Sender \in SUBSET Party /\ Party \in SUBSET Party /\ IsFiniteSet(Sender) /\ IsFiniteSet(Party)
        /\ Sender = Party \ {0}
    BY Parties
  <2>1. Gathered(ring) = TotalOf(ring, [q \in Sender |-> parts[q]], Sender)
    <3> HIDE DEF parts, ring
    <3> QED BY <1>0, <1>1, <1>26, GatheredIs
  <2>2. TotalOf(ring, [q \in Sender |-> parts[q]], Sender) = AddAll(ring, A, D)
    <3> DEFINE own == [q \in Sender |-> data[q]]
    <3>1. own \in [Sender -> Vector] /\ sc.a \in [Sender -> Vector] /\ \A q \in Sender : own[q] = data[q]
      BY <1>24, <2>0 DEF Fit
    <3>2. [q \in Sender |-> parts[q]] = Both(ring, sc.a, own)
      BY <3>1 DEF Both, ToFirst
    <3> HIDE DEF own, parts, ring, sc
    <3>3. TotalOf(ring, Both(ring, sc.a, own), Sender) = AddAll(ring, A, TotalOf(ring, own, Sender))
      BY <1>24, <2>0, <3>1, TotalAdds
    <3>4. TotalOf(ring, own, Sender) = D
      <4>1. Alike(own, data, Sender)
        BY <3>1 DEF Alike
      <4> QED BY <1>24, <2>0, <3>1, <4>1, TotalAgree
    <3> QED BY <3>2, <3>3, <3>4
  <2>3. A \in Vector /\ D \in Vector /\ data[0] \in Vector /\ J = AddAll(ring, D, data[0])
    <3>1. sc.a \in [Sender -> Vector]
      BY <1>24 DEF Fit
    <3>2. J = TotalOf(ring, data, Party)
      BY <1>24 DEF JointOf, data
    <3> HIDE DEF ring, sc, J
    <3>3. A \in Vector
      BY <1>24, <2>0, <3>1, TotalLaws
    <3>4. TotalOf(ring, data, Party) = AddAll(ring, TotalOf(ring, data, Party \ {0}), data[0]) /\ TotalOf(ring, data, Party \ {0}) \in Vector
      BY <1>2, <1>24, <2>0, TotalWithout
    <3> QED BY <1>2, <1>24, <2>0, <3>2, <3>3, <3>4
  <2>4. sum = AddAll(ring, AddAll(ring, A, D), data[0])
    BY <1>25, <2>1, <2>2
  <2>5. AddAll(ring, AddAll(ring, A, D), data[0]) = AddAll(ring, A, J)
    <3> HIDE DEF A, D, ring, J, sc
    <3>1. ring \in Rings
      BY <1>24
    <3>2. \A x, y, z \in Vector : AddAll(ring, AddAll(ring, x, y), z) = AddAll(ring, x, AddAll(ring, y, z))
      BY <3>1, VectorLaws
    <3> QED BY <2>3, <3>2
  <2>6. FromFirst(ring, sc, AddAll(ring, A, J)) = Handed(ring, sc, J, 0)
    <3> HIDE DEF ring, sc, J
    <3> QED BY <1>24, HandedFirst
  <2>7. HandedOf(conf, kind, 0) = Handed(ring, sc, J, 0)
    BY <1>24 DEF HandedOf
  <2> HIDE DEF sum, ring, sc, J, A, D
  <2> QED BY <2>4, <2>5, <2>6, <2>7
<1>28. left = OutOf(conf, kind)[0] /\ left \in Vector
  <2>0. 0 # N - 1
    BY Parties
  <2>1. OutOf(conf, kind) = LeftOver(ring, sc, J) /\ left = Left(ring, sc, J, 0)
    BY <1>24, <2>0 DEF OutOf, Left
  <2> HIDE DEF left, ring, sc, J
  <2>2. LeftOver(ring, sc, J)[0] = Left(ring, sc, J, 0) /\ Left(ring, sc, J, 0) \in Vector
    BY <1>2, <1>24, LeftTyped
  <2> QED BY <2>1, <2>2
<1>29. DOMAIN reply = {1} /\ reply[1] = m /\ 1 \in Sender
  <2>1. 1 \in Sender
    BY Parties DEF Party
  <2> QED BY <2>1
<1> HIDE DEF ring, sc, sum, m, reply, kind, J, parts, left, h
<1>3. h \in Reached(0, phase[0]) /\ h # "meet" /\ h # "start"
  BY <1>2, <1>22 DEF Reached
<1>4. Fits(0, h, phase[0], met[0]) /\ Stepped(0, h, phase[0], met[0])
  BY <1>0, <1>1, <1>2, <1>3, StandingGoes
<1>5. Alone(0) /\ pc'[0] = h /\ phase'[0] = phase[0] /\ conf' = conf
  BY <1>0, <1>1, <1>2, <1>4, StandingMoves
<1>50. /\ (pc[0] = "shuffle" => share'[0] = left /\ item'[0] = item[0]) /\ (pc[0] = "shuffleItems" => item'[0] = left /\ share'[0] = share[0])
  BY <1>0, <1>1, <1>2, <1>21 DEF Holding
<1>6. ShareOk(0)' /\ ItemOk(0)'
  <2>1. CASE phase[0] = 1
    <3>1. pc[0] = "shuffle" /\ h = "reveal" /\ kind = "PSI"
      BY <1>20, <1>22, <1>23, <2>1
    <3>2. ShareOk(0)'
      BY <1>1, <1>28, <1>5, <1>50, <2>1, <3>1 DEF ShareOk, KindAt
    <3>3. ItemOk(0)'
      BY <1>5, <2>1 DEF ItemOk
    <3> QED BY <3>2, <3>3
  <2>2. CASE phase[0] = 2 /\ pc[0] = "shuffle"
    <3>1. h = "shuffleItems" /\ kind = "PSICS1"
      BY <1>22, <1>23, <2>2
    <3>2. ShareOk(0)'
      BY <1>1, <1>28, <1>5, <1>50, <2>2, <3>1 DEF ShareOk, KindAt
    <3>3. ItemOk(0)'
      BY <1>1, <1>2, <1>5, <1>50, <2>2, <3>1 DEF ItemOk
    <3> QED BY <3>2, <3>3
  <2>3. CASE phase[0] = 2 /\ pc[0] = "shuffleItems"
    <3>1. h = "reveal" /\ kind = "PSICS2"
      BY <1>22, <1>23, <2>3
    <3>2. ShareOk(0)'
      BY <1>1, <1>2, <1>5, <1>50, <2>3, <3>1 DEF ShareOk, KindAt
    <3>3. ItemOk(0)'
      BY <1>1, <1>28, <1>5, <1>50, <2>3, <3>1 DEF ItemOk
    <3> QED BY <3>2, <3>3
  <2> QED BY <1>1, <1>2, <2>1, <2>2, <2>3
<1>7. early' \subseteq Party /\ Held(share, share', 0, left) /\ Held(item, item', 0, left) /\ Runs(0) /\ (phase[0] = 1 => h # "returned")
  <2>1. Held(share, share', 0, left)
    BY <1>1, <1>28 DEF Held
  <2>2. Held(item, item', 0, left)
    BY <1>1, <1>28 DEF Held
  <2> QED BY <1>0, <1>1, <1>22, <2>1, <2>2 DEF Paying, Runs
<1>8. Standing' /\ Holding' /\ Paying'
  <2>1. room' = room /\ charged' = charged
    BY <1>1 DEF Aside
  <2> QED BY <1>0, <1>4, <1>6, <1>7, <2>1, FirstMoves
<1>80. Learning' /\ Counting'
  <2>1. Learning'
    BY <1>0, <1>1, LearningIdle DEF Aside
  <2>2. pc[0] \in Quiet /\ pc'[0] \in Quiet
    BY <1>1, <1>22, <1>5 DEF Quiet
  <2>3. Counting'
    BY <1>0, <1>1, <1>5, <2>2, CountingMoves DEF Aside
  <2> QED BY <2>1, <2>3
<1>9. ASSUME NEW q \in Sender
      PROVE V(q)' = V(q) + 1 /\ Y(q)' = Y(q) + Second(q, 1) /\ (q = 1 => Y(q)' = Y(q) + 1 /\ DownStream(conf, q)[Y(q) + 1] = m) /\ (q # 1 => Y(q)' = Y(q))
  <2>1. /\ V(q) = TakenUp(phase[0], pc[0], conf.bad[0]) + 0 /\ Y(q) = Asked0(phase[0], pc[0], conf.bad[0]) + Second(q, X(0)) + 0
        /\ V(q)' = TakenUp(phase'[0], pc'[0], conf'.bad[0]) + 0
        /\ Y(q)' = Asked0(phase'[0], pc'[0], conf'.bad[0]) + Second(q, X(0)') + 0
    BY <1>0, <1>1, IdleCounters, IdleThen DEF Aside
  <2>2. X(0) = (IF phase[0] = 1 THEN 0 ELSE IF pc[0] = "shuffle" THEN 1 ELSE 2) /\ X(0)' = X(0) + 1
    BY <1>1, <1>2, <1>20, <1>22, <1>5 DEF X, Passed
  <2>3. TakenUp(phase'[0], pc'[0], conf'.bad[0]) = TakenUp(phase[0], pc[0], conf.bad[0]) + 1 /\ TakenUp(phase[0], pc[0], conf.bad[0]) \in Int
    BY <1>1, <1>2, <1>20, <1>22, <1>5 DEF TakenUp
  <2>4. /\ Asked0(phase'[0], pc'[0], conf'.bad[0]) = Asked0(phase[0], pc[0], conf.bad[0])
        /\ Asked0(phase[0], pc[0], conf.bad[0]) = IF phase[0] = 1 THEN 2 ELSE 5
    BY <1>1, <1>2, <1>20, <1>22, <1>5 DEF Asked0
  <2>5. V(q)' = V(q) + 1
    BY <2>1, <2>3
  <2>6. Y(q)' = Y(q) + Second(q, 1) /\ (q = 1 => Y(q)' = Y(q) + 1) /\ (q # 1 => Y(q)' = Y(q))
    BY <2>1, <2>2, <2>4 DEF Second
  <2>7. q = 1 => Y(q) + 1 = IF phase[0] = 1 THEN 3 ELSE IF pc[0] = "shuffle" THEN 7 ELSE 8
    BY <2>1, <2>2, <2>4 DEF Second
  <2>8. q = 1 => /\ DownStream(conf, q)[3] = HandedOf(conf, "PSI", 0) /\ DownStream(conf, q)[7] = HandedOf(conf, "PSICS1", 0)
                 /\ DownStream(conf, q)[8] = HandedOf(conf, "PSICS2", 0)
    BY DEF DownStream
  <2>9. q = 1 => DownStream(conf, q)[Y(q) + 1] = m
    BY <1>23, <1>27, <2>7, <2>8
  <2> QED BY <2>5, <2>6, <2>9
<1>11. Sockets'
  BY <1>0, <1>1, <1>29, <1>5, <1>9, FirstTakesAll
<1> QED BY <1>8, <1>80, <1>11 DEF Inv

\* Party 0's share and the senders' add up to all.
LEMMA TotalSplit ==
  ASSUME NEW ring \in Rings, NEW x \in [Party -> Vector], NEW y, y = [q \in Sender |-> x[q]]
  PROVE AddAll(ring, x[0], TotalOf(ring, y, Sender)) = TotalOf(ring, x, Party) /\ x[0] \in Vector /\ TotalOf(ring, y, Sender) \in Vector
<1>0. /\ Sender \in SUBSET Sender /\ Sender \in SUBSET Party /\ Party \in SUBSET Party /\ IsFiniteSet(Sender) /\ IsFiniteSet(Party)
      /\ Sender = Party \ {0} /\ 0 \in Party
  BY Parties
<1>1. y \in [Sender -> Vector] /\ Alike(y, x, Sender)
  BY <1>0 DEF Alike
<1>2. TotalOf(ring, y, Sender) = TotalOf(ring, x, Sender)
  BY <1>0, <1>1, TotalAgree
<1>3. TotalOf(ring, x, Party) = AddAll(ring, TotalOf(ring, x, Party \ {0}), x[0]) /\ TotalOf(ring, x, Party \ {0}) \in Vector
  BY <1>0, TotalWithout
<1>4. x[0] \in Vector
  BY <1>0
<1>5. AddAll(ring, x[0], TotalOf(ring, x, Sender)) = AddAll(ring, TotalOf(ring, x, Sender), x[0])
  BY <1>0, <1>3, <1>4, AddSwaps
<1> QED BY <1>0, <1>2, <1>3, <1>4, <1>5

\* What party 0 finds to be 0 is.
LEMMA HitsFound ==
  ASSUME Standing, Sockets, Learning, ShareOk(0), pc[0] = "reveal", EveryoneWaits
  PROVE Hits = HitsOf(conf, KindAt(phase[0]))
<1> DEFINE kind == KindAt(phase[0])
           out == OutOf(conf, kind)
           parts == [q \in Sender |-> out[q]]
<1>1. phase[0] \in 1..2 /\ Typed(conf)
  BY FirstAt
<1>2. kind \in AllKinds /\ kind = IF phase[0] = 1 THEN "PSI" ELSE "PSICS1"
  BY DEF KindAt, AllKinds
<1>3. out \in [Party -> Vector]
  <2> HIDE DEF kind
  <2> QED BY <1>1, <1>2, OutTyped
<1>4. share[0] = out[0]
  BY DEF ShareOk
<1>5. ASSUME NEW q \in Sender PROVE UpStream(conf, q)[V(q) + 1] = out[q]
  <2>1. V(q) + 1 = IF phase[0] = 1 THEN 4 ELSE 10
    <3>1. V(q) = TakenUp(phase[0], pc[0], conf.bad[0]) + 0
      BY IdleCounters
    <3>2. TakenUp(phase[0], pc[0], conf.bad[0]) = IF phase[0] = 1 THEN 3 ELSE 9
      BY <1>1 DEF TakenUp
    <3> QED BY <3>1, <3>2
  <2>2. UpStream(conf, q)[4] = OutOf(conf, "PSI")[q] /\ UpStream(conf, q)[10] = OutOf(conf, "PSICS1")[q]
    BY DEF UpStream
  <2> HIDE DEF kind
  <2> QED BY <1>2, <2>1, <2>2
<1> HIDE DEF out
<1>6. Gathered("xor") = TotalOf("xor", parts, Sender)
  BY <1>5, GatheredIs
<1>7. /\ AddAll("xor", out[0], TotalOf("xor", parts, Sender)) = TotalOf("xor", out, Party)
      /\ out[0] \in Vector /\ TotalOf("xor", parts, Sender) \in Vector
  <2>1. "xor" \in Rings
    BY DEF Rings
  <2> QED BY <1>3, <2>1, TotalSplit
<1> HIDE DEF parts
<1>8. PlusAll(share[0], Gathered("xor")) = TotalOf("xor", out, Party)
  BY <1>4, <1>6, <1>7, PlusAllIs
<1>9. Hits = {b \in Bin : TotalOf("xor", out, Party)[b] = {}}
  BY <1>8 DEF Hits
<1> QED BY <1>9 DEF HitsOf, out

\* Party 0 counts, and goes on to the sum or, where the number of values is wrong, to the release.
LEMMA ReconstructCounts == ASSUME Inv, Reconstruct, phase[0] = 1 PROVE Inv'
<1>0. Standing /\ Sockets /\ Holding /\ Learning /\ Counting /\ Paying
  BY DEF Inv
<1> DEFINE h == IF conf.bad[0] = "values" THEN "release" ELSE "meet"
<1>2. 0 \in Party /\ Typed(conf) /\ ShareOk(0) /\ ItemOk(0) /\ N \in Nat /\ N >= 2
  BY <1>0, FirstAt, Parties DEF Holding
<1>1. /\ pc[0] = "reveal" /\ EveryoneWaits /\ TakeAll(Nobody) /\ Goto(0, h) /\ card' = Cardinality(Hits)
      /\ phase' = [phase EXCEPT ![0] = 2] /\ met' = [met EXCEPT ![0] = 0]
      /\ (early' = early \/ early' = early \cup {0})
      /\ conf' = conf /\ files' = files /\ share' = share /\ item' = item /\ room' = room /\ charged' = charged
      /\ bits' = bits /\ agg' = agg /\ result' = result /\ asked' = asked /\ learned' = learned
  <2>1. /\ pc[0] = "reveal" /\ EveryoneWaits /\ card' = Cardinality(Hits) /\ TakeAll(Nobody) /\ SecondPhase(0)
        /\ conf' = conf /\ files' = files /\ share' = share /\ item' = item /\ room' = room /\ charged' = charged
        /\ bits' = bits /\ agg' = agg /\ result' = result /\ asked' = asked /\ learned' = learned
    BY DEF Reconstruct, At, vectors
  <2> QED BY <2>1 DEF SecondPhase
<1>21. h \in {"release", "meet"} /\ (conf.bad[0] = "values" => h = "release")
  OBVIOUS
<1> HIDE DEF h
<1>3. h \in Reached(0, 2)
  BY <1>21 DEF Reached
<1>4. Fits(0, h, 2, 0) /\ Stepped(0, h, 2, 0)
  <2>1. Fits(0, h, 2, 0)
    <3>1. 0 \in 0..(N - 1) /\ (h = "meet" => 0 < N - 1) /\ h # "start"
      BY <1>2, <1>21
    <3> QED BY <1>21, <1>3, <3>1 DEF Fits
  <2> QED BY <1>1, <2>1 DEF Stepped, Goto
<1>5. Alone(0) /\ pc'[0] = h /\ phase'[0] = 2
  BY <1>0, <1>2, <1>4, StandingMoves
<1>6. ShareOk(0)' /\ ItemOk(0)'
  BY <1>21, <1>5 DEF ShareOk, ItemOk
<1>7. early' \subseteq Party /\ Held(share, share', 0, share) /\ Held(item, item', 0, item) /\ Runs(0)
  BY <1>0, <1>1, <1>2 DEF Held, Paying, Runs
<1>8. Standing' /\ Holding' /\ Paying'
  <2>1. 2 = 1 => h # "returned"
    OBVIOUS
  <2> QED BY <1>0, <1>1, <1>4, <1>6, <1>7, <2>1, FirstMoves
<1>80. Learning'
  BY <1>0, <1>1, LearningIdle
<1>81. Counting'
  <2>1. Hits = HitsOf(conf, "PSI")
    BY <1>0, <1>1, <1>2, HitsFound DEF KindAt
  <2>2. agg = 0 /\ result = NoResult /\ bits \subseteq Bin
    BY <1>0 DEF Counting
  <2>3. pc'[0] # "sums" /\ ~(pc'[0] \in {"release", "returned"} /\ conf'.bad[0] # "values")
    <3>1. conf.bad[0] # "values" => h = "meet"
      BY DEF h
    <3> QED BY <1>1, <1>21, <1>5, <3>1
  <2>4. card' = Cardinality(HitsOf(conf', "PSI"))
    BY <1>1, <2>1
  <2> QED BY <1>1, <1>5, <2>2, <2>3, <2>4 DEF Counting
<1>9. ASSUME NEW q \in Sender PROVE V(q)' = V(q) + 1 /\ Y(q)' = Y(q)
  <2>1. /\ V(q) = TakenUp(phase[0], pc[0], conf.bad[0]) + 0 /\ Y(q) = Asked0(phase[0], pc[0], conf.bad[0]) + Second(q, X(0)) + 0
        /\ V(q)' = TakenUp(phase'[0], pc'[0], conf'.bad[0]) + 0
        /\ Y(q)' = Asked0(phase'[0], pc'[0], conf'.bad[0]) + Second(q, X(0)') + 0
    BY <1>0, <1>1, IdleCounters, IdleThen
  <2>0. conf'.bad[0] = conf.bad[0] /\ (h = "meet" => conf.bad[0] # "values") /\ (h = "release" => conf.bad[0] = "values")
    BY <1>1 DEF h
  <2>2. X(0) = 1 /\ X(0)' = 1
    BY <1>1, <1>21, <1>5, <2>0 DEF X, Passed
  <2>3. TakenUp(phase'[0], pc'[0], conf'.bad[0]) = 4 /\ TakenUp(phase[0], pc[0], conf.bad[0]) = 3
    BY <1>1, <1>21, <1>5, <2>0 DEF TakenUp
  <2>4. Asked0(phase'[0], pc'[0], conf'.bad[0]) = 2 /\ Asked0(phase[0], pc[0], conf.bad[0]) = 2
    BY <1>1, <1>21, <1>5, <2>0 DEF Asked0
  <2> QED BY <2>1, <2>2, <2>3, <2>4
<1>11. Sockets'
  <2>1. DOMAIN Nobody = {}
    BY DEF Nobody
  <2> QED BY <1>0, <1>1, <1>5, <1>9, <2>1, FirstTakesAll
<1> QED BY <1>8, <1>80, <1>81, <1>11 DEF Inv

\* Party 0 names the bins it has found.
LEMMA ReconstructNames == ASSUME Inv, Reconstruct, phase[0] # 1 PROVE Inv'
<1>0. Standing /\ Sockets /\ Holding /\ Learning /\ Counting /\ Paying
  BY DEF Inv
<1> DEFINE B == Hits
           reply == Everybody(B)
<1>1. /\ pc[0] = "reveal" /\ EveryoneWaits /\ TakeAll(reply) /\ Goto(0, "sums") /\ bits' = B /\ agg' = ItemsAt(0, B)
      /\ conf' = conf /\ files' = files /\ share' = share /\ item' = item /\ room' = room /\ charged' = charged /\ early' = early
      /\ card' = card /\ result' = result /\ asked' = asked /\ learned' = learned /\ phase' = phase /\ met' = met
  BY DEF Reconstruct, At, vectors
<1>2. 0 \in Party /\ phase[0] = 2 /\ Typed(conf) /\ ShareOk(0) /\ ItemOk(0)
  BY <1>0, FirstAt DEF Holding
<1>20. conf.bad[0] # "values"
  BY <1>0, <1>1, <1>2, FirstAt
<1>21. B = HitsOf(conf, "PSICS1")
  BY <1>0, <1>1, <1>2, HitsFound DEF KindAt
<1>22. DOMAIN reply = Sender /\ \A q \in Sender : reply[q] = B
  BY DEF Everybody
<1> HIDE DEF B, reply
<1>23. agg' = SumBy(conf, 0)
  <2>1. item[0] = OutOf(conf, "PSICS2")[0]
    BY <1>1, <1>2 DEF ItemOk
  <2>2. ItemsAt(0, B) = Items(item[0], B) % Modulus
    BY ItemsAtIs
  <2> QED BY <1>1, <1>21, <2>1, <2>2 DEF SumBy
<1>3. "sums" \in Reached(0, phase[0])
  BY <1>2 DEF Reached
<1>4. Fits(0, "sums", phase[0], met[0]) /\ Stepped(0, "sums", phase[0], met[0])
  BY <1>0, <1>1, <1>2, <1>3, StandingGoes
<1>5. Alone(0) /\ pc'[0] = "sums" /\ phase'[0] = 2
  BY <1>0, <1>2, <1>4, StandingMoves
<1>6. ShareOk(0)' /\ ItemOk(0)'
  BY <1>5 DEF ShareOk, ItemOk
<1>7. early' \subseteq Party /\ Held(share, share', 0, share) /\ Held(item, item', 0, item) /\ Runs(0)
  BY <1>0, <1>1, <1>2 DEF Held, Paying, Runs
<1>8. Standing' /\ Holding' /\ Paying'
  <2>1. phase[0] = 1 => "sums" # "returned"
    OBVIOUS
  <2> QED BY <1>0, <1>1, <1>4, <1>6, <1>7, <2>1, FirstMoves
<1>80. Learning'
  BY <1>0, <1>1, LearningIdle
<1>81. Counting'
  <2>1. bits' \subseteq Bin
    <3>1. HitsOf(conf, "PSICS1") \subseteq Bin
      BY DEF HitsOf
    <3> QED BY <1>1, <1>21, <3>1
  <2>2. card = Cardinality(HitsOf(conf, "PSI")) /\ result = NoResult
    BY <1>0, <1>1, <1>2 DEF Counting
  <2>3. card' = Cardinality(HitsOf(conf', "PSI")) /\ agg' = SumBy(conf', 0) /\ result' = NoResult
    BY <1>1, <1>23, <2>2
  <2> QED BY <1>5, <2>1, <2>3 DEF Counting
<1>9. ASSUME NEW q \in Sender PROVE V(q)' = V(q) + 1 /\ Y(q)' = Y(q) + 1 /\ DownStream(conf, q)[Y(q) + 1] = B
  <2>1. /\ V(q) = TakenUp(phase[0], pc[0], conf.bad[0]) + 0 /\ Y(q) = Asked0(phase[0], pc[0], conf.bad[0]) + Second(q, X(0)) + 0
        /\ V(q)' = TakenUp(phase'[0], pc'[0], conf'.bad[0]) + 0
        /\ Y(q)' = Asked0(phase'[0], pc'[0], conf'.bad[0]) + Second(q, X(0)') + 0
    BY <1>0, <1>1, IdleCounters, IdleThen
  <2>2. X(0) = 3 /\ X(0)' = 3
    BY <1>1, <1>2, <1>5 DEF X, Passed
  <2>3. TakenUp(phase'[0], pc'[0], conf'.bad[0]) = 10 /\ TakenUp(phase[0], pc[0], conf.bad[0]) = 9
    BY <1>1, <1>2, <1>5 DEF TakenUp
  <2>4. Asked0(phase'[0], pc'[0], conf'.bad[0]) = 6 /\ Asked0(phase[0], pc[0], conf.bad[0]) = 5
    BY <1>1, <1>2, <1>5 DEF Asked0
  <2>5. V(q)' = V(q) + 1 /\ Y(q)' = Y(q) + 1 /\ Y(q) + 1 = IF q = 1 THEN 9 ELSE 6
    BY <2>1, <2>2, <2>3, <2>4 DEF Second
  <2>6. /\ (q = 1 => DownStream(conf, q)[9] = HitsOf(conf, "PSICS1"))
        /\ (q # 1 => DownStream(conf, q)[6] = HitsOf(conf, "PSICS1"))
    BY DEF DownStream
  <2> QED BY <1>21, <2>5, <2>6
<1>11. Sockets'
  BY <1>0, <1>1, <1>22, <1>5, <1>9, FirstTakesAll
<1> QED BY <1>8, <1>80, <1>81, <1>11 DEF Inv

\* Party 0 adds up what everyone has summed.
LEMMA TakeSumsKeeps == ASSUME Inv, TakeSums PROVE Inv'
<1>0. Standing /\ Sockets /\ Holding /\ Learning /\ Counting /\ Paying
  BY DEF Inv
<1>1. /\ pc[0] = "sums" /\ EveryoneWaits /\ TakeAll(Nobody) /\ Goto(0, "release") /\ agg' = AddedUp(chan, agg, Sender) % Modulus
      /\ conf' = conf /\ files' = files /\ share' = share /\ item' = item /\ room' = room /\ charged' = charged /\ early' = early
      /\ card' = card /\ bits' = bits /\ result' = result /\ asked' = asked /\ learned' = learned /\ phase' = phase /\ met' = met
  <2>1. agg' = AddedUp(chan, agg, Sender) % Modulus
    BY Zenon DEF TakeSums, AddedUp, First, Modulus
  <2> QED BY <2>1 DEF TakeSums, At, history, vectors
<1>2. 0 \in Party /\ phase[0] = 2 /\ Typed(conf) /\ ShareOk(0) /\ ItemOk(0) /\ conf.bad[0] # "values"
  BY <1>0, <1>1, FirstAt DEF Holding
<1>22. ASSUME NEW q \in Sender PROVE V(q) = 10 /\ First(q, 0) = SumBy(conf, q)
  <2>1. V(q) = TakenUp(phase[0], pc[0], conf.bad[0]) + 0
    BY <1>0, <1>1, IdleCounters
  <2>2. TakenUp(phase[0], pc[0], conf.bad[0]) = 10
    BY <1>1, <1>2 DEF TakenUp
  <2>3. First(q, 0) = UpStream(conf, q)[V(q) + 1]
    BY <1>0, <1>1, HeadUp DEF EveryoneWaits
  <2>4. UpStream(conf, q)[11] = SumBy(conf, q)
    BY DEF UpStream
  <2> QED BY <2>1, <2>2, <2>3, <2>4
<1>23. agg' = AggOf(conf)
  <2>0. Sender \in SUBSET Party /\ Sender \in SUBSET Sender /\ IsFiniteSet(Sender)
    BY Parties
  <2>1. SumsOf(conf) \in [Party -> Int] /\ \A p \in Party : SumsOf(conf)[p] = SumBy(conf, p)
    BY <1>2, SumsTyped
  <2>2. agg = SumsOf(conf)[0] /\ agg \in Int
    BY <1>0, <1>1, <1>2, <2>1 DEF Counting
  <2>3. \A q \in Sender : Head(chan[<<q, 0>>]) = SumsOf(conf)[q] /\ SumsOf(conf)[q] \in Int
    BY <1>22, <2>0, <2>1 DEF First
  <2>4. Heads(chan) \in [Sender -> Int] /\ \A q \in Sender : Heads(chan)[q] = SumsOf(conf)[q]
    BY <2>3 DEF Heads
  <2>5. AddedUp(chan, agg, Sender) = agg + SumOver(Heads(chan), Sender)
    BY <2>2, <2>4, AddedUpIs
  <2>6. SumOver(Heads(chan), Sender) = SumOver(SumsOf(conf), Sender)
    <3>1. Alike(Heads(chan), SumsOf(conf), Sender)
      BY <2>4 DEF Alike
    <3> QED BY <2>0, <2>1, <2>4, <3>1, SumAgree
  <2> QED BY <1>1, <2>2, <2>5, <2>6 DEF AggOf
<1>3. "release" \in Reached(0, phase[0])
  BY <1>2 DEF Reached
<1>4. Fits(0, "release", phase[0], met[0]) /\ Stepped(0, "release", phase[0], met[0])
  BY <1>0, <1>1, <1>2, <1>3, StandingGoes
<1>5. Alone(0) /\ pc'[0] = "release" /\ phase'[0] = 2
  BY <1>0, <1>2, <1>4, StandingMoves
<1>6. ShareOk(0)' /\ ItemOk(0)'
  BY <1>5 DEF ShareOk, ItemOk
<1>7. early' \subseteq Party /\ Held(share, share', 0, share) /\ Held(item, item', 0, item) /\ Runs(0)
  BY <1>0, <1>1, <1>2 DEF Held, Paying, Runs
<1>8. Standing' /\ Holding' /\ Paying'
  <2>1. phase[0] = 1 => "release" # "returned"
    OBVIOUS
  <2> QED BY <1>0, <1>1, <1>4, <1>6, <1>7, <2>1, FirstMoves
<1>80. Learning'
  BY <1>0, <1>1, LearningIdle
<1>81. Counting'
  <2>2. card = Cardinality(HitsOf(conf, "PSI")) /\ result = NoResult /\ bits \subseteq Bin
    BY <1>0, <1>1, <1>2 DEF Counting
  <2>3. card' = Cardinality(HitsOf(conf', "PSI")) /\ agg' = AggOf(conf') /\ result' = NoResult /\ bits' \subseteq Bin /\ conf'.bad[0] # "values"
    BY <1>1, <1>2, <1>23, <2>2
  <2> QED BY <1>5, <2>3 DEF Counting
<1>9. ASSUME NEW q \in Sender PROVE V(q)' = V(q) + 1 /\ Y(q)' = Y(q)
  <2>1. /\ Y(q) = Asked0(phase[0], pc[0], conf.bad[0]) + Second(q, X(0)) + 0
        /\ V(q)' = TakenUp(phase'[0], pc'[0], conf'.bad[0]) + 0
        /\ Y(q)' = Asked0(phase'[0], pc'[0], conf'.bad[0]) + Second(q, X(0)') + 0
    BY <1>0, <1>1, IdleCounters, IdleThen
  <2>2. X(0) = 3 /\ X(0)' = 3
    BY <1>1, <1>2, <1>5 DEF X, Passed
  <2>3. TakenUp(phase'[0], pc'[0], conf'.bad[0]) = 11
    BY <1>1, <1>2, <1>5 DEF TakenUp
  <2>4. Asked0(phase'[0], pc'[0], conf'.bad[0]) = 6 /\ Asked0(phase[0], pc[0], conf.bad[0]) = 6
    BY <1>1, <1>2, <1>5 DEF Asked0
  <2> QED BY <1>22, <2>1, <2>2, <2>3, <2>4
<1>11. Sockets'
  <2>1. DOMAIN Nobody = {}
    BY DEF Nobody
  <2> QED BY <1>0, <1>1, <1>5, <1>9, <2>1, FirstTakesAll
<1> QED BY <1>8, <1>80, <1>81, <1>11 DEF Inv

\* Party 0 publishes.
LEMMA ReleaseKeeps == ASSUME Inv, NEW cardNoise, NEW aggNoise, Release(cardNoise, aggNoise) PROVE Inv'
<1>0. Standing /\ Sockets /\ Holding /\ Learning /\ Counting /\ Paying
  BY DEF Inv
<1>1. /\ pc[0] = "release" /\ Goto(0, "returned")
      /\ conf' = conf /\ files' = files /\ share' = share /\ item' = item /\ room' = room /\ charged' = charged /\ early' = early
      /\ card' = card /\ bits' = bits /\ agg' = agg /\ asked' = asked /\ learned' = learned /\ phase' = phase /\ met' = met /\ chan' = chan
  BY DEF Release, At, history, vectors
<1>2. 0 \in Party /\ phase[0] = 2
  BY <1>0, <1>1, FirstAt
<1>3. "returned" \in Reached(0, phase[0])
  BY <1>2 DEF Reached
<1>4. Fits(0, "returned", phase[0], met[0]) /\ Stepped(0, "returned", phase[0], met[0])
  BY <1>0, <1>1, <1>2, <1>3, StandingGoes
<1>5. Alone(0) /\ pc'[0] = "returned" /\ phase'[0] = 2
  BY <1>0, <1>2, <1>4, StandingMoves
<1>6. ShareOk(0)' /\ ItemOk(0)'
  BY <1>5 DEF ShareOk, ItemOk
<1>7. early' \subseteq Party /\ Held(share, share', 0, share) /\ Held(item, item', 0, item) /\ Runs(0)
  BY <1>0, <1>1, <1>2 DEF Held, Paying, Runs
<1>8. Standing' /\ Holding' /\ Paying'
  <2>1. phase[0] = 1 => "returned" # "returned"
    BY <1>2
  <2> QED BY <1>0, <1>1, <1>4, <1>6, <1>7, <2>1, FirstMoves
<1>80. Learning'
  BY <1>0, <1>1, LearningIdle
<1>81. Counting'
  <2>1. card = Cardinality(HitsOf(conf, "PSI")) /\ bits \subseteq Bin /\ agg = IF conf.bad[0] # "values" THEN AggOf(conf) ELSE 0
    BY <1>0, <1>1, <1>2 DEF Counting
  <2>2. card' = Cardinality(HitsOf(conf', "PSI")) /\ bits' \subseteq Bin /\ agg' = IF conf'.bad[0] # "values" THEN AggOf(conf') ELSE 0
    BY <1>1, <2>1
  <2> QED BY <1>5, <2>2 DEF Counting
<1>9. X(0)' = X(0)
  BY <1>1, <1>2, <1>5 DEF X, Passed
<1>10. ASSUME NEW q \in Sender PROVE V(q)' = V(q) /\ Y(q)' = Y(q)
  <2>1. /\ V(q) = TakenUp(phase[0], pc[0], conf.bad[0]) + 0 /\ Y(q) = Asked0(phase[0], pc[0], conf.bad[0]) + Second(q, X(0)) + 0
        /\ V(q)' = TakenUp(phase'[0], pc'[0], conf'.bad[0]) + 0
        /\ Y(q)' = Asked0(phase'[0], pc'[0], conf'.bad[0]) + Second(q, X(0)') + 0
    BY <1>0, <1>1, IdleCounters, IdleThen
  <2>2. TakenUp(phase'[0], pc'[0], conf'.bad[0]) = TakenUp(phase[0], pc[0], conf.bad[0])
    BY <1>1, <1>2, <1>5 DEF TakenUp
  <2>3. Asked0(phase'[0], pc'[0], conf'.bad[0]) = Asked0(phase[0], pc[0], conf.bad[0])
    BY <1>1, <1>2, <1>5 DEF Asked0
  <2> QED BY <1>9, <2>1, <2>2, <2>3
<1>11. Sockets'
  <2>1. \A q \in Sender : U(q)' = U(q) /\ W(q)' = W(q) /\ X(q)' = X(q)
    BY <1>5, FirstFrame
  <2>2. \A p \in Party : X(p)' = X(p)
    BY <1>9, <2>1, Parties
  <2> QED BY <1>0, <1>1, <1>10, <2>1, <2>2, SocketsStill
<1> QED BY <1>8, <1>80, <1>81, <1>11 DEF Inv

-----------------------------------------------------------------------------
(* The lookups. *)

\* One in the first phase, two in the second.
LEMMA KindsAre ==
  ASSUME NEW f \in 1..2
  PROVE /\ Len(Kinds(f)) = f /\ \A i \in 1..f : Kinds(f)[i] \in AllKinds
        /\ (f = 1 => Kinds(f)[1] = "PSI") /\ (f = 2 => Kinds(f)[1] = "PSICS1" /\ Kinds(f)[2] = "PSICS2")
        /\ Kinds(f)[1] = KindAt(f)
<1>1. CASE f = 1
  <2>1. Kinds(f) = <<"PSI">>
    BY <1>1 DEF Kinds
  <2>2. Len(<<"PSI">>) = 1 /\ <<"PSI">>[1] = "PSI"
    OBVIOUS
  <2>3. \A i \in 1..1 : i = 1
    OBVIOUS
  <2> QED BY <1>1, <2>1, <2>2, <2>3 DEF AllKinds, KindAt
<1>2. CASE f = 2
  <2>1. Kinds(f) = <<"PSICS1", "PSICS2">>
    BY <1>2 DEF Kinds
  <2>2. Len(<<"PSICS1", "PSICS2">>) = 2 /\ <<"PSICS1", "PSICS2">>[1] = "PSICS1" /\ <<"PSICS1", "PSICS2">>[2] = "PSICS2"
    OBVIOUS
  <2>3. \A i \in 1..2 : i = 1 \/ i = 2
    OBVIOUS
  <2> QED BY <1>2, <2>1, <2>2, <2>3 DEF AllKinds, KindAt
<1> QED BY <1>1, <1>2

\* How far party 0 is with a sender.
LEMMA LookupAt ==
  ASSUME Standing, Learning, pc[0] = "lookup", NEW q \in Sender
  PROVE /\ learned[q] \in Seq(Vector) /\ Len(learned[q]) \in Nat /\ asked[q] \in 0..phase[0] /\ phase[0] \in 1..2
        /\ Len(learned[q]) <= asked[q] /\ asked[q] <= Len(learned[q]) + 1
        /\ \A i \in 1..Len(learned[q]) : learned[q][i] = FoundIn(conf, Kinds(phase[0])[i], q)
        /\ (phase[0] = 2 => conf.bad[0] # "values")
        /\ V(q) = (IF phase[0] = 1 THEN 0 ELSE 4) + Len(learned[q]) /\ X(0) = (IF phase[0] = 1 THEN 0 ELSE 1)
        /\ Y(q) = (IF phase[0] = 1 THEN 0 ELSE IF q = 1 THEN 3 ELSE 2) + asked[q]
<1>1. phase[0] \in 1..2 /\ (phase[0] = 2 => conf.bad[0] # "values")
  BY FirstAt
<1>2. LookedUp(q) /\ learned[q] \in Seq(Vector) /\ asked[q] \in 0..2
  BY DEF Learning
<1>3. Len(learned[q]) \in Nat
  BY <1>2
<1>4. /\ Len(learned[q]) <= asked[q] /\ asked[q] <= Len(learned[q]) + 1 /\ asked[q] <= phase[0]
      /\ \A i \in 1..Len(learned[q]) : learned[q][i] = FoundIn(conf, Kinds(phase[0])[i], q)
  BY <1>1, <1>2, KindsAre DEF LookedUp
<1>5. asked[q] \in 0..phase[0]
  BY <1>1, <1>2, <1>4
<1>6. TakenUp(phase[0], pc[0], conf.bad[0]) = IF phase[0] = 1 THEN 0 ELSE 4
  BY <1>1 DEF TakenUp
<1>7. X(0) = IF phase[0] = 1 THEN 0 ELSE 1
  BY <1>1 DEF X, Passed
<1>8. Asked0(phase[0], pc[0], conf.bad[0]) = IF phase[0] = 1 THEN 0 ELSE 2
  BY <1>1 DEF Asked0
<1>9. V(q) = (IF phase[0] = 1 THEN 0 ELSE 4) + Len(learned[q])
  BY <1>6 DEF V
<1>10. Asked0(phase[0], pc[0], conf.bad[0]) + Second(q, X(0)) = IF phase[0] = 1 THEN 0 ELSE IF q = 1 THEN 3 ELSE 2
  BY <1>7, <1>8 DEF Second
<1>11. Y(q) = (IF phase[0] = 1 THEN 0 ELSE IF q = 1 THEN 3 ELSE 2) + asked[q]
  BY <1>10 DEF Y
<1> QED BY <1>1, <1>2, <1>3, <1>4, <1>5, <1>7, <1>9, <1>11

\* Nobody goes on.
LEMMA PlacesStay ==
  ASSUME Standing, Holding, conf' = conf, files' = files, pc' = pc, phase' = phase, met' = met, share' = share, item' = item
  PROVE Standing' /\ Holding' /\ \A p \in Party : Alone(p)
<1>1. ASSUME NEW p \in Party PROVE PlaceOk(p)' /\ (ShareOk(p) /\ ItemOk(p))' /\ Alone(p)
  <2>1. PlaceOk(p) /\ ShareOk(p) /\ ItemOk(p)
    BY DEF Standing, Holding
  <2>2. Reached(p, phase[p])' = Reached(p, phase[p])
    BY DEF Reached
  <2>3. PlaceOk(p)'
    BY <2>1, <2>2 DEF PlaceOk
  <2>4. ShareOk(p)'
    BY <2>1 DEF ShareOk
  <2>5. ItemOk(p)'
    BY <2>1 DEF ItemOk
  <2> QED BY <2>3, <2>4, <2>5 DEF Alone
<1>2. Prepared(conf.seed)' = Prepared(conf.seed)
  OBVIOUS
<1>3. Standing'
  BY <1>1, <1>2 DEF Standing
<1>4. Holding'
  BY <1>1 DEF Holding
<1> QED BY <1>1, <1>3, <1>4

\* Party 0 sends a sender its table.
LEMMA AskSenderKeeps == ASSUME Inv, NEW q \in Sender, AskSender(q) PROVE Inv'
<1>0. Standing /\ Sockets /\ Holding /\ Learning /\ Counting /\ Paying
  BY DEF Inv
<1> DEFINE kinds == Kinds(phase[0])
           n == asked[q] + 1
           m == DiffC(conf.table, files.vole[kinds[n]][q].recv)
<1>1. /\ pc[0] = "lookup" /\ asked[q] = Len(learned[q]) /\ asked[q] < Len(kinds) /\ asked' = [asked EXCEPT ![q] = n]
      /\ Send(0, q, m)
      /\ conf' = conf /\ files' = files /\ share' = share /\ item' = item /\ room' = room /\ charged' = charged /\ early' = early
      /\ pc' = pc /\ phase' = phase /\ met' = met /\ learned' = learned /\ card' = card /\ bits' = bits /\ agg' = agg /\ result' = result
  <2>1. /\ pc[0] = "lookup" /\ asked[q] = Len(learned[q]) /\ asked[q] < Len(kinds) /\ asked' = [asked EXCEPT ![q] = n]
        /\ Send(0, q, DiffC(conf.table, files.vole[kinds[asked'[q]]][q].recv))
        /\ conf' = conf /\ files' = files /\ share' = share /\ item' = item /\ room' = room /\ charged' = charged /\ early' = early
        /\ pc' = pc /\ phase' = phase /\ met' = met /\ learned' = learned /\ card' = card /\ bits' = bits /\ agg' = agg /\ result' = result
    BY DEF AskSender, At, history, vectors
  <2>2. asked'[q] = n
    BY <1>0, <2>1 DEF Learning
  <2> QED BY <2>1, <2>2
<1>2. /\ phase[0] \in 1..2 /\ Typed(conf) /\ files = Prepared(conf.seed) /\ 0 \in Party
      /\ (phase[0] = 2 => conf.bad[0] # "values") /\ asked[q] \in Nat
      /\ Y(q) = (IF phase[0] = 1 THEN 0 ELSE IF q = 1 THEN 3 ELSE 2) + asked[q]
  BY <1>0, <1>1, FirstAt, LookupAt DEF Standing
<1>3. /\ n \in 1..phase[0] /\ kinds[n] \in AllKinds /\ Len(kinds) = phase[0]
      /\ (phase[0] = 1 => n = 1 /\ kinds[1] = "PSI") /\ (phase[0] = 2 => kinds[1] = "PSICS1" /\ kinds[2] = "PSICS2" /\ n \in {1, 2})
  <2>1. Len(kinds) = phase[0] /\ (phase[0] = 1 => kinds[1] = "PSI") /\ (phase[0] = 2 => kinds[1] = "PSICS1" /\ kinds[2] = "PSICS2")
        /\ \A i \in 1..phase[0] : kinds[i] \in AllKinds
    BY <1>2, KindsAre
  <2> HIDE DEF kinds
  <2>2. n \in 1..phase[0]
    BY <1>1, <1>2, <2>1
  <2> QED BY <1>2, <2>1, <2>2
<1>4. m = DownStream(conf, q)[Y(q) + 1]
  <2>1. m = DiffOf(conf, kinds[n], q)
    <3>1. files.vole[kinds[n]][q].recv = RecvOf(conf, kinds[n], q)
      <4> HIDE DEF kinds, n
      <4> QED BY <1>2, <1>3, VolesAre DEF RecvOf
    <3> QED BY <3>1 DEF DiffOf
  <2>2. Y(q) + 1 = (IF phase[0] = 1 THEN 0 ELSE IF q = 1 THEN 3 ELSE 2) + n
    BY <1>2
  <2>3. /\ DownStream(conf, q)[1] = DiffOf(conf, "PSI", q)
        /\ (q = 1 => DownStream(conf, q)[4] = DiffOf(conf, "PSICS1", q) /\ DownStream(conf, q)[5] = DiffOf(conf, "PSICS2", q))
        /\ (q # 1 => DownStream(conf, q)[3] = DiffOf(conf, "PSICS1", q) /\ DownStream(conf, q)[4] = DiffOf(conf, "PSICS2", q))
    BY DEF DownStream
  <2> HIDE DEF m, n, kinds
  <2> QED BY <1>2, <1>3, <2>1, <2>2, <2>3
<1> HIDE DEF m
<1>5. Standing' /\ Holding' /\ Alone(0)
  BY <1>0, <1>1, <1>2, PlacesStay
<1>6. Counting' /\ Paying'
  <2>1. Counting'
    BY <1>0, <1>1, CountingStays
  <2>2. early' \subseteq Party /\ \A r \in Party : Entered(r)' = Entered(r)
    BY <1>0, <1>1 DEF Entered, Paying
  <2> QED BY <1>0, <1>1, <2>1, <2>2, PayingStays
<1>7. asked' \in [Sender -> 0..2] /\ asked'[q] = n /\ \A r \in Sender \ {q} : asked'[r] = asked[r]
  BY <1>0, <1>1, <1>2, <1>3 DEF Learning
<1>8. Learning'
  <2>1. ASSUME NEW r \in Sender PROVE LookedUp(r)'
    <3>1. LookedUp(r)
      BY <1>0 DEF Learning
    <3>2. Kinds(phase'[0]) = kinds /\ pc'[0] = "lookup" /\ learned' = learned /\ conf' = conf
      BY <1>1
    <3>3. CASE r # q
      BY <1>7, <3>1, <3>2, <3>3 DEF LookedUp
    <3>4. CASE r = q
      <4>1. /\ Len(learned'[r]) <= asked'[r] /\ asked'[r] <= Len(learned'[r]) + 1 /\ asked'[r] <= Len(kinds)
        <5>1. asked'[r] = Len(learned[r]) + 1 /\ Len(learned[r]) \in Nat
          BY <1>1, <1>2, <1>7, <3>4
        <5>2. asked'[r] <= Len(kinds)
          BY <1>3, <1>7, <3>4
        <5> QED BY <3>2, <5>1, <5>2
      <4>2. \A i \in 1..Len(learned[r]) : learned[r][i] = FoundIn(conf, kinds[i], r)
        BY <3>1 DEF LookedUp
      <4> HIDE DEF kinds
      <4> QED BY <3>2, <4>1, <4>2 DEF LookedUp
    <3> QED BY <3>3, <3>4
  <2> QED BY <1>0, <1>1, <1>7, <2>1 DEF Learning
<1>9. /\ Y(q)' = Y(q) + 1 /\ \A r \in Sender \ {q} : Y(r)' = Y(r)
      /\ \A r \in Sender : V(r)' = V(r)
  <2>1. X(0)' = X(0)
    BY <1>1 DEF X
  <2>2. \A r \in Sender \ {q} : Y(r)' = Y(r)
    BY <1>1, <1>7, <2>1 DEF Y
  <2>3. \A r \in Sender : V(r)' = V(r)
    BY <1>1 DEF V
  <2>4. Y(q)' = Y(q) + 1
    <3> DEFINE a == Asked0(phase[0], pc[0], conf.bad[0]) + Second(q, X(0))
    <3>1. a' = a
      BY <1>1, <2>1
    <3>2. a = IF phase[0] = 1 THEN 0 ELSE IF q = 1 THEN 3 ELSE 2
      <4>1. Asked0(phase[0], pc[0], conf.bad[0]) = IF phase[0] = 1 THEN 0 ELSE 2
        BY <1>1, <1>2 DEF Asked0
      <4>2. X(0) = IF phase[0] = 1 THEN 0 ELSE 1
        BY <1>1, <1>2 DEF X, Passed
      <4> QED BY <4>1, <4>2 DEF Second
    <3>3. Y(q)' = a' + asked'[q] /\ Y(q) = a + asked[q]
      BY DEF Y
    <3> HIDE DEF a
    <3> QED BY <1>2, <1>7, <3>1, <3>2, <3>3
  <2> QED BY <2>2, <2>3, <2>4
<1>10. Sockets'
  BY <1>0, <1>1, <1>4, <1>5, <1>9, FirstAsks
<1> QED BY <1>5, <1>6, <1>8, <1>10 DEF Inv

\* What is looked up so far, and one vector more.
Gain(q, here) == [learned EXCEPT ![q] = Append(@, here)]

\* The vectors before it stay.
LEMMA GainIs ==
  ASSUME Learning, NEW q \in Sender, NEW here \in Vector
  PROVE /\ Gain(q, here) \in [Sender -> Seq(Vector)] /\ Len(learned[q]) \in Nat
        /\ Len(Gain(q, here)[q]) = Len(learned[q]) + 1 /\ Gain(q, here)[q][Len(learned[q]) + 1] = here
        /\ \A i \in 1..Len(learned[q]) : Gain(q, here)[q][i] = learned[q][i]
        /\ \A r \in Sender \ {q} : Gain(q, here)[r] = learned[r]
<1>1. learned \in [Sender -> Seq(Vector)] /\ learned[q] \in Seq(Vector)
  BY DEF Learning
<1> DEFINE old == learned[q]
           new == Append(old, here)
<1>2. Gain(q, here) = [learned EXCEPT ![q] = new]
  BY DEF Gain
<1>3. /\ new \in Seq(Vector) /\ Len(old) \in Nat /\ Len(new) = Len(old) + 1 /\ new[Len(old) + 1] = here
      /\ \A i \in 1..Len(old) : new[i] = old[i]
  <2> HIDE DEF old
  <2> QED BY <1>1 DEF old
<1> HIDE DEF new
<1>4. /\ Gain(q, here) \in [Sender -> Seq(Vector)] /\ Gain(q, here)[q] = new
      /\ \A r \in Sender \ {q} : Gain(q, here)[r] = learned[r]
  BY <1>1, <1>2, <1>3
<1> QED BY <1>3, <1>4

\* What party 0 finds in the function a sender has sent it.
LEMMA LearnedHere ==
  ASSUME Standing, Sockets, Learning, pc[0] = "lookup", NEW q \in Sender, asked[q] > Len(learned[q]), Waiting(q, 0),
         NEW kind, kind = Kinds(phase[0])[asked[q]]
  PROVE /\ asked[q] = Len(learned[q]) + 1 /\ asked[q] \in 1..phase[0] /\ kind \in AllKinds /\ FoundIn(conf, kind, q) \in Vector
        /\ Learned(First(q, 0), conf.table, files.vole[kind][q].recv, [b \in Bin |-> Draw(conf.seed, kind \o "junk", q, b)])
             = FoundIn(conf, kind, q)
<1>1. /\ phase[0] \in 1..2 /\ Typed(conf) /\ files = Prepared(conf.seed) /\ Len(learned[q]) \in Nat
      /\ asked[q] \in 0..phase[0] /\ asked[q] <= Len(learned[q]) + 1
      /\ V(q) = (IF phase[0] = 1 THEN 0 ELSE 4) + Len(learned[q])
  BY FirstAt, LookupAt DEF Standing
<1>2. asked[q] = Len(learned[q]) + 1 /\ asked[q] \in 1..phase[0]
  BY <1>1
<1>3. kind \in AllKinds /\ (phase[0] = 1 => kind = "PSI") /\ (phase[0] = 2 => kind = IF asked[q] = 1 THEN "PSICS1" ELSE "PSICS2")
  <2>1. /\ \A i \in 1..phase[0] : Kinds(phase[0])[i] \in AllKinds
        /\ (phase[0] = 1 => Kinds(phase[0])[1] = "PSI")
        /\ (phase[0] = 2 => Kinds(phase[0])[1] = "PSICS1" /\ Kinds(phase[0])[2] = "PSICS2")
    BY <1>1, KindsAre
  <2>2. phase[0] = 1 => asked[q] = 1
    BY <1>2
  <2>3. phase[0] = 2 => asked[q] = 1 \/ asked[q] = 2
    BY <1>2
  <2> QED BY <1>2, <2>1, <2>2, <2>3
<1>4. First(q, 0) = OkvsOf(conf, kind, q)
  <2>1. First(q, 0) = UpStream(conf, q)[V(q) + 1]
    BY HeadUp
  <2> DEFINE v == V(q)
             n == asked[q]
             k == Len(learned[q])
  <2>2. /\ v = (IF phase[0] = 1 THEN 0 ELSE 4) + k /\ n = k + 1 /\ k \in Nat /\ n \in 1..phase[0]
        /\ (phase[0] = 2 => kind = IF n = 1 THEN "PSICS1" ELSE "PSICS2")
    BY <1>1, <1>2, <1>3
  <2>3. V(q) + 1 = IF kind = "PSI" THEN 1 ELSE IF kind = "PSICS1" THEN 5 ELSE 6
    <3> HIDE DEF v, n, k
    <3>1. CASE phase[0] = 1
      <4>1. v = k /\ n = 1 /\ kind = "PSI"
        BY <1>3, <2>2, <3>1
      <4>2. v + 1 = 1
        BY <2>2, <4>1
      <4> QED BY <4>1, <4>2 DEF v
    <3>2. CASE phase[0] = 2
      <4>1. v = 4 + k
        BY <2>2, <3>2
      <4>2. n = 1 \/ n = 2
        BY <2>2, <3>2
      <4>3. (n = 1 => v + 1 = 5 /\ kind = "PSICS1") /\ (n = 2 => v + 1 = 6 /\ kind = "PSICS2")
        BY <2>2, <3>2, <4>1, <4>2
      <4>4. CASE n = 1
        <5>1. v + 1 = 5 /\ kind = "PSICS1"
          BY <4>3, <4>4
        <5> QED BY <5>1 DEF v
      <4>5. CASE n = 2
        <5>1. v + 1 = 6 /\ kind = "PSICS2"
          BY <4>3, <4>5
        <5> QED BY <5>1 DEF v
      <4> QED BY <4>2, <4>4, <4>5
    <3>3. phase[0] = 1 \/ phase[0] = 2
      BY <1>1
    <3> QED BY <3>1, <3>2, <3>3, Zenon
  <2>4. /\ UpStream(conf, q)[1] = OkvsOf(conf, "PSI", q) /\ UpStream(conf, q)[5] = OkvsOf(conf, "PSICS1", q)
        /\ UpStream(conf, q)[6] = OkvsOf(conf, "PSICS2", q)
    BY DEF UpStream
  <2> QED BY <1>3, <2>1, <2>3, <2>4 DEF AllKinds
<1>5. files.vole[kind][q].recv = RecvOf(conf, kind, q)
  BY <1>1, <1>3, VolesAre DEF RecvOf
<1>6. [b \in Bin |-> Draw(conf.seed, kind \o "junk", q, b)] = JunkOf(conf, kind, q)
  BY DEF JunkOf
<1>7. FoundIn(conf, kind, q) \in Vector
  BY <1>1, <1>3, FoundIs
<1> QED BY <1>2, <1>3, <1>4, <1>5, <1>6, <1>7 DEF FoundIn

\* One function more, and others are missing.
LEMMA TakeFunctionWaits ==
  ASSUME Inv, NEW q \in Sender, pc[0] = "lookup", asked[q] > Len(learned[q]), Waiting(q, 0), Take(q, 0),
         NEW here, here = FoundIn(conf, Kinds(phase[0])[asked[q]], q), learned' = Gain(q, here),
         conf' = conf, files' = files, share' = share, item' = item, room' = room, charged' = charged, early' = early,
         pc' = pc, phase' = phase, met' = met, asked' = asked, card' = card, bits' = bits, agg' = agg, result' = result
  PROVE Inv'
<1>0. Standing /\ Sockets /\ Holding /\ Learning /\ Counting /\ Paying
  BY DEF Inv
<1>1. asked[q] = Len(learned[q]) + 1 /\ here \in Vector
  BY <1>0, LearnedHere
<1>2. /\ learned' \in [Sender -> Seq(Vector)] /\ Len(learned[q]) \in Nat
      /\ Len(learned'[q]) = Len(learned[q]) + 1 /\ learned'[q][Len(learned[q]) + 1] = here
      /\ \A i \in 1..Len(learned[q]) : learned'[q][i] = learned[q][i]
      /\ \A r \in Sender \ {q} : learned'[r] = learned[r]
  BY <1>0, <1>1, GainIs
<1>5. Standing' /\ Holding' /\ Alone(0)
  BY <1>0, PlacesStay, Parties
<1>6. Counting' /\ Paying'
  <2>1. Counting'
    BY <1>0, CountingStays
  <2>2. early' \subseteq Party /\ \A r \in Party : Entered(r)' = Entered(r)
    BY <1>0 DEF Entered, Paying
  <2> QED BY <1>0, <2>1, <2>2, PayingStays
<1>8. Learning'
  <2>1. ASSUME NEW r \in Sender PROVE LookedUp(r)'
    <3>1. LookedUp(r)
      BY <1>0 DEF Learning
    <3>2. Kinds(phase[0])' = Kinds(phase[0])
      BY DEF Kinds
    <3>3. CASE r # q
      BY <1>2, <3>1, <3>2, <3>3 DEF LookedUp
    <3>4. CASE r = q
      <4>1. /\ Len(learned'[r]) <= asked'[r] /\ asked'[r] <= Len(learned'[r]) + 1 /\ asked'[r] <= Len(Kinds(phase[0]))
        <5>1. asked[q] <= Len(Kinds(phase[0]))
          BY <3>1, <3>4 DEF LookedUp
        <5> QED BY <1>1, <1>2, <3>4, <5>1
      <4>2. ASSUME NEW i \in 1..Len(learned'[r]) PROVE learned'[r][i] = FoundIn(conf, Kinds(phase[0])[i], r)
        <5>1. CASE i = Len(learned[q]) + 1
          BY <1>1, <1>2, <3>4, <5>1
        <5>2. CASE i # Len(learned[q]) + 1
          <6>1. i \in 1..Len(learned[q])
            BY <1>2, <3>4, <5>2
          <6>2. learned[q][i] = FoundIn(conf, Kinds(phase[0])[i], q)
            BY <3>1, <3>4, <6>1 DEF LookedUp
          <6> QED BY <1>2, <3>4, <6>1, <6>2
        <5> QED BY <5>1, <5>2
      <4> QED BY <3>2, <4>1, <4>2 DEF LookedUp
    <3> QED BY <3>3, <3>4
  <2>2. asked' \in [Sender -> 0..2]
    BY <1>0 DEF Learning
  <2> QED BY <1>2, <2>1, <2>2 DEF Learning
<1>9. /\ V(q)' = V(q) + 1 /\ \A r \in Sender \ {q} : V(r)' = V(r)
      /\ \A r \in Sender : Y(r)' = Y(r)
  <2>1. X(0)' = X(0)
    BY DEF X
  <2>2. \A r \in Sender : Y(r)' = Y(r)
    BY <2>1 DEF Y
  <2>3. \A r \in Sender \ {q} : V(r)' = V(r)
    BY <1>2 DEF V
  <2>4. V(q)' = V(q) + 1
    <3> DEFINE a == TakenUp(phase[0], pc[0], conf.bad[0])
    <3>1. a' = a /\ a \in Int
      <4>1. a \in Int
        BY DEF TakenUp
      <4> QED BY <4>1
    <3>2. V(q)' = a' + Len(learned'[q]) /\ V(q) = a + Len(learned[q])
      BY DEF V
    <3> HIDE DEF a
    <3> QED BY <1>2, <3>1, <3>2
  <2> QED BY <2>2, <2>3, <2>4
<1>10. Sockets'
  BY <1>0, <1>5, <1>9, FirstTakes
<1> QED BY <1>5, <1>6, <1>8, <1>10 DEF Inv

\* Everything is looked up: the totals are party 0's shares.
LEMMA LookedUpTotal ==
  ASSUME Standing, Learning, pc[0] = "lookup", NEW q \in Sender, asked[q] = Len(learned[q]) + 1,
         NEW here \in Vector, here = FoundIn(conf, Kinds(phase[0])[asked[q]], q),
         NEW all, all = Gain(q, here), \A r \in Sender : Len(all[r]) = Len(Kinds(phase[0])), NEW n \in 1..phase[0],
         NEW kind, kind = Kinds(phase[0])[n]
  PROVE /\ TotalOf(RingOf(kind), [r \in Sender |-> all[r][n]], Sender) = DataOf(conf, kind)[0]
        /\ DataOf(conf, kind)[0] \in Vector
<1>1. phase[0] \in 1..2 /\ Typed(conf) /\ 0 \in Party
  BY FirstAt
<1>2. kind \in AllKinds /\ Len(Kinds(phase[0])) = phase[0]
  BY <1>1, KindsAre
<1>3. /\ Len(learned[q]) \in Nat
      /\ Len(all[q]) = Len(learned[q]) + 1 /\ all[q][Len(learned[q]) + 1] = here
      /\ \A i \in 1..Len(learned[q]) : all[q][i] = learned[q][i]
      /\ \A r \in Sender \ {q} : all[r] = learned[r]
  BY GainIs
<1>4. ASSUME NEW r \in Sender PROVE all[r][n] = FoundIn(conf, kind, r)
  <2>1. Len(all[r]) = phase[0]
    BY <1>2
  <2>2. \A i \in 1..Len(learned[r]) : learned[r][i] = FoundIn(conf, Kinds(phase[0])[i], r)
    BY LookupAt
  <2>3. CASE r # q
    <3>1. all[r] = learned[r] /\ n \in 1..Len(learned[r])
      BY <1>3, <2>1, <2>3
    <3> QED BY <2>2, <3>1
  <2>4. CASE r = q /\ n = Len(learned[q]) + 1
    BY <1>3, <2>4
  <2>5. CASE r = q /\ n # Len(learned[q]) + 1
    <3>1. n \in 1..Len(learned[q])
      BY <1>1, <1>3, <2>1, <2>5
    <3> QED BY <1>3, <2>2, <2>5, <3>1
  <2> QED BY <2>3, <2>4, <2>5
<1>5. [r \in Sender |-> all[r][n]] = AllFound(conf, kind)
  <2>1. [r \in Sender |-> all[r][n]] = [r \in Sender |-> FoundIn(conf, kind, r)]
    BY <1>4, Zenon
  <2> QED BY <2>1 DEF AllFound
<1>6. DataOf(conf, kind)[0] = TotalOf(RingOf(kind), AllFound(conf, kind), Sender) /\ DataOf(conf, kind)[0] \in Vector
  <2>1. /\ DataOf(conf, kind) \in [Party -> Vector]
        /\ DataOf(conf, kind)[0] = TotalOf(RingOf(kind), AllFound(conf, kind), Sender)
    BY <1>1, <1>2, DataTyped
  <2> QED BY <1>1, <2>1
<1> QED BY <1>5, <1>6

\* The last function: party 0 has its shares, and has nothing more to ask.
LEMMA TakeFunctionTotals ==
  ASSUME Inv, NEW q \in Sender, pc[0] = "lookup", asked[q] > Len(learned[q]), Waiting(q, 0), Take(q, 0),
         NEW s, s = DataOf(conf, KindAt(phase[0]))[0], NEW t, t = DataOf(conf, "PSICS2")[0],
         \A r \in Sender : Len(Gain(q, FoundIn(conf, Kinds(phase[0])[asked[q]], q))[r]) = phase[0],
         s \in Vector, phase[0] = 2 => t \in Vector,
         share' = [share EXCEPT ![0] = s], item' = IF phase[0] = 1 THEN item ELSE [item EXCEPT ![0] = t],
         asked' = [r \in Sender |-> 0], learned' = [r \in Sender |-> <<>>], Goto(0, "multiply"),
         conf' = conf, files' = files, room' = room, charged' = charged, early' = early,
         phase' = phase, met' = met, card' = card, bits' = bits, agg' = agg, result' = result
  PROVE Inv'
<1>0. Standing /\ Sockets /\ Holding /\ Learning /\ Counting /\ Paying
  BY DEF Inv
<1> DEFINE here == FoundIn(conf, Kinds(phase[0])[asked[q]], q)
<1>1. /\ 0 \in Party /\ phase[0] \in 1..2 /\ Typed(conf) /\ ShareOk(0) /\ ItemOk(0) /\ (phase[0] = 2 => conf.bad[0] # "values")
  BY <1>0, FirstAt DEF Holding
<1>2. asked[q] = Len(learned[q]) + 1 /\ here \in Vector
  BY <1>0, LearnedHere
<1>3. /\ Len(learned[q]) \in Nat /\ phase[0] = Len(learned[q]) + 1
      /\ \A r \in Sender \ {q} : Len(learned[r]) = phase[0]
  <2>1. /\ Len(learned[q]) \in Nat /\ Len(Gain(q, here)[q]) = Len(learned[q]) + 1
        /\ \A r \in Sender \ {q} : Gain(q, here)[r] = learned[r]
    BY <1>0, <1>2, GainIs
  <2> QED BY <2>1
<1> HIDE DEF here
<1>4. "multiply" \in Reached(0, phase[0])
  BY <1>1 DEF Reached
<1>5. Fits(0, "multiply", phase[0], met[0]) /\ Stepped(0, "multiply", phase[0], met[0])
  BY <1>0, <1>1, <1>4, StandingGoes
<1>6. Alone(0) /\ pc'[0] = "multiply" /\ phase'[0] = phase[0]
  BY <1>0, <1>1, <1>5, StandingMoves
<1>7. share'[0] = s /\ (phase[0] = 2 => item'[0] = t) /\ Held(share, share', 0, s) /\ (phase[0] = 2 => Held(item, item', 0, t))
      /\ (phase[0] = 1 => item' = item)
  BY <1>0, <1>1 DEF Holding, Held
<1>8. ShareOk(0)' /\ ItemOk(0)'
  <2>1. ShareOk(0)'
    BY <1>1, <1>6, <1>7 DEF ShareOk, KindAt
  <2>2. ItemOk(0)'
    BY <1>1, <1>6, <1>7 DEF ItemOk
  <2> QED BY <2>1, <2>2
<1>9. early' \subseteq Party /\ Runs(0) /\ Held(item, item', 0, t)
  BY <1>0, <1>1, <1>7 DEF Held, Paying, Runs
<1>10. Standing' /\ Holding' /\ Paying'
  <2>1. phase[0] = 1 => "multiply" # "returned"
    OBVIOUS
  <2> QED BY <1>0, <1>5, <1>7, <1>8, <1>9, <2>1, FirstMoves
<1>11. asked' \in [Sender -> 0..2] /\ learned' \in [Sender -> Seq(Vector)] /\ \A r \in Sender : asked'[r] = 0 /\ learned'[r] = <<>>
  OBVIOUS
<1>12. Learning'
  <2>1. ASSUME NEW r \in Sender PROVE LookedUp(r)'
    <3>1. asked'[r] = 0 /\ Len(learned'[r]) = 0
      BY <1>11
    <3>2. Len(Kinds(phase'[0])) >= 0
      BY DEF Kinds
    <3>3. \A i \in 1..Len(learned'[r]) : FALSE
      BY <3>1
    <3> QED BY <3>1, <3>2, <3>3 DEF LookedUp
  <2> QED BY <1>11, <2>1 DEF Learning
<1>13. Counting'
  <2>1. pc[0] \in Quiet /\ pc'[0] \in Quiet
    BY <1>6 DEF Quiet
  <2> QED BY <1>0, <1>6, <2>1, CountingMoves
<1>14. ASSUME NEW r \in Sender PROVE /\ V(r)' = (IF phase[0] = 1 THEN 1 ELSE 6)
                                     /\ Y(r)' = Y(r)
  <2>1. V(r)' = IF phase[0] = 1 THEN 1 ELSE 6
    <3>1. TakenUp(phase'[0], pc'[0], conf'.bad[0]) = IF phase[0] = 1 THEN 1 ELSE 6
      BY <1>1, <1>6 DEF TakenUp
    <3>2. Len(learned'[r]) = 0
      BY <1>11
    <3> QED BY <3>1, <3>2 DEF V
  <2>2. X(0)' = X(0)
    BY <1>1, <1>6 DEF X, Passed
  <2>3. asked[r] = phase[0]
    <3>1. asked[r] \in 0..phase[0] /\ Len(learned[r]) <= asked[r]
      BY <1>0, LookupAt
    <3> QED BY <1>1, <1>2, <1>3, <3>1
  <2>4. Y(r)' = Y(r)
    <3> DEFINE b == Second(r, X(0))
    <3>1. b' = b /\ b \in Int
      <4>1. X(0) \in Int
        BY <1>1 DEF X, Passed
      <4> QED BY <2>2, <4>1 DEF Second
    <3>2. Asked0(phase[0], pc[0], conf.bad[0]) = IF phase[0] = 1 THEN 0 ELSE 2
      BY <1>1 DEF Asked0
    <3>3. Asked0(phase'[0], pc'[0], conf'.bad[0]) = IF phase[0] = 1 THEN 1 ELSE 4
      BY <1>1, <1>6 DEF Asked0
    <3>4. Y(r) = Asked0(phase[0], pc[0], conf.bad[0]) + b + asked[r] /\ Y(r)' = Asked0(phase'[0], pc'[0], conf'.bad[0]) + b' + asked'[r]
      BY DEF Y
    <3> HIDE DEF b
    <3>5. asked'[r] = 0
      BY <1>11
    <3>6. CASE phase[0] = 1
      BY <2>3, <3>1, <3>2, <3>3, <3>4, <3>5, <3>6
    <3>7. CASE phase[0] = 2
      BY <2>3, <3>1, <3>2, <3>3, <3>4, <3>5, <3>7
    <3>8. phase[0] = 1 \/ phase[0] = 2
      BY <1>1
    <3> QED BY <3>6, <3>7, <3>8, Zenon
  <2> QED BY <2>1, <2>4
<1>15. V(q)' = V(q) + 1 /\ \A r \in Sender \ {q} : V(r)' = V(r)
  <2>1. ASSUME NEW r \in Sender PROVE V(r) = (IF phase[0] = 1 THEN 0 ELSE 4) + Len(learned[r])
    BY <1>0, LookupAt
  <2>2. \A r \in Sender \ {q} : V(r)' = V(r)
    <3>1. ASSUME NEW r \in Sender \ {q} PROVE V(r)' = V(r)
      <4>1. Len(learned[r]) = phase[0] /\ V(r) = (IF phase[0] = 1 THEN 0 ELSE 4) + Len(learned[r])
        BY <1>3, <2>1
      <4> QED BY <1>1, <1>14, <4>1
    <3> QED BY <3>1
  <2>3. V(q)' = V(q) + 1
    <3> DEFINE k == Len(learned[q])
               v == V(q)
    <3>1. v = (IF phase[0] = 1 THEN 0 ELSE 4) + k /\ phase[0] = k + 1 /\ V(q)' = IF phase[0] = 1 THEN 1 ELSE 6
      BY <1>3, <1>14, <2>1
    <3>2. k \in Nat
      BY <1>3
    <3>3. (IF phase[0] = 1 THEN 1 ELSE 6) = v + 1
      <4> HIDE DEF k, v
      <4> QED BY <1>1, <3>1, <3>2
    <3> QED BY <3>1, <3>3
  <2> QED BY <2>2, <2>3
<1>16. Sockets'
  <2>1. \A r \in Sender : Y(r)' = Y(r)
    BY <1>14
  <2> QED BY <1>0, <1>6, <1>15, <2>1, FirstTakes
<1> QED BY <1>10, <1>12, <1>13, <1>16 DEF Inv

\* What party 0 does with what it finds in a sender's function.
TakeInto(q, here) ==
  LET all == Gain(q, here)
      sum(ring, n) == TotalOf(ring, [r \in Sender |-> all[r][n]], Sender)
  IN IF \A r \in Sender : Len(all[r]) = Len(Kinds(phase[0]))
     THEN /\ share' = [share EXCEPT ![0] = sum("xor", 1)]
          /\ item' = IF phase[0] = 1 THEN item ELSE [item EXCEPT ![0] = sum("add", 2)]
          /\ asked' = [r \in Sender |-> 0] /\ learned' = [r \in Sender |-> <<>>] /\ Goto(0, "multiply")
     ELSE learned' = all /\ asked' = asked /\ pc' = pc /\ share' = share /\ item' = item

\* Party 0 takes a sender's function.
LEMMA TakeFunctionKeeps == ASSUME Inv, NEW q \in Sender, TakeFunction(q) PROVE Inv'
<1>0. Standing /\ Sockets /\ Holding /\ Learning /\ Counting /\ Paying
  BY DEF Inv
<1> DEFINE kinds == Kinds(phase[0])
           kind == kinds[asked[q]]
           here == FoundIn(conf, kind, q)
           all == Gain(q, here)
           sum(ring, n) == TotalOf(ring, [r \in Sender |-> all[r][n]], Sender)
<1>1. pc[0] = "lookup" /\ asked[q] > Len(learned[q]) /\ Waiting(q, 0)
  BY DEF TakeFunction, At
<1>2. here \in Vector /\ asked[q] = Len(learned[q]) + 1
      /\ Learned(First(q, 0), conf.table, files.vole[kind][q].recv, [b \in Bin |-> Draw(conf.seed, kind \o "junk", q, b)]) = here
  BY <1>0, <1>1, LearnedHere
<1>3. phase[0] \in 1..2 /\ Len(kinds) = phase[0]
  BY <1>0, FirstAt, KindsAre
<1>4. /\ Take(q, 0) /\ conf' = conf /\ files' = files /\ room' = room /\ charged' = charged /\ early' = early
      /\ phase' = phase /\ met' = met /\ card' = card /\ bits' = bits /\ agg' = agg /\ result' = result
  BY DEF TakeFunction, history
<1>5. IF \A r \in Sender : Len(all[r]) = Len(kinds)
      THEN /\ share' = [share EXCEPT ![0] = sum("xor", 1)]
           /\ item' = IF phase[0] = 1 THEN item ELSE [item EXCEPT ![0] = sum("add", 2)]
           /\ asked' = [r \in Sender |-> 0] /\ learned' = [r \in Sender |-> <<>>] /\ Goto(0, "multiply")
      ELSE learned' = all /\ asked' = asked /\ pc' = pc /\ share' = share /\ item' = item
  <2> DEFINE got == Learned(First(q, 0), conf.table, files.vole[kind][q].recv, [b \in Bin |-> Draw(conf.seed, kind \o "junk", q, b)])
  <2>1. TakeInto(q, got)
    BY DEF TakeFunction, vectors, Gain, TakeInto
  <2>2. got = here
    BY <1>2
  <2>3. TakeInto(q, here)
    <3> HIDE DEF got, here
    <3> QED BY <2>1, <2>2
  <2> QED BY <2>3 DEF TakeInto
<1>6. CASE ~(\A r \in Sender : Len(all[r]) = Len(kinds))
  <2>1. learned' = all /\ asked' = asked /\ pc' = pc /\ share' = share /\ item' = item
    BY <1>5, <1>6
  <2> QED BY <1>1, <1>4, <2>1, TakeFunctionWaits
<1>7. CASE \A r \in Sender : Len(all[r]) = Len(kinds)
  <2>1. /\ share' = [share EXCEPT ![0] = sum("xor", 1)]
        /\ item' = IF phase[0] = 1 THEN item ELSE [item EXCEPT ![0] = sum("add", 2)]
        /\ asked' = [r \in Sender |-> 0] /\ learned' = [r \in Sender |-> <<>>] /\ Goto(0, "multiply")
    BY <1>5, <1>7
  <2>2. kinds[1] = KindAt(phase[0]) /\ (phase[0] = 2 => kinds[2] = "PSICS2")
    BY <1>3, KindsAre
  <2>3. ASSUME NEW n \in 1..phase[0]
        PROVE sum(RingOf(kinds[n]), n) = DataOf(conf, kinds[n])[0] /\ DataOf(conf, kinds[n])[0] \in Vector
    <3> HIDE DEF here
    <3>1. all = Gain(q, here) /\ here = FoundIn(conf, Kinds(phase[0])[asked[q]], q)
          /\ kinds[n] = Kinds(phase[0])[n] /\ \A r \in Sender : Len(all[r]) = Len(Kinds(phase[0]))
      BY <1>7 DEF here
    <3> HIDE DEF all, kinds
    <3> QED BY <1>0, <1>1, <1>2, <3>1, LookedUpTotal
  <2>4. sum("xor", 1) = DataOf(conf, KindAt(phase[0]))[0] /\ DataOf(conf, KindAt(phase[0]))[0] \in Vector
    <3>1. RingOf(kinds[1]) = "xor"
      BY <2>2 DEF RingOf, KindAt
    <3>2. 1 \in 1..phase[0]
      BY <1>3
    <3> HIDE DEF kinds, all
    <3>3. sum(RingOf(kinds[1]), 1) = DataOf(conf, kinds[1])[0] /\ DataOf(conf, kinds[1])[0] \in Vector
      BY <2>3, <3>2
    <3> QED BY <2>2, <3>1, <3>3
  <2>5. phase[0] = 2 => sum("add", 2) = DataOf(conf, "PSICS2")[0] /\ DataOf(conf, "PSICS2")[0] \in Vector
    <3> SUFFICES ASSUME phase[0] = 2 PROVE sum("add", 2) = DataOf(conf, "PSICS2")[0] /\ DataOf(conf, "PSICS2")[0] \in Vector
      OBVIOUS
    <3>1. RingOf(kinds[2]) = "add" /\ kinds[2] = "PSICS2"
      BY <2>2 DEF RingOf
    <3>2. 2 \in 1..phase[0]
      OBVIOUS
    <3> HIDE DEF kinds, all
    <3>3. sum(RingOf(kinds[2]), 2) = DataOf(conf, kinds[2])[0] /\ DataOf(conf, kinds[2])[0] \in Vector
      BY <2>3, <3>2
    <3> QED BY <3>1, <3>3
  <2>6. /\ \A r \in Sender : Len(Gain(q, FoundIn(conf, Kinds(phase[0])[asked[q]], q))[r]) = phase[0]
    BY <1>3, <1>7
  <2>7. /\ share' = [share EXCEPT ![0] = DataOf(conf, KindAt(phase[0]))[0]]
        /\ item' = IF phase[0] = 1 THEN item ELSE [item EXCEPT ![0] = DataOf(conf, "PSICS2")[0]]
    <3> DEFINE x == sum("xor", 1)
               y == sum("add", 2)
    <3>1. x = DataOf(conf, KindAt(phase[0]))[0] /\ (phase[0] # 1 => y = DataOf(conf, "PSICS2")[0])
      BY <1>3, <2>4, <2>5
    <3>2. share' = [share EXCEPT ![0] = x] /\ item' = IF phase[0] = 1 THEN item ELSE [item EXCEPT ![0] = y]
      BY <2>1
    <3> HIDE DEF x, y
    <3> QED BY <3>1, <3>2
  <2>8. asked' = [r \in Sender |-> 0] /\ learned' = [r \in Sender |-> <<>>] /\ Goto(0, "multiply")
    BY <2>1
  <2> DEFINE s == DataOf(conf, KindAt(phase[0]))[0]
             t == DataOf(conf, "PSICS2")[0]
  <2>9. s = DataOf(conf, KindAt(phase[0]))[0] /\ t = DataOf(conf, "PSICS2")[0] /\ s \in Vector /\ (phase[0] = 2 => t \in Vector)
        /\ share' = [share EXCEPT ![0] = s] /\ item' = IF phase[0] = 1 THEN item ELSE [item EXCEPT ![0] = t]
    BY <2>4, <2>5, <2>7
  <2> HIDE DEF all, here, kinds, s, t
  <2> QED BY <1>1, <1>4, <2>6, <2>8, <2>9, TakeFunctionTotals
<1> QED BY <1>6, <1>7

-----------------------------------------------------------------------------
(* Entering a session, and meeting. *)

\* Where nothing has been sent in a phase.
Early(f) == IF f = 1 THEN {"start", "meet", "lookup", "returned"} ELSE {"meet", "lookup"}
Waits(p) == phase'[p] = phase[p] /\ phase[p] \in 1..2 /\ pc[p] \in Early(phase[p]) /\ pc'[p] \in Early(phase[p])
Stays(p) == pc'[p] = pc[p] /\ phase'[p] = phase[p]

\* There all counts are the same.
LEMMA EarlyCounts ==
  ASSUME NEW f \in 1..2, NEW h \in Early(f), NEW g \in Early(f), NEW bad
  PROVE /\ SentUp(f, h, bad) = SentUp(f, g, bad) /\ Answered(f, h, bad) = Answered(f, g, bad)
        /\ Passed(f, h, bad) = Passed(f, g, bad) /\ Asked0(f, h, bad) = Asked0(f, g, bad)
        /\ TakenUp(f, h, bad) = TakenUp(f, g, bad)
<1>1. CASE f = 1
  <2>1. h \in {"start", "meet", "lookup", "returned"} /\ g \in {"start", "meet", "lookup", "returned"}
    BY <1>1 DEF Early
  <2>2. SentUp(f, h, bad) = SentUp(f, g, bad) /\ Answered(f, h, bad) = Answered(f, g, bad)
    BY <1>1, <2>1 DEF SentUp, Answered
  <2>3. Passed(f, h, bad) = Passed(f, g, bad) /\ Asked0(f, h, bad) = Asked0(f, g, bad)
    BY <1>1, <2>1 DEF Passed, Asked0
  <2> QED BY <1>1, <2>1, <2>2, <2>3 DEF TakenUp
<1>2. CASE f = 2
  <2>1. h \in {"meet", "lookup"} /\ g \in {"meet", "lookup"}
    BY <1>2 DEF Early
  <2>2. SentUp(f, h, bad) = SentUp(f, g, bad) /\ Answered(f, h, bad) = Answered(f, g, bad)
    BY <1>2, <2>1 DEF SentUp, Answered
  <2>3. Passed(f, h, bad) = Passed(f, g, bad) /\ Asked0(f, h, bad) = Asked0(f, g, bad)
    BY <1>2, <2>1 DEF Passed, Asked0
  <2> QED BY <1>2, <2>1, <2>2, <2>3 DEF TakenUp
<1> QED BY <1>1, <1>2

\* So a step among them leaves the sockets as they are.
LEMMA SocketsWait ==
  ASSUME Sockets, conf' = conf, chan' = chan, asked' = asked, learned' = learned, \A p \in Party : Waits(p) \/ Stays(p)
  PROVE Sockets'
<1>1. ASSUME NEW p \in Party
      PROVE /\ SentUp(phase[p], pc[p], conf.bad[p])' = SentUp(phase[p], pc[p], conf.bad[p])
            /\ Answered(phase[p], pc[p], conf.bad[p])' = Answered(phase[p], pc[p], conf.bad[p])
            /\ Passed(phase[p], pc[p], conf.bad[p])' = Passed(phase[p], pc[p], conf.bad[p])
            /\ Asked0(phase[p], pc[p], conf.bad[p])' = Asked0(phase[p], pc[p], conf.bad[p])
            /\ TakenUp(phase[p], pc[p], conf.bad[p])' = TakenUp(phase[p], pc[p], conf.bad[p])
  <2>1. CASE Stays(p)
    BY <2>1 DEF Stays
  <2>2. CASE Waits(p)
    <3> DEFINE f == phase[p]
               h == pc[p]
               g == pc'[p]
               bad == conf.bad[p]
    <3>1. f \in 1..2 /\ h \in Early(f) /\ g \in Early(f) /\ phase'[p] = f /\ conf'.bad[p] = bad
      BY <2>2 DEF Waits
    <3>2. /\ SentUp(f, g, bad) = SentUp(f, h, bad) /\ Answered(f, g, bad) = Answered(f, h, bad)
          /\ Passed(f, g, bad) = Passed(f, h, bad) /\ Asked0(f, g, bad) = Asked0(f, h, bad)
          /\ TakenUp(f, g, bad) = TakenUp(f, h, bad)
      <4> HIDE DEF f, h, g, bad
      <4> QED BY <3>1, EarlyCounts
    <3> QED BY <3>1, <3>2
  <2> QED BY <2>1, <2>2
<1>2. 0 \in Party
  BY Parties
<1>3. \A p \in Party : X(p)' = X(p)
  BY <1>1 DEF X
<1>4. ASSUME NEW q \in Sender PROVE U(q)' = U(q) /\ V(q)' = V(q) /\ W(q)' = W(q) /\ Y(q)' = Y(q)
  <2>1. q \in Party
    BY SenderIs
  <2>2. U(q)' = U(q)
    BY <1>1, <2>1 DEF U
  <2>3. V(q)' = V(q)
    BY <1>1, <1>2 DEF V
  <2>4. W(q)' = W(q)
    BY <1>1, <1>3, <2>1 DEF W
  <2>5. Y(q)' = Y(q)
    BY <1>1, <1>2, <1>3 DEF Y
  <2> QED BY <2>2, <2>3, <2>4, <2>5
<1> QED BY <1>3, <1>4, SocketsStill

\* Where a party can be.
LEMMA PartyAt ==
  ASSUME Standing, NEW p \in Party
  PROVE /\ PlaceOk(p) /\ phase[p] \in 1..2 /\ met[p] \in 0..(N - 1) /\ Typed(conf) /\ pc[p] \in Reached(p, phase[p])
        /\ (pc[p] = "start" => phase[p] = 1 /\ met[p] = 0 /\ met[p] < N - 1)
<1>1. PlaceOk(p) /\ phase[p] \in 1..2 /\ met[p] \in 0..(N - 1)
  BY DEF Standing
<1>2. Typed(conf)
  BY ConfsAssumption DEF Standing
<1>3. pc[p] \in Reached(p, phase[p])
  BY <1>1 DEF PlaceOk
<1>4. pc[p] = "start" => phase[p] = 1
  BY <1>1, <1>3 DEF Reached
<1>5. pc[p] = "start" => met[p] = 0 /\ met[p] < N - 1
  BY <1>1, SetAssumption DEF PlaceOk
<1> QED BY <1>1, <1>2, <1>3, <1>4, <1>5

\* A party that enters, or is refused.
LEMMA StartMoves ==
  ASSUME Inv, NEW p \in Party, pc[p] = "start", NEW h \in {"meet", "returned"}, Goto(p, h), conf' = conf, files' = files,
         phase' = phase, met' = met, chan' = chan, share' = share, item' = item, asked' = asked, learned' = learned,
         card' = card, bits' = bits, agg' = agg, result' = result
  PROVE Standing' /\ Sockets' /\ Holding' /\ Learning' /\ Counting' /\ Alone(p) /\ pc'[p] = h /\ phase'[p] = 1 /\ phase[p] = 1
<1>0. Standing /\ Sockets /\ Holding /\ Learning /\ Counting /\ Paying
  BY DEF Inv
<1>1. phase[p] = 1 /\ met[p] = 0 /\ met[p] < N - 1 /\ met[p] \in 0..(N - 1)
  BY <1>0, PartyAt
<1>2. h \in Reached(p, 1)
  BY DEF Reached
<1>3. Fits(p, h, 1, met[p])
  BY <1>1, <1>2 DEF Fits
<1>4. Stepped(p, h, 1, met[p])
  <2>1. phase = [phase EXCEPT ![p] = 1] /\ met = [met EXCEPT ![p] = met[p]]
    BY <1>0, <1>1 DEF Standing
  <2> QED BY <2>1 DEF Stepped, Goto
<1>5. Standing' /\ Alone(p) /\ pc'[p] = h /\ phase'[p] = 1
  BY <1>0, <1>3, <1>4, StandingMoves
<1>6. Holding'
  <2>1. ShareOk(p)' /\ ItemOk(p)'
    BY <1>5 DEF ShareOk, ItemOk
  <2>2. Held(share, share', p, share) /\ Held(item, item', p, item)
    BY DEF Held
  <2> QED BY <1>0, <1>5, <2>1, <2>2, HoldingMoves
<1>7. Sockets'
  <2>1. ASSUME NEW r \in Party PROVE Waits(r) \/ Stays(r)
    <3>1. CASE r = p
      BY <1>1, <1>5, <3>1 DEF Waits, Early
    <3>2. CASE r # p
      BY <1>5, <3>2 DEF Stays, Alone
    <3> QED BY <3>1, <3>2
  <2> QED BY <1>0, <2>1, SocketsWait
<1>8. Learning' /\ Counting'
  <2>1. CASE p = 0
    <3>1. Learning'
      BY <1>0, <2>1, LearningIdle
    <3>2. card = 0 /\ bits \subseteq Bin /\ agg = 0 /\ result = NoResult
      BY <1>0, <1>1, <2>1 DEF Counting
    <3>3. phase'[0] = 1
      BY <1>5, <2>1
    <3>4. Counting'
      BY <3>2, <3>3 DEF Counting
    <3> QED BY <3>1, <3>4
  <2>2. CASE p # 0
    <3>1. pc'[0] = pc[0] /\ phase'[0] = phase[0]
      BY <1>5, <2>2, Parties DEF Alone
    <3> QED BY <1>0, <3>1, LearningStays, CountingStays
  <2> QED BY <2>1, <2>2
<1> QED BY <1>1, <1>5, <1>6, <1>7, <1>8

\* Who is refused has not entered.
LEMMA RefusedPays ==
  ASSUME Paying, NEW p \in Party, pc[p] = "start", Alone(p), pc'[p] = "returned", phase'[p] = 1,
         room' = room, charged' = charged, early' = early \cup {p}
  PROVE Paying'
<1>1. ASSUME NEW r \in Party PROVE Entered(r)' = Entered(r)
  <2>1. CASE r = p
    <3>1. (Entered(p) <=> FALSE) /\ (Entered(p)' <=> FALSE)
      BY DEF Entered
    <3> QED BY <2>1, <3>1 DEF Entered
  <2>2. CASE r # p
    <3>1. pc'[r] = pc[r] /\ phase'[r] = phase[r]
      BY <2>2 DEF Alone
    <3> QED BY <3>1 DEF Entered
  <2> QED BY <2>1, <2>2
<1>2. early' \subseteq Party
  BY DEF Paying
<1>3. conf' = conf
  BY DEF Alone
<1> QED BY <1>1, <1>2, <1>3, PayingStays

\* Refused for its arguments.
LEMMA BadArgumentsKeeps == ASSUME Inv, NEW p \in Party, BadArguments(p) PROVE Inv'
<1>1. /\ pc[p] = "start" /\ Goto(p, "returned") /\ early' = early \cup {p}
      /\ conf' = conf /\ files' = files /\ room' = room /\ charged' = charged /\ phase' = phase /\ met' = met /\ chan' = chan
      /\ share' = share /\ item' = item /\ asked' = asked /\ learned' = learned
      /\ card' = card /\ bits' = bits /\ agg' = agg /\ result' = result
  BY DEF BadArguments, At, vectors, found
<1>2. Standing' /\ Sockets' /\ Holding' /\ Learning' /\ Counting' /\ Alone(p) /\ pc'[p] = "returned" /\ phase'[p] = 1
  BY <1>1, StartMoves
<1>3. Paying'
  <2>1. Paying
    BY DEF Inv
  <2> QED BY <1>1, <1>2, <2>1, RefusedPays
<1> QED BY <1>2, <1>3 DEF Inv

\* Refused for its budget.
LEMMA RefusedKeeps == ASSUME Inv, NEW p \in Party, Refused(p) PROVE Inv'
<1>1. /\ pc[p] = "start" /\ Goto(p, "returned") /\ early' = early \cup {p}
      /\ conf' = conf /\ files' = files /\ room' = room /\ charged' = charged /\ phase' = phase /\ met' = met /\ chan' = chan
      /\ share' = share /\ item' = item /\ asked' = asked /\ learned' = learned
      /\ card' = card /\ bits' = bits /\ agg' = agg /\ result' = result
  BY DEF Refused, At, vectors, found
<1>2. Standing' /\ Sockets' /\ Holding' /\ Learning' /\ Counting' /\ Alone(p) /\ pc'[p] = "returned" /\ phase'[p] = 1
  BY <1>1, StartMoves
<1>3. Paying'
  <2>1. Paying
    BY DEF Inv
  <2> QED BY <1>1, <1>2, <2>1, RefusedPays
<1> QED BY <1>2, <1>3 DEF Inv

\* Everyone is one more among those who have paid from his scope.
LEMMA ChargedGrows ==
  ASSUME Standing, Paying, NEW p \in Party, p \notin charged, conf' = conf, charged' = charged \cup {p}, NEW s
  PROVE Cardinality(ChargedTo(s))' = Cardinality(ChargedTo(s)) + (IF s = Scope(p) THEN 1 ELSE 0) /\ Cardinality(ChargedTo(s)) \in Nat
<1> DEFINE A == ChargedTo(s)
           B == {r \in charged' : conf.scope[r] = s}
<1>1. ChargedTo(s)' = B
  BY DEF ChargedTo, Scope
<1>2. A = {r \in charged : conf.scope[r] = s}
  BY DEF ChargedTo, Scope
<1>3. IsFiniteSet(Party) /\ A \subseteq Party
  BY <1>2, Parties DEF Paying
<1>4. IsFiniteSet(A)
  <2> HIDE DEF A
  <2> QED BY <1>3, FS_Subset
<1>5. Cardinality(A) \in Nat
  <2> HIDE DEF A
  <2> QED BY <1>4, FS_CardinalityType
<1>6. CASE s = Scope(p)
  <2>1. B = A \cup {p} /\ p \notin A
    BY <1>2, <1>6 DEF Scope
  <2>2. Cardinality(B) = Cardinality(A) + 1
    <3> HIDE DEF A, B
    <3> QED BY <1>4, <2>1, FS_AddElement
  <2> HIDE DEF A, B
  <2>3. Cardinality(ChargedTo(s))' = Cardinality(A) + 1
    BY <1>1, <2>2
  <2> QED BY <1>5, <1>6, <2>3 DEF A
<1>7. CASE s # Scope(p)
  <2>1. B = A
    BY <1>2, <1>7 DEF Scope
  <2> HIDE DEF A, B
  <2>3. Cardinality(ChargedTo(s))' = Cardinality(A)
    BY <1>1, <2>1
  <2> QED BY <1>5, <1>7, <2>3 DEF A
<1> QED BY <1>6, <1>7

\* Who enters has paid.
LEMMA EnterPays ==
  ASSUME Standing, Paying, NEW p \in Party, pc[p] = "start", conf.bad[p] # "args", Alone(p), pc'[p] = "meet", phase'[p] = 1,
         early' = early,
         IF Scope(p) = None THEN room' = room /\ charged' = charged
         ELSE room[Scope(p)] > 0 /\ room' = [room EXCEPT ![Scope(p)] = @ - 1] /\ charged' = charged \cup {p}
  PROVE Paying'
<1>1. p \notin charged
  BY DEF Paying, Entered
<1>2. conf' = conf /\ \A r : Scope(r)' = Scope(r)
  BY DEF Alone, Scope
<1>3. ASSUME NEW r \in Party \ {p} PROVE Entered(r)' = Entered(r)
  <2>1. pc'[r] = pc[r] /\ phase'[r] = phase[r]
    BY DEF Alone
  <2> QED BY <2>1 DEF Entered
<1>4. Entered(p)' <=> TRUE
  BY DEF Entered
<1>5. /\ charged \subseteq Party /\ early \subseteq Party
      /\ \A r \in Party : Entered(r) => conf.bad[r] # "args" /\ (Scope(r) # None => r \in charged)
      /\ \A r \in charged : Entered(r) /\ Scope(r) # None /\ conf.bad[r] # "args"
      /\ room \in [DOMAIN conf.room -> Nat]
      /\ \A s \in DOMAIN conf.room : room[s] + Cardinality(ChargedTo(s)) = conf.room[s]
  BY DEF Paying
<1>6. CASE Scope(p) = None
  <2>1. room' = room /\ charged' = charged
    BY <1>6
  <2>2. \A r \in Party : Entered(r)' => conf.bad[r] # "args" /\ (Scope(r) # None => r \in charged)
    BY <1>3, <1>5, <1>6
  <2>3. \A r \in charged : Entered(r)'
    BY <1>1, <1>3, <1>5
  <2>4. \A s : ChargedTo(s)' = ChargedTo(s)
    BY <1>2, <2>1 DEF ChargedTo
  <2> QED BY <1>2, <1>5, <2>1, <2>2, <2>3, <2>4 DEF Paying
<1>7. CASE Scope(p) # None
  <2>1. room[Scope(p)] > 0 /\ room' = [room EXCEPT ![Scope(p)] = room[Scope(p)] - 1] /\ charged' = charged \cup {p}
    BY <1>7
  <2>2. \A r \in Party : Entered(r)' => conf.bad[r] # "args" /\ (Scope(r) # None => r \in charged')
    BY <1>3, <1>5, <2>1
  <2>3. \A r \in charged' : Entered(r)' /\ Scope(r) # None /\ conf.bad[r] # "args"
    BY <1>3, <1>4, <1>5, <1>7, <2>1
  <2>4. charged' \subseteq Party
    BY <1>5, <2>1
  <2>5. Scope(p) \in DOMAIN conf.room
    <3>1. Typed(conf)
      BY PartyAt
    <3>2. conf.scope[p] \in DOMAIN conf.room \cup {"none"}
      BY <3>1 DEF Typed
    <3> QED BY <1>7, <3>2 DEF Scope, None
  <2>6. room' \in [DOMAIN conf.room -> Nat]
    <3> DEFINE D == DOMAIN conf.room
               s == Scope(p)
    <3>1. room \in [D -> Nat] /\ s \in D /\ room[s] > 0 /\ room' = [room EXCEPT ![s] = room[s] - 1]
      BY <1>5, <2>1, <2>5
    <3> HIDE DEF D, s
    <3>2. room[s] - 1 \in Nat
      BY <3>1
    <3>3. room' \in [D -> Nat]
      BY <3>1, <3>2
    <3> QED BY <3>3 DEF D
  <2>7. ASSUME NEW s \in DOMAIN conf.room PROVE room'[s] + Cardinality(ChargedTo(s))' = conf.room[s]
    <3> DEFINE n == Cardinality(ChargedTo(s))
    <3>1. n' = n + (IF s = Scope(p) THEN 1 ELSE 0) /\ n \in Nat
      BY <1>1, <1>2, <2>1, ChargedGrows
    <3>2. room[s] + n = conf.room[s] /\ room[s] \in Nat
      BY <1>5
    <3>3. room'[s] = IF s = Scope(p) THEN room[s] - 1 ELSE room[s]
      BY <1>5, <2>1
    <3> HIDE DEF n
    <3>4. CASE s = Scope(p)
      BY <3>1, <3>2, <3>3, <3>4 DEF n
    <3>5. CASE s # Scope(p)
      BY <3>1, <3>2, <3>3, <3>5 DEF n
    <3> QED BY <3>4, <3>5
  <2>8. early' \subseteq Party
    BY <1>5
  <2> QED BY <1>2, <2>2, <2>3, <2>4, <2>6, <2>7, <2>8 DEF Paying
<1> QED BY <1>6, <1>7

\* A party enters.
LEMMA EnterKeeps == ASSUME Inv, NEW p \in Party, Enter(p) PROVE Inv'
<1>1. /\ pc[p] = "start" /\ Goto(p, "meet") /\ early' = early /\ conf.bad[p] # "args"
      /\ conf' = conf /\ files' = files /\ phase' = phase /\ met' = met /\ chan' = chan
      /\ share' = share /\ item' = item /\ asked' = asked /\ learned' = learned
      /\ card' = card /\ bits' = bits /\ agg' = agg /\ result' = result
  BY DEF Enter, At, vectors, found
<1>2. Standing' /\ Sockets' /\ Holding' /\ Learning' /\ Counting' /\ Alone(p) /\ pc'[p] = "meet" /\ phase'[p] = 1
  BY <1>1, StartMoves
<1>3. IF Scope(p) = None THEN room' = room /\ charged' = charged
      ELSE room[Scope(p)] > 0 /\ room' = [room EXCEPT ![Scope(p)] = @ - 1] /\ charged' = charged \cup {p}
  BY DEF Enter
<1>4. Paying'
  <2>1. Paying /\ Standing
    BY DEF Inv
  <2> QED BY <1>1, <1>2, <1>3, <2>1, EnterPays
<1> QED BY <1>2, <1>4 DEF Inv

\* Two parties meet: either goes on when it has met all others.
LEMMA MeetPlaces ==
  ASSUME Standing, NEW p \in Party, NEW q \in Party, p # q, pc[p] = "meet", pc[q] = "meet",
         met' = [met EXCEPT ![p] = @ + 1, ![q] = @ + 1],
         pc' = [r \in Party |-> IF r \in {p, q} /\ met'[r] = N - 1 THEN "lookup" ELSE pc[r]],
         conf' = conf, files' = files, phase' = phase
  PROVE /\ Standing'
        /\ \A r \in Party : (r \in {p, q} /\ pc[r] = "meet" /\ pc'[r] \in {"meet", "lookup"}) \/ pc'[r] = pc[r]
<1>1. pc \in [Party -> Places] /\ phase \in [Party -> 1..2] /\ met \in [Party -> 0..(N - 1)] /\ N \in Nat
  BY Parties DEF Standing
<1>2. ASSUME NEW r \in {p, q} PROVE met'[r] = met[r] + 1 /\ met[r] < N - 1 /\ met[r] \in Nat
  <2>1. r \in Party /\ pc[r] = "meet"
    OBVIOUS
  <2>2. met[r] < N - 1
    BY <2>1, PartyAt DEF PlaceOk
  <2>3. met'[r] = met[r] + 1
    BY <1>1, <2>1
  <2> QED BY <1>1, <2>1, <2>2, <2>3
<1>3. ASSUME NEW r \in Party \ {p, q} PROVE met'[r] = met[r] /\ pc'[r] = pc[r]
  BY <1>1
<1>4. ASSUME NEW r \in {p, q} PROVE pc'[r] = (IF met'[r] = N - 1 THEN "lookup" ELSE "meet") /\ pc[r] = "meet" /\ r \in Party
  BY <1>1
<1>5. ASSUME NEW r \in {p, q} PROVE met'[r] \in 0..(N - 1) /\ (met'[r] # N - 1 => met'[r] < N - 1)
  <2>1. met'[r] = met[r] + 1 /\ met[r] < N - 1 /\ met[r] \in Nat
    BY <1>2
  <2> QED BY <1>1, <2>1
<1>6. met' \in [Party -> 0..(N - 1)]
  <2>1. met' = [r \in Party |-> met'[r]]
    BY <1>1
  <2>2. \A r \in Party : met'[r] \in 0..(N - 1)
    BY <1>1, <1>3, <1>5
  <2> QED BY <2>1, <2>2
<1>7. ASSUME NEW r \in Party PROVE (r \in {p, q} /\ pc[r] = "meet" /\ pc'[r] \in {"meet", "lookup"}) \/ pc'[r] = pc[r]
  BY <1>3, <1>4
<1>8. pc' \in [Party -> Places]
  <2>1. \A r \in Party : pc'[r] \in Places
    BY <1>1, <1>7 DEF Places
  <2> QED BY <2>1
<1>9. ASSUME NEW r \in Party PROVE PlaceOk(r)'
  <2>1. PlaceOk(r) /\ phase[r] \in 1..2 /\ pc[r] \in Reached(r, phase[r])
    BY PartyAt
  <2>2. CASE r \in {p, q}
    <3>1. pc'[r] \in {"lookup", "meet"} /\ (pc'[r] = "meet" => met'[r] < N - 1) /\ pc[r] = "meet"
      BY <1>4, <1>5, <2>2
    <3>2. pc'[r] \in Reached(r, phase'[r])
      BY <2>1, <3>1 DEF Reached
    <3>3. ~(phase[r] = 2 /\ conf.bad[r] = "values")
      BY <2>1, <3>1 DEF PlaceOk
    <3> QED BY <3>1, <3>2, <3>3 DEF PlaceOk
  <2>3. CASE r \notin {p, q}
    <3>1. met'[r] = met[r] /\ pc'[r] = pc[r]
      BY <1>3, <2>3
    <3>2. Reached(r, phase[r])' = Reached(r, phase[r])
      BY DEF Reached
    <3> QED BY <2>1, <3>1, <3>2 DEF PlaceOk
  <2> QED BY <2>2, <2>3
<1>10. Prepared(conf.seed)' = Prepared(conf.seed)
  OBVIOUS
<1>11. Standing'
  BY <1>1, <1>6, <1>8, <1>9, <1>10 DEF Standing
<1> QED BY <1>7, <1>11

\* Nothing else of the invariant moves.
LEMMA MeetKeeps == ASSUME Inv, NEW p \in Party, NEW q \in Party, Meet(p, q) PROVE Inv'
<1>0. Standing /\ Sockets /\ Holding /\ Learning /\ Counting /\ Paying
  BY DEF Inv
<1>1. /\ p < q /\ pc[p] = "meet" /\ pc[q] = "meet" /\ met' = [met EXCEPT ![p] = @ + 1, ![q] = @ + 1]
      /\ pc' = [r \in Party |-> IF r \in {p, q} /\ met'[r] = N - 1 THEN "lookup" ELSE pc[r]]
      /\ conf' = conf /\ files' = files /\ room' = room /\ charged' = charged /\ early' = early /\ phase' = phase /\ chan' = chan
      /\ share' = share /\ item' = item /\ asked' = asked /\ learned' = learned
      /\ card' = card /\ bits' = bits /\ agg' = agg /\ result' = result
  BY DEF Meet, At, history, vectors, found
<1>2. p # q
  BY <1>1 DEF Party
<1>3. /\ Standing'
      /\ \A r \in Party : (pc[r] = "meet" /\ pc'[r] \in {"meet", "lookup"}) \/ pc'[r] = pc[r]
  BY <1>0, <1>1, <1>2, MeetPlaces
<1>4. ASSUME NEW r \in Party
      PROVE (Waits(r) \/ Stays(r)) /\ (ShareOk(r) /\ ItemOk(r))' /\ Entered(r)' = Entered(r)
  <2>0. phase'[r] = phase[r] /\ phase[r] \in 1..2 /\ ShareOk(r) /\ ItemOk(r)
    BY <1>0, <1>1, PartyAt DEF Holding
  <2>1. CASE pc[r] = "meet" /\ pc'[r] \in {"meet", "lookup"}
    <3>1. Waits(r)
      BY <2>0, <2>1 DEF Waits, Early
    <3>2. ShareOk(r)' /\ ItemOk(r)'
      BY <2>1 DEF ShareOk, ItemOk
    <3>3. (Entered(r)' <=> TRUE) /\ (Entered(r) <=> TRUE)
      BY <2>1 DEF Entered
    <3>4. Entered(r)' = Entered(r)
      BY <3>3 DEF Entered
    <3> QED BY <3>1, <3>2, <3>4
  <2>2. CASE pc'[r] = pc[r]
    <3>1. Stays(r)
      BY <2>0, <2>2 DEF Stays
    <3>2. ShareOk(r)'
      BY <1>1, <2>0, <2>2 DEF ShareOk
    <3>3. ItemOk(r)'
      BY <1>1, <2>0, <2>2 DEF ItemOk
    <3>4. Entered(r)' = Entered(r)
      BY <2>0, <2>2 DEF Entered
    <3> QED BY <3>1, <3>2, <3>3, <3>4
  <2> QED BY <1>3, <2>1, <2>2
<1>5. Sockets'
  <2>1. \A r \in Party : Waits(r) \/ Stays(r)
    BY <1>4
  <2> QED BY <1>0, <1>1, <2>1, SocketsWait
<1>6. Holding'
  <2>1. \A r \in Party : (ShareOk(r) /\ ItemOk(r))'
    BY <1>4
  <2> QED BY <1>0, <1>1, <2>1 DEF Holding
<1>7. Learning' /\ Counting'
  <2>1. CASE pc'[0] = pc[0]
    <3>1. phase'[0] = phase[0]
      BY <1>1
    <3> QED BY <1>0, <1>1, <2>1, <3>1, LearningStays, CountingStays
  <2>2. CASE pc[0] = "meet" /\ pc'[0] \in {"meet", "lookup"}
    <3>1. Learning'
      BY <1>0, <1>1, <2>2, LearningIdle
    <3>2. phase'[0] = phase[0] /\ pc[0] \in Quiet /\ pc'[0] \in Quiet
      BY <1>1, <2>2 DEF Quiet
    <3>3. Counting'
      BY <1>0, <1>1, <3>2, CountingMoves
    <3> QED BY <3>1, <3>3
  <2> QED BY <1>3, <2>1, <2>2, Parties
<1>8. Paying'
  <2>1. early' \subseteq Party /\ \A r \in Party : Entered(r)' = Entered(r)
    BY <1>0, <1>1, <1>4 DEF Paying
  <2> QED BY <1>0, <1>1, <2>1, PayingStays
<1> QED BY <1>3, <1>5, <1>6, <1>7, <1>8 DEF Inv

\* And nothing moves in a step that changes nothing.
LEMMA StillKeeps == ASSUME Inv, UNCHANGED vars PROVE Inv'
<1>0. Standing /\ Sockets /\ Holding /\ Learning /\ Counting /\ Paying
  BY DEF Inv
<1>1. /\ conf' = conf /\ files' = files /\ room' = room /\ charged' = charged /\ early' = early /\ phase' = phase /\ chan' = chan
      /\ share' = share /\ item' = item /\ asked' = asked /\ learned' = learned /\ pc' = pc /\ met' = met
      /\ card' = card /\ bits' = bits /\ agg' = agg /\ result' = result
  BY DEF vars
<1>2. Standing' /\ Holding'
  BY <1>0, <1>1, PlacesStay
<1>3. Learning' /\ Counting'
  BY <1>0, <1>1, LearningStays, CountingStays
<1>4. Sockets'
  <2>1. \A r \in Party : Waits(r) \/ Stays(r)
    BY <1>1 DEF Stays
  <2> QED BY <1>0, <1>1, <2>1, SocketsWait
<1>5. Paying'
  <2>1. early' \subseteq Party /\ \A r \in Party : Entered(r)' = Entered(r)
    BY <1>0, <1>1 DEF Paying, Entered
  <2> QED BY <1>0, <1>1, <2>1, PayingStays
<1> QED BY <1>2, <1>3, <1>4, <1>5 DEF Inv

\* All start with empty hands.
LEMMA InitInv == Init => Inv
<1> SUFFICES ASSUME Init PROVE Inv
  OBVIOUS
<1>1. /\ conf \in Confs /\ files = Prepared(conf.seed) /\ room = conf.room /\ charged = {} /\ early = {}
      /\ pc = [p \in Party |-> "start"] /\ phase = [p \in Party |-> 1] /\ met = [p \in Party |-> 0]
      /\ chan = [c \in Party \X Party |-> <<>>]
      /\ asked = [q \in Sender |-> 0] /\ learned = [q \in Sender |-> <<>>]
      /\ share = [p \in Party |-> Zeros] /\ item = [p \in Party |-> Zeros]
      /\ card = 0 /\ bits = {} /\ agg = 0 /\ result = NoResult
  BY DEF Init
<1>2. 0 \in Party /\ N \in Nat /\ N >= 2 /\ Sender \in SUBSET Party
  BY Parties
<1>3. \A p \in Party : pc[p] = "start" /\ phase[p] = 1 /\ met[p] = 0
  BY <1>1
<1>4. Standing
  <2>1. pc \in [Party -> Places] /\ phase \in [Party -> 1..2] /\ met \in [Party -> 0..(N - 1)]
    BY <1>1, <1>2 DEF Places
  <2>2. \A p \in Party : PlaceOk(p)
    BY <1>3 DEF PlaceOk, Reached
  <2> QED BY <1>1, <2>1, <2>2 DEF Standing
<1>5. Holding
  <2>1. Zeros \in Vector
    BY DEF Zeros, Vector, Element
  <2>2. \A p \in Party : ShareOk(p) /\ ItemOk(p)
    BY <1>3 DEF ShareOk, ItemOk
  <2> QED BY <1>1, <2>1, <2>2 DEF Holding
<1>6. \A q \in Sender : asked[q] = 0 /\ Len(learned[q]) = 0
  BY <1>1
<1>7. Learning
  <2>1. ASSUME NEW q \in Sender PROVE LookedUp(q)
    <3>1. Len(Kinds(phase[0])) >= 0
      BY DEF Kinds
    <3>2. \A i \in 1..Len(learned[q]) : FALSE
      BY <1>6
    <3> QED BY <1>6, <3>1, <3>2 DEF LookedUp
  <2>2. asked \in [Sender -> 0..2] /\ learned \in [Sender -> Seq(Vector)]
    BY <1>1
  <2> QED BY <2>1, <2>2 DEF Learning
<1>8. Counting
  BY <1>1, <1>2, <1>3 DEF Counting
<1>9. \A p \in Party : X(p) = 0
  BY <1>3 DEF X, Passed
<1>10. Sockets
  <2>1. chan = [d \in Party \X Party |-> chan[d]] /\ DOMAIN chan = Party \X Party
    BY <1>1
  <2>2. \A d \in Party \X Party : chan[d] = <<>>
    BY <1>1
  <2>3. ASSUME NEW q \in Sender PROVE UpOk(q) /\ DownOk(q) /\ OverOk(q)
    <3>1. /\ <<q, 0>> \in Party \X Party /\ <<0, q>> \in Party \X Party /\ <<q - 1, q>> \in Party \X Party
          /\ q \in Party /\ q - 1 \in Party
      BY PairsAre, SenderIs
    <3>2. U(q) = 0
      BY <1>3, <3>1 DEF U, SentUp
    <3>3. V(q) = 0
      <4>1. TakenUp(phase[0], pc[0], conf.bad[0]) = 0
        BY <1>2, <1>3 DEF TakenUp
      <4> QED BY <1>6, <4>1 DEF V
    <3>4. W(q) = 0
      <4>1. Answered(phase[q], pc[q], conf.bad[q]) = 0
        BY <1>3, <3>1 DEF Answered
      <4>2. Second(q, X(q)) = 0
        BY <1>9, <3>1 DEF Second
      <4> QED BY <4>1, <4>2 DEF W
    <3>5. Y(q) = 0
      <4>1. Asked0(phase[0], pc[0], conf.bad[0]) = 0
        BY <1>2, <1>3 DEF Asked0
      <4>2. Second(q, X(0)) = 0
        BY <1>2, <1>9 DEF Second
      <4> QED BY <1>6, <4>1, <4>2 DEF Y
    <3>6. \A S : Window(<<>>, S, 0, 0)
      BY WindowEmpty
    <3>7. UpOk(q)
      BY <2>2, <3>1, <3>2, <3>3, <3>6 DEF UpOk
    <3>8. DownOk(q)
      BY <2>2, <3>1, <3>4, <3>5, <3>6 DEF DownOk
    <3>9. OverOk(q)
      BY <1>9, <2>2, <3>1, <3>6 DEF OverOk
    <3> QED BY <3>7, <3>8, <3>9
  <2> QED BY <2>1, <2>2, <2>3 DEF Sockets
<1>11. Paying
  <2>1. room \in [DOMAIN conf.room -> Nat]
    <3>1. Typed(conf)
      BY <1>1, ConfsAssumption
    <3>2. conf.room \in [DOMAIN conf.room -> Nat]
      BY <3>1 DEF Typed
    <3> QED BY <1>1, <3>2
  <2>2. ASSUME NEW s \in DOMAIN conf.room PROVE room[s] + Cardinality(ChargedTo(s)) = conf.room[s]
    <3>1. ChargedTo(s) = {}
      BY <1>1 DEF ChargedTo
    <3>2. Cardinality(ChargedTo(s)) = 0
      BY <3>1, FS_EmptySet
    <3>3. room[s] = conf.room[s] /\ room[s] \in Nat
      BY <1>1, <2>1
    <3> QED BY <3>2, <3>3
  <2>3. \A p \in Party : ~Entered(p)
    BY <1>3 DEF Entered
  <2> QED BY <1>1, <2>1, <2>2, <2>3 DEF Paying
<1> QED BY <1>4, <1>5, <1>7, <1>8, <1>10, <1>11 DEF Inv

\* Every step keeps the invariant.
LEMMA NextInv == Inv /\ [Next]_vars => Inv'
<1> SUFFICES ASSUME Inv, [Next]_vars PROVE Inv'
  OBVIOUS
<1>1. CASE UNCHANGED vars
  BY <1>1, StillKeeps
<1>2. CASE Next
  <2>1. PICK p \in Party : Step(p)
    BY <1>2 DEF Next
  <2>2. CASE BadArguments(p) \/ Refused(p) \/ Enter(p)
    BY <2>2, BadArgumentsKeeps, RefusedKeeps, EnterKeeps
  <2>3. CASE \E q \in Party : Meet(p, q) \/ Meet(q, p)
    BY <2>3, MeetKeeps
  <2>4. CASE p = 0 /\ (\E q \in Sender : AskSender(q) \/ TakeFunction(q))
    BY <2>4, AskSenderKeeps, TakeFunctionKeeps
  <2>5. CASE p = 0 /\ (AddMasked \/ ShuffleFirst \/ Reconstruct \/ TakeSums)
    BY <2>5, AddMaskedKeeps, ShuffleFirstKeeps, ReconstructCounts, ReconstructNames, TakeSumsKeeps
  <2>6. CASE p = 0 /\ \E cardNoise, aggNoise \in conf.noise : Release(cardNoise, aggNoise)
    BY <2>6, ReleaseKeeps
  <2>7. CASE p # 0 /\ \E kind \in {"PSI", "PSICS1", "PSICS2"} : AnswerLabels(p, kind)
    <3>1. p \in Sender
      BY <2>7, Parties
    <3>2. PICK kind \in AllKinds : AnswerLabels(p, kind)
      BY <2>7 DEF AllKinds
    <3> QED BY <3>1, <3>2, AnswerKeeps
  <2>8. CASE p # 0 /\ (SendMasked(p) \/ TakeProduct(p) \/ ShuffleIn(p) \/ ShuffleOn(p) \/ Reveal(p) \/ SumUp(p))
    <3>1. p \in Sender
      BY <2>8, Parties
    <3> QED BY <2>8, <3>1, SendMaskedKeeps, TakeProductKeeps, ShuffleInKeeps, ShuffleOnKeeps, RevealKeeps, SumUpKeeps
  <2> QED BY <2>1, <2>2, <2>3, <2>4, <2>5, <2>6, <2>7, <2>8 DEF Step
<1> QED BY <1>1, <1>2

\* In every state of a session, in every order of its parties' steps, the sockets
\* hold windows of the session's streams, and the parties' vectors, counts and
\* payments are what their places say.
THEOREM Invariant == Spec => []Inv
BY InitInv, NextInv, PTL DEF Spec

-----------------------------------------------------------------------------
(* Types. A socket never holds more than two messages: what a sender has answered,
   has had passed on and has sent goes together, and so do party 0's counts. *)

SenderNumbers(a, x, u) ==
  \/ a = 0 /\ x = 0 /\ u = 0
  \/ a = 1 /\ x = 0 /\ u \in {1, 2}
  \/ a = 2 /\ x = 0 /\ u \in {2, 3}
  \/ a = 2 /\ x = 1 /\ u \in {3, 4}
  \/ a = 3 /\ x = 1 /\ u = 5
  \/ a = 4 /\ x = 1 /\ u \in {6, 7}
  \/ a = 5 /\ x = 1 /\ u \in {7, 8}
  \/ a = 5 /\ x = 2 /\ u \in {8, 9}
  \/ a = 5 /\ x = 3 /\ u \in {9, 10}
  \/ a = 6 /\ x = 3 /\ u = 11
FirstNumbers(y, x, v) ==
  \/ y \in {0, 1} /\ x = 0 /\ v = 0
  \/ y = 1 /\ x = 0 /\ v = 1
  \/ y = 2 /\ x = 0 /\ v = 2
  \/ y = 2 /\ x = 1 /\ v \in {3, 4}
  \/ y = 3 /\ x = 1 /\ v \in {4, 5}
  \/ y = 4 /\ x = 1 /\ v \in {5, 6}
  \/ y = 5 /\ x = 1 /\ v = 7
  \/ y = 5 /\ x = 2 /\ v = 8
  \/ y = 5 /\ x = 3 /\ v = 9
  \/ y = 6 /\ x = 3 /\ v \in {10, 11}

\* A sender's counts.
LEMMA SenderNumbersAre ==
  ASSUME Standing, NEW q \in Sender
  PROVE SenderNumbers(Answered(phase[q], pc[q], conf.bad[q]), X(q), U(q))
<1> DEFINE f == phase[q]
           h == pc[q]
           bad == conf.bad[q]
<1>1. /\ f \in 1..2 /\ (f = 2 /\ bad = "values" => h = "returned")
      /\ (f = 1 => h \in {"start", "meet", "lookup", "multiply", "product", "shuffle", "pass", "reveal", "returned"})
      /\ (f = 2 => h \in {"meet", "lookup", "lookup2", "multiply", "product", "shuffle", "pass", "shuffleItems",
                          "passItems", "reveal", "bits", "returned"})
  BY SenderAt
<1>2. X(q) = Passed(f, h, bad) /\ U(q) = SentUp(f, h, bad)
  BY DEF X, U
<1> HIDE DEF f, h, bad
<1>3. CASE f = 1
  <2>1. h \in {"start", "meet", "lookup", "multiply", "product", "shuffle", "pass", "reveal", "returned"}
    BY <1>1, <1>3
  <2>2. SenderNumbers(Answered(f, h, bad), Passed(f, h, bad), SentUp(f, h, bad))
    BY <1>3, <2>1 DEF Answered, Passed, SentUp, SenderNumbers
  <2> QED BY <1>2, <2>2 DEF f, h, bad
<1>4. CASE f = 2
  <2>1. h \in {"meet", "lookup", "lookup2", "multiply", "product", "shuffle", "pass", "shuffleItems",
               "passItems", "reveal", "bits", "returned"} /\ (bad = "values" => h = "returned")
    BY <1>1, <1>4
  <2>2. SenderNumbers(Answered(f, h, bad), Passed(f, h, bad), SentUp(f, h, bad))
    BY <1>4, <2>1 DEF Answered, Passed, SentUp, SenderNumbers
  <2> QED BY <1>2, <2>2 DEF f, h, bad
<1>5. f = 1 \/ f = 2
  BY <1>1
<1> QED BY <1>3, <1>4, <1>5

\* Party 0's.
LEMMA FirstNumbersAre ==
  ASSUME Standing, Learning, NEW q \in Sender
  PROVE FirstNumbers(Asked0(phase[0], pc[0], conf.bad[0]) + asked[q], X(0), V(q))
<1> DEFINE f == phase[0]
           h == pc[0]
           bad == conf.bad[0]
           k == Len(learned[q])
           n == asked[q]
<1>1. /\ f \in 1..2 /\ (f = 2 /\ bad = "values" => h \in {"release", "returned"})
      /\ (f = 1 => h \in {"start", "meet", "lookup", "multiply", "shuffle", "reveal", "returned"})
      /\ (f = 2 => h \in {"meet", "lookup", "multiply", "shuffle", "shuffleItems", "reveal", "sums", "release", "returned"})
  BY FirstAt
<1>2. X(0) = Passed(f, h, bad) /\ V(q) = TakenUp(f, h, bad) + k
  BY DEF X, V
<1>3. h # "lookup" => n = 0 /\ k = 0
  BY Idle
<1>4. h = "lookup" => n \in 0..f /\ k <= n /\ n <= k + 1 /\ k \in Nat
  BY LookupAt
<1> HIDE DEF f, h, bad, k, n
<1>5. FirstNumbers(Asked0(f, h, bad) + n, Passed(f, h, bad), TakenUp(f, h, bad) + k)
  <2>1. CASE h = "lookup" /\ f = 1
    <3>1. n \in {0, 1} /\ (n = 0 => k = 0) /\ (n = 1 => k \in {0, 1})
      BY <1>4, <2>1
    <3>2. Asked0(f, h, bad) = 0 /\ Passed(f, h, bad) = 0 /\ TakenUp(f, h, bad) = 0
      BY <2>1 DEF Asked0, Passed, TakenUp
    <3> QED BY <3>1, <3>2 DEF FirstNumbers
  <2>2. CASE h = "lookup" /\ f = 2
    <3>1. n \in {0, 1, 2} /\ (n = 0 => k = 0) /\ (n = 1 => k \in {0, 1}) /\ (n = 2 => k \in {1, 2})
      BY <1>4, <2>2
    <3>2. Asked0(f, h, bad) = 2 /\ Passed(f, h, bad) = 1 /\ TakenUp(f, h, bad) = 4
      BY <2>2 DEF Asked0, Passed, TakenUp
    <3> QED BY <3>1, <3>2 DEF FirstNumbers
  <2>3. CASE h # "lookup" /\ f = 1
    <3>1. h \in {"start", "meet", "multiply", "shuffle", "reveal", "returned"} /\ n = 0 /\ k = 0
      BY <1>1, <1>3, <2>3
    <3> QED BY <2>3, <3>1 DEF Asked0, Passed, TakenUp, FirstNumbers
  <2>4. CASE h # "lookup" /\ f = 2
    <3>1. /\ h \in {"meet", "multiply", "shuffle", "shuffleItems", "reveal", "sums", "release", "returned"} /\ n = 0 /\ k = 0
          /\ (bad = "values" => h \in {"release", "returned"})
      BY <1>1, <1>3, <2>4
    <3> QED BY <2>4, <3>1 DEF Asked0, Passed, TakenUp, FirstNumbers
  <2>5. f = 1 \/ f = 2
    BY <1>1
  <2> QED BY <2>1, <2>2, <2>3, <2>4, <2>5
<1> QED BY <1>2, <1>5 DEF f, h, bad, n

\* How far the two can be apart.
LEMMA Ahead ==
  ASSUME NEW a \in Nat, NEW x \in Nat, NEW u \in Nat, SenderNumbers(a, x, u),
         NEW y \in Nat, NEW z \in Nat, NEW v \in Nat, FirstNumbers(y, z, v), v <= u
  PROVE /\ a + x <= y + z => x <= z /\ (y + z) - (a + x) <= 2 /\ u - v <= 2
        /\ a <= y /\ x <= z => y - a <= 2 /\ u - v <= 2
        /\ z - x <= 2
<1>1. /\ a + x <= y + z => x <= z /\ (y + z) - (a + x) <= 2 /\ u - v <= 2
  BY DEF SenderNumbers, FirstNumbers
<1>2. /\ a <= y /\ x <= z => y - a <= 2 /\ u - v <= 2
  BY DEF SenderNumbers, FirstNumbers
<1>3. z - x <= 2
  BY DEF SenderNumbers, FirstNumbers
<1> QED BY <1>1, <1>2, <1>3

\* They are numbers.
LEMMA SenderNumbersNat ==
  ASSUME NEW a, NEW x, NEW u, SenderNumbers(a, x, u)
  PROVE a \in Nat /\ x \in 0..3 /\ u \in Nat
BY DEF SenderNumbers
\* And party 0's.
LEMMA FirstNumbersNat ==
  ASSUME NEW y, NEW x, NEW v, FirstNumbers(y, x, v)
  PROVE y \in Nat /\ x \in 0..3 /\ v \in Nat
BY DEF FirstNumbers

\* What a window holds.
LEMMA WindowLen ==
  ASSUME NEW ch, NEW S, NEW v, NEW u, Window(ch, S, v, u)
  PROVE Len(ch) = u - v /\ v \in Nat /\ u \in Nat /\ v <= u
BY WindowSeq

\* What a sender has not been given yet, and what party 0 has not taken.
LEMMA PairCounts ==
  ASSUME Standing, Sockets, Learning, NEW q \in Sender
  PROVE /\ Len(chan[<<q, 0>>]) = U(q) - V(q) /\ V(q) \in Nat /\ U(q) \in Nat /\ X(q) \in 0..3 /\ X(0) \in 0..3
        /\ Len(chan[<<0, q>>]) = Y(q) - W(q) /\ W(q) \in Nat /\ Y(q) \in Nat
        /\ (q # 1 => Len(chan[<<q - 1, q>>]) = X(q - 1) - X(q) /\ X(q) <= X(q - 1))
        /\ (q = 1 => X(q) <= X(0))
        /\ (X(q) <= X(0) => U(q) - V(q) <= 2 /\ Y(q) - W(q) <= 2)
        /\ X(0) - X(q) <= 2
<1> DEFINE a == Answered(phase[q], pc[q], conf.bad[q])
           x == X(q)
           u == U(q)
           y == Asked0(phase[0], pc[0], conf.bad[0])
           n == asked[q]
           z == X(0)
           v == V(q)
<1>1. SenderNumbers(a, x, u) /\ FirstNumbers(y + n, z, v)
  BY SenderNumbersAre, FirstNumbersAre
<1>2. n \in Nat /\ y \in Nat
  <2>1. asked[q] \in 0..2
    BY DEF Learning
  <2> QED BY <2>1 DEF Asked0
<1>3. W(q) = a + Second(q, x) /\ Y(q) = y + Second(q, z) + n
  BY DEF W, Y
<1>4. Len(chan[<<q, 0>>]) = u - v /\ v <= u
  <2>1. Window(chan[<<q, 0>>], UpStream(conf, q), V(q), U(q))
    BY DEF Sockets, UpOk
  <2> QED BY <2>1, WindowLen
<1>5. Len(chan[<<0, q>>]) = Y(q) - W(q) /\ W(q) <= Y(q) /\ W(q) \in Nat /\ Y(q) \in Nat
  <2>1. Window(chan[<<0, q>>], DownStream(conf, q), W(q), Y(q))
    BY DEF Sockets, DownOk
  <2> QED BY <2>1, WindowLen
<1>6. q # 1 => Len(chan[<<q - 1, q>>]) = X(q - 1) - X(q) /\ X(q) <= X(q - 1)
  <2>1. q # 1 => Window(chan[<<q - 1, q>>], OverStream(conf, q), X(q), X(q - 1))
    BY DEF Sockets, OverOk
  <2> QED BY <2>1, WindowLen
<1> DEFINE m == y + n
<1>7. SenderNumbers(a, x, u) /\ FirstNumbers(m, z, v)
  BY <1>1
<1> HIDE DEF a, x, u, y, n, z, v, m
<1>8. a \in Nat /\ x \in 0..3 /\ u \in Nat /\ m \in Nat /\ z \in 0..3 /\ v \in Nat
  BY <1>7, SenderNumbersNat, FirstNumbersNat
<1>9. /\ a + x <= m + z => x <= z /\ (m + z) - (a + x) <= 2 /\ u - v <= 2
      /\ a <= m /\ x <= z => m - a <= 2 /\ u - v <= 2
      /\ z - x <= 2
  <2>1. x \in Nat /\ z \in Nat
    BY <1>8
  <2> QED BY <1>4, <1>7, <1>8, <2>1, Ahead
<1>10. CASE q = 1
  <2>1. Second(q, x) = x /\ Second(q, z) = z
    BY <1>10 DEF Second
  <2>2. a + x <= m + z /\ Y(q) - W(q) = (m + z) - (a + x)
    BY <1>2, <1>3, <1>5, <1>8, <2>1 DEF m
  <2>3. x <= z /\ Y(q) - W(q) <= 2 /\ u - v <= 2 /\ z - x <= 2
    BY <1>9, <2>2
  <2> QED BY <1>4, <1>5, <1>6, <1>8, <1>10, <2>3 DEF x, u, z, v
<1>11. CASE q # 1
  <2>1. Second(q, x) = 0 /\ Second(q, z) = 0
    BY <1>11 DEF Second
  <2>2. a <= m /\ Y(q) - W(q) = m - a
    BY <1>2, <1>3, <1>5, <1>8, <2>1 DEF m
  <2>3. (x <= z => Y(q) - W(q) <= 2 /\ u - v <= 2) /\ z - x <= 2
    BY <1>9, <2>2
  <2> QED BY <1>4, <1>5, <1>6, <1>8, <1>11, <2>3 DEF x, u, z, v
<1> QED BY <1>10, <1>11

\* Nobody is ahead of party 0.
LEMMA ChainBehind ==
  ASSUME Standing, Sockets, Learning
  PROVE \A p \in Party : X(p) <= X(0) /\ X(p) \in 0..3
<1> DEFINE T == {p \in Party : X(p) <= X(0) /\ X(p) \in 0..3}
<1>1. 0 \in Party /\ X(0) \in 0..3
  <2>1. 1 \in Sender /\ 0 \in Party
    BY Parties DEF Sender, Party
  <2> QED BY <2>1, PairCounts
<1>2. 0 \in T
  BY <1>1
<1>3. ASSUME NEW p \in Sender, p - 1 \in T PROVE p \in T
  <2>1. /\ X(p) \in 0..3 /\ (p # 1 => X(p) <= X(p - 1)) /\ (p = 1 => X(p) <= X(0)) /\ p \in Party
    BY PairCounts, SenderIs
  <2>2. X(p - 1) <= X(0) /\ X(p - 1) \in 0..3
    BY <1>3
  <2>3. X(p) <= X(0)
    <3> DEFINE i == X(p)
               j == X(p - 1)
               k == X(0)
    <3>1. i \in 0..3 /\ j \in 0..3 /\ k \in 0..3 /\ j <= k /\ (p # 1 => i <= j) /\ (p = 1 => i <= k)
      BY <1>1, <2>1, <2>2
    <3>2. i <= k
      <4> HIDE DEF i, j, k
      <4> QED BY <3>1
    <3> QED BY <3>2
  <2> QED BY <2>1, <2>3
<1> HIDE DEF T
<1>4. Party \subseteq T
  BY <1>2, <1>3, AlongParties
<1> QED BY <1>4 DEF T

\* So no socket holds more than two messages.
LEMMA SocketsBounded ==
  ASSUME Standing, Sockets, Learning, NEW d \in Party \X Party
  PROVE Len(chan[d]) <= 2
<1>1. \A p \in Party : X(p) <= X(0) /\ X(p) \in 0..3
  BY ChainBehind
<1>2. ASSUME NEW q \in Sender PROVE Len(chan[<<q, 0>>]) <= 2 /\ Len(chan[<<0, q>>]) <= 2 /\ Len(chan[<<q - 1, q>>]) <= 2
  <2>1. q \in Party /\ q - 1 \in Party
    BY SenderIs
  <2>2. /\ Len(chan[<<q, 0>>]) = U(q) - V(q) /\ Len(chan[<<0, q>>]) = Y(q) - W(q)
        /\ (q # 1 => Len(chan[<<q - 1, q>>]) = X(q - 1) - X(q))
        /\ (X(q) <= X(0) => U(q) - V(q) <= 2 /\ Y(q) - W(q) <= 2)
        /\ X(0) - X(q) <= 2
    BY PairCounts
  <2>3. Len(chan[<<q, 0>>]) <= 2 /\ Len(chan[<<0, q>>]) <= 2
    BY <1>1, <2>1, <2>2
  <2>4. CASE q = 1
    <3>1. <<q - 1, q>> = <<0, q>>
      BY <2>4
    <3> QED BY <2>3, <3>1
  <2>5. CASE q # 1
    <3>1. X(q - 1) - X(q) <= 2
      <4> DEFINE i == X(q)
                 j == X(q - 1)
                 k == X(0)
      <4>1. i \in 0..3 /\ j \in 0..3 /\ k \in 0..3 /\ j <= k /\ k - i <= 2
        BY <1>1, <2>1, <2>2, Parties
      <4>2. j - i <= 2
        <5> HIDE DEF i, j, k
        <5> QED BY <4>1
      <4> QED BY <4>2
    <3> QED BY <2>2, <2>3, <2>5, <3>1
  <2> QED BY <2>3, <2>4, <2>5
<1>3. CASE d \in Used
  BY <1>2, <1>3 DEF Used
<1>4. CASE d \notin Used
  <2>1. chan[d] = <<>>
    BY <1>4 DEF Sockets
  <2> QED BY <2>1
<1> QED BY <1>3, <1>4

\* The invariant has the types.
LEMMA TypeInv == Inv => TypeOK
<1> SUFFICES ASSUME Inv PROVE TypeOK
  OBVIOUS
<1>0. Standing /\ Sockets /\ Holding /\ Learning /\ Counting /\ Paying
  BY DEF Inv
<1>1. \A p \in Party : pc[p] \in Places /\ phase[p] \in 1..2 /\ met[p] \in 0..(N - 1)
  BY <1>0 DEF Standing
<1>2. charged \subseteq Party /\ early \subseteq Party /\ \A s \in DOMAIN room : room[s] \in Nat
  BY <1>0 DEF Paying
<1>3. \A q \in Sender : asked[q] \in 0..2 /\ Len(learned[q]) <= asked[q]
  BY <1>0 DEF Learning, LookedUp
<1>4. \A d \in DOMAIN chan : Len(chan[d]) <= 2
  <2>1. DOMAIN chan = Party \X Party
    BY <1>0 DEF Sockets
  <2> QED BY <1>0, <2>1, SocketsBounded
<1>5. share \in [Party -> [Bin -> Words]] /\ item \in [Party -> [Bin -> Words]]
  <2>1. Vector = [Bin -> Words]
    BY DEF Vector, Words, Element
  <2> QED BY <1>0, <2>1 DEF Holding
<1>6. Typed(conf) /\ phase[0] \in 1..2
  BY <1>0, FirstAt
<1>7. Modulus \in Nat /\ Modulus > 0 /\ Modulus = 2^Degree
  <2>1. Degree \in Nat
    BY SetAssumption
  <2> QED BY <2>1, PowerPositive DEF Modulus
<1>8. card \in 0..Bins
  <2> DEFINE H == HitsOf(conf, "PSI")
  <2>1. H \in SUBSET Bin
    BY <1>6, SumsTyped
  <2>2. Bins \in Nat /\ IsFiniteSet(Bin)
    BY Parties
  <2>3. Cardinality(Bin) = Bins
    <3>1. IsFiniteSet(1..Bins) /\ Cardinality(1..Bins) = IF 1 > Bins THEN 0 ELSE (Bins - 1) + 1
      BY <2>2, FS_Interval
    <3> QED BY <2>2, <3>1 DEF Bin
  <2> HIDE DEF H
  <2>4. IsFiniteSet(H) /\ Cardinality(H) <= Cardinality(Bin)
    BY <2>1, <2>2, FS_Subset
  <2>5. Cardinality(H) \in Nat
    BY <2>4, FS_CardinalityType
  <2>6. card = IF phase[0] = 1 THEN 0 ELSE Cardinality(H)
    BY <1>0 DEF Counting, H
  <2>7. Cardinality(H) \in 0..Bins
    BY <2>2, <2>3, <2>4, <2>5
  <2> QED BY <2>2, <2>6, <2>7
<1>9. bits \subseteq Bin
  BY <1>0 DEF Counting
<1>10. agg \in 0..(2^Degree - 1)
  <2>1. AggOf(conf) \in 0..(Modulus - 1) /\ SumBy(conf, 0) \in 0..(Modulus - 1)
    BY <1>6, SumsTyped, Parties
  <2>2. 0 \in 0..(Modulus - 1)
    BY <1>7
  <2>3. agg \in {0, SumBy(conf, 0), AggOf(conf)}
    BY <1>0 DEF Counting
  <2> QED BY <1>7, <2>1, <2>2, <2>3
<1> QED BY <1>1, <1>2, <1>3, <1>4, <1>5, <1>8, <1>9, <1>10 DEF TypeOK

\* No variable leaves its type: the counts and the sum stay in their ranges, and a
\* socket never holds more than two messages.
THEOREM Types == Spec => []TypeOK
BY Invariant, TypeInv, PTL

-----------------------------------------------------------------------------
(* The refinement. What IdealOira takes of other modules is its own: it is the same. *)

IdealSums(value, C, S) == Ideal!MapThenSumSet(LAMBDA q : Ideal!MapThenSumSet(LAMBDA id : value[q][id], C), S)

\* It counts,
LEMMA IdealCount == \A S : Ideal!Cardinality(S) = Cardinality(S)
BY Zenon DEF Ideal!Cardinality, Cardinality

\* and sums alike,
LEMMA IdealSumsIs == ASSUME NEW value, NEW C, NEW S PROVE IdealSums(value, C, S) = ValueSums(value, C, S)
BY Zenon DEF IdealSums, ValueSums, MapThenSumSet, MapThenFoldSet, Ideal!MapThenSumSet, Ideal!MapThenFoldSet

\* and means the same parties, ids and scopes.
LEMMA Names ==
  /\ Ideal!Party = Party /\ Ideal!Sender = Sender /\ Ideal!Common = CommonIds(conf) /\ \A p : Ideal!Scope(p) = Scope(p)
<1>1. Ideal!Party = Party
  BY DEF Ideal!Party, Party
<1>2. Ideal!Sender = Sender
  BY <1>1 DEF Ideal!Sender, Sender
<1>3. Ideal!Common = CommonIds(conf)
  BY <1>2, Zenon DEF Ideal!Common, CommonIds
<1>4. \A p : Ideal!Scope(p) = Scope(p)
  BY DEF Ideal!Scope, Scope
<1> QED BY <1>1, <1>2, <1>3, <1>4

\* The mean of the senders' sums.
LEMMA MeanIs == Ideal!Sum = (ValueSums(conf.value, CommonIds(conf), Sender) % Modulus) \div (N - 1)
<1>1. Ideal!Sum = (IdealSums(conf.value, Ideal!Common, Ideal!Sender) % Modulus) \div (N - 1)
  BY Zenon DEF Ideal!Sum, Modulus, IdealSums
<1>2. IdealSums(conf.value, Ideal!Common, Ideal!Sender) = ValueSums(conf.value, CommonIds(conf), Sender)
  BY Names, IdealSumsIs
<1> QED BY <1>1, <1>2

\* A negative count is none.
LEMMA MaxIs == ASSUME NEW n \in Int PROVE Ideal!Max({0, n}) = IF n < 0 THEN 0 ELSE n
<1> DEFINE S == {0, n}
           P(x) == x \in S /\ \A y \in S : x >= y
           m == CHOOSE x \in S : \A y \in S : x >= y
<1>1. Ideal!Max(S) = m
  BY Zenon DEF Ideal!Max
<1>2. \E x \in S : \A y \in S : x >= y
  <2>1. CASE n < 0
    BY <2>1
  <2>2. CASE ~(n < 0)
    BY <2>2
  <2> QED BY <2>1, <2>2
<1>3. m \in S /\ \A y \in S : m >= y
  BY <1>2
<1> HIDE DEF m
<1>4. m = IF n < 0 THEN 0 ELSE n
  BY <1>3
<1> QED BY <1>1, <1>4

\* When party 0 releases, everyone has paid, and no sender has returned before the sum.
LEMMA AllAgreed ==
  ASSUME Inv, pc[0] = "release", conf.bad[0] # "values"
  PROVE phase[0] = 2 /\ Ideal!Agreed /\ Ideal!Possible
<1>0. Standing /\ Sockets /\ Learning /\ Paying
  BY DEF Inv
<1>1. phase[0] = 2 /\ 0 \in Party
  BY <1>0, FirstAt
<1>2. ASSUME NEW q \in Sender
      PROVE phase[q] = 2 /\ Entered(q) /\ (conf.bad[0] # "values" => conf.bad[q] # "values")
  <2>1. V(q) = IF conf.bad[0] = "values" THEN 4 ELSE 11
    <3>1. V(q) = TakenUp(phase[0], pc[0], conf.bad[0]) + 0
      BY <1>0, IdleCounters
    <3>2. TakenUp(phase[0], pc[0], conf.bad[0]) = IF conf.bad[0] = "values" THEN 4 ELSE 11
      BY <1>1 DEF TakenUp
    <3> QED BY <3>1, <3>2
  <2>2. V(q) <= U(q) /\ U(q) \in Nat
    BY <1>0, WindowLen DEF Sockets, UpOk
  <2> DEFINE f == phase[q]
             h == pc[q]
             bad == conf.bad[q]
             u == U(q)
  <2>3. /\ f \in 1..2
        /\ (f = 1 => h \in {"start", "meet", "lookup", "multiply", "product", "shuffle", "pass", "reveal", "returned"})
        /\ (f = 2 => h \in {"meet", "lookup", "lookup2", "multiply", "product", "shuffle", "pass", "shuffleItems",
                            "passItems", "reveal", "bits", "returned"})
    BY <1>0, SenderAt
  <2>4. u = SentUp(f, h, bad) /\ u >= 4 /\ (conf.bad[0] # "values" => u >= 11) /\ u \in Nat
    <3>1. u >= 4 /\ (conf.bad[0] # "values" => u >= 11)
      BY <2>1, <2>2
    <3> QED BY <2>2, <3>1 DEF U
  <2> HIDE DEF f, h, bad, u
  <2>5. f = 2
    <3> SUFFICES ASSUME f = 1 PROVE FALSE
      BY <2>3
    <3>1. u <= 3
      BY <2>3, <2>4 DEF SentUp
    <3> QED BY <2>4, <3>1
  <2>6. bad = "values" /\ h = "returned" => u = 4
    BY <2>4, <2>5 DEF SentUp
  <2>7. conf.bad[0] # "values" => bad # "values"
    <3> SUFFICES ASSUME conf.bad[0] # "values", bad = "values" PROVE FALSE
      OBVIOUS
    <3>1. h = "returned"
      BY <1>0, <2>5, SenderAt DEF f, h, bad
    <3> QED BY <2>4, <2>6, <3>1
  <2>8. pc[q] # "start" /\ phase[q] = 2
    BY <2>3, <2>5 DEF f, h
  <2>9. Entered(q)
    BY <2>8 DEF Entered
  <2> QED BY <2>7, <2>8, <2>9 DEF bad
<1>3. \A p \in Party : Entered(p)
  <2>1. Entered(0)
    BY <1>1 DEF Entered
  <2> QED BY <1>2, <2>1, Parties
<1>4. Ideal!Agreed
  <2>1. \A p \in Party : conf.bad[p] # "args" /\ (Scope(p) # None => p \in charged)
    BY <1>0, <1>3 DEF Paying
  <2>2. \A p \in Ideal!Party : conf.bad[p] # "args" /\ (Ideal!Scope(p) # "none" => p \in charged)
    BY <2>1, Names DEF None
  <2> QED BY <2>2 DEF Ideal!Agreed
<1>5. Ideal!Possible
  <2>1. \A q \in Ideal!Sender : conf.bad[q] # "values"
    BY <1>2, Names
  <2> QED BY <2>1 DEF Ideal!Possible
<1> QED BY <1>1, <1>4, <1>5

\* Who enters with a budget pays from it, and there is room for it.
LEMMA EnterCharges ==
  ASSUME Inv, NEW p \in Party, Enter(p), Scope(p) # None
  PROVE Ideal!Charge(p)
<1>0. Standing /\ Paying /\ Typed(conf)
  BY FirstAt DEF Inv
<1> DEFINE s == Scope(p)
<1>1. s \in DOMAIN conf.room
  <2>1. conf.scope[p] \in DOMAIN conf.room \cup {"none"}
    BY <1>0 DEF Typed
  <2> QED BY <2>1 DEF Scope, None
<1>2. pc[p] = "start" /\ conf.bad[p] # "args"
  BY DEF Enter, At
<1>3. room[s] > 0 /\ charged' = charged \cup {p}
  BY Zenon DEF Enter
<1>4. conf' = conf /\ result' = result
  BY DEF Enter, found
<1>5. p \notin charged
  <2>1. ~Entered(p)
    BY <1>2 DEF Entered
  <2> QED BY <1>0, <2>1 DEF Paying
<1>6. Cardinality(ChargedTo(s)) < conf.room[s]
  <2>1. room[s] + Cardinality(ChargedTo(s)) = conf.room[s] /\ room[s] \in Nat
    BY <1>0, <1>1 DEF Paying
  <2>2. Cardinality(ChargedTo(s)) \in Nat
    <3>1. ChargedTo(s) \subseteq Party
      BY <1>0 DEF Paying, ChargedTo
    <3> QED BY <3>1, Parties, FS_Subset, FS_CardinalityType
  <2> HIDE DEF s
  <2> DEFINE r == room[s]
             k == Cardinality(ChargedTo(s))
             all == conf.room[s]
  <2>3. r > 0 /\ r + k = all /\ r \in Nat /\ k \in Nat
    BY <1>3, <2>1, <2>2
  <2>4. k < all
    <3> HIDE DEF r, k, all
    <3> QED BY <2>3
  <2> QED BY <2>4
<1>7. {q \in charged : Ideal!Scope(q) = Ideal!Scope(p)} = ChargedTo(s)
  BY Names DEF ChargedTo
<1>8. Ideal!Scope(p) = s
  BY Names
<1>9. Ideal!Cardinality({q \in charged : Ideal!Scope(q) = Ideal!Scope(p)}) < conf.room[Ideal!Scope(p)]
  BY <1>6, <1>7, <1>8, IdealCount
<1>10. Ideal!Scope(p) # "none"
  BY <1>8 DEF None
<1>11. p \notin charged /\ Ideal!Scope(p) # "none" /\ conf.bad[p] # "args"
  BY <1>2, <1>5, <1>10
<1>12. <<conf, result>>' = <<conf, result>>
  BY <1>4
<1>13. charged' = charged \cup {p}
  BY <1>3
<1> QED BY <1>9, <1>11, <1>12, <1>13, Zenon DEF Ideal!Charge

\* What party 0 publishes is noise around what is true.
LEMMA ReleasePublishes ==
  ASSUME Inv, Promised(conf), NEW cardNoise \in conf.noise, NEW aggNoise \in conf.noise, Release(cardNoise, aggNoise)
  PROVE Ideal!Publish(cardNoise, aggNoise)
<1>0. Standing /\ Counting /\ Typed(conf) /\ NoAccident(conf) /\ conf.bad[0] # "values"
  BY FirstAt DEF Inv, Promised
<1>1. pc[0] = "release"
  BY DEF Release, At
<1>2. phase[0] = 2 /\ Ideal!Agreed /\ Ideal!Possible
  BY <1>0, <1>1, AllAgreed
<1>3. result = NoResult
  BY <1>0, <1>1 DEF Counting
<1>4. card = Ideal!Cardinality(Ideal!Common) /\ card \in Nat
  <2>1. card = Cardinality(HitsOf(conf, "PSI"))
    BY <1>0, <1>2 DEF Counting
  <2>2. "PSI" \in {"PSI", "PSICS1"}
    OBVIOUS
  <2>3. Cardinality(HitsOf(conf, "PSI")) = Cardinality(CommonIds(conf)) /\ IsFiniteSet(CommonIds(conf))
    BY <1>0, <2>2, CountIs
  <2>4. Cardinality(CommonIds(conf)) \in Nat
    BY <2>3, FS_CardinalityType
  <2>5. Ideal!Cardinality(Ideal!Common) = Cardinality(CommonIds(conf))
    BY Names, IdealCount
  <2> QED BY <2>1, <2>3, <2>4, <2>5
<1>5. NoisyCount(cardNoise) = Ideal!Max({0, Ideal!Cardinality(Ideal!Common) + cardNoise})
  <2>1. cardNoise \in Int
    BY <1>0 DEF Typed
  <2>2. card + cardNoise \in Int
    BY <1>4, <2>1
  <2>3. Ideal!Max({0, card + cardNoise}) = IF card + cardNoise < 0 THEN 0 ELSE card + cardNoise
    BY <2>2, MaxIs
  <2> QED BY <1>4, <2>3 DEF NoisyCount
<1>6. agg \div (N - 1) = Ideal!Sum
  <2>1. agg = AggOf(conf)
    BY <1>0, <1>1, <1>2 DEF Counting
  <2>2. AggOf(conf) = ValueSums(conf.value, CommonIds(conf), Sender) % Modulus
    BY <1>0, SumIs
  <2> QED BY <2>1, <2>2, MeanIs
<1> DEFINE count == Ideal!Max({0, Ideal!Cardinality(Ideal!Common) + cardNoise})
<1>7. \E noised \in Ideal!Clamped(Ideal!Sum + aggNoise) :
        result' = [released |-> count >= conf.kAnon, noisyCardinality |-> count,
                   noisyAggregate |-> IF count >= conf.kAnon THEN noised ELSE 0,
                   trueCardinality |-> Ideal!Cardinality(Ideal!Common), trueAggregate |-> Ideal!Sum]
  <2>1. PICK noised \in Clamped((agg \div (N - 1)) + aggNoise) :
          result' = [released |-> NoisyCount(cardNoise) >= conf.kAnon, noisyCardinality |-> NoisyCount(cardNoise),
                     noisyAggregate |-> IF NoisyCount(cardNoise) >= conf.kAnon THEN noised ELSE 0,
                     trueCardinality |-> card, trueAggregate |-> agg \div (N - 1)]
    BY Zenon DEF Release
  <2>2. NoisyCount(cardNoise) = count
    BY <1>5
  <2>3. \A x : Ideal!Clamped(x) = Clamped(x)
    BY DEF Ideal!Clamped, Ideal!SignedMin, Ideal!SignedMax, Clamped, SignedMin, SignedMax
  <2>4. noised \in Ideal!Clamped(Ideal!Sum + aggNoise)
    BY <1>6, <2>1, <2>3
  <2> HIDE DEF count
  <2> QED BY <1>4, <1>6, <2>1, <2>2, <2>4, Zenon
<1>8. <<conf, charged>>' = <<conf, charged>>
  BY DEF Release, history
<1>9. result = NoResult /\ Ideal!Agreed /\ Ideal!Possible
  BY <1>2, <1>3
<1> QED BY <1>7, <1>8, <1>9, Zenon DEF Ideal!Publish

published == <<conf, charged, result>>

\* Every step of the session is one of the ideal's, or none.
LEMMA IdealStep == Inv /\ Promised(conf) /\ [Next]_vars => [Ideal!Next]_published
<1> SUFFICES ASSUME Inv, Promised(conf), [Next]_vars PROVE Ideal!Next \/ UNCHANGED published
  OBVIOUS
<1>1. CASE UNCHANGED vars
  BY <1>1 DEF vars, published
<1>2. CASE Next
  <2>1. PICK p \in Party : Step(p)
    BY <1>2 DEF Next
  <2>2. CASE BadArguments(p) \/ Refused(p)
    BY <2>2 DEF BadArguments, Refused, found, published
  <2>3. CASE Enter(p)
    <3>1. CASE Scope(p) = None
      BY <2>3, <3>1 DEF Enter, found, published
    <3>2. CASE Scope(p) # None
      <4>1. Ideal!Charge(p) /\ p \in Ideal!Party
        BY <2>3, <3>2, EnterCharges, Names
      <4> QED BY <4>1, Zenon DEF Ideal!Next
    <3> QED BY <3>1, <3>2
  <2>4. CASE \E q \in Party : Meet(p, q) \/ Meet(q, p)
    <3>1. conf' = conf /\ charged' = charged /\ result' = result
      BY <2>4 DEF Meet, history, found
    <3> QED BY <3>1 DEF published
  <2>5. CASE p = 0 /\ (\E q \in Sender : AskSender(q) \/ TakeFunction(q))
    <3>1. conf' = conf /\ charged' = charged /\ result' = result
      BY <2>5 DEF AskSender, TakeFunction, history
    <3> QED BY <3>1 DEF published
  <2>6. CASE p = 0 /\ (AddMasked \/ ShuffleFirst \/ Reconstruct \/ TakeSums)
    <3>1. conf' = conf /\ charged' = charged /\ result' = result
      BY <2>6 DEF AddMasked, ShuffleFirst, Reconstruct, TakeSums, history, found
    <3> QED BY <3>1 DEF published
  <2>7. CASE p = 0 /\ \E cardNoise, aggNoise \in conf.noise : Release(cardNoise, aggNoise)
    <3>1. PICK cardNoise \in conf.noise, aggNoise \in conf.noise : Release(cardNoise, aggNoise)
      BY <2>7
    <3>2. Ideal!Publish(cardNoise, aggNoise)
      BY <3>1, ReleasePublishes
    <3> QED BY <3>2, Zenon DEF Ideal!Next
  <2>8. CASE p # 0 /\ \E kind \in {"PSI", "PSICS1", "PSICS2"} : AnswerLabels(p, kind)
    <3>1. conf' = conf /\ charged' = charged /\ result' = result
      BY <2>8 DEF AnswerLabels, history, found
    <3> QED BY <3>1 DEF published
  <2>9. CASE p # 0 /\ (SendMasked(p) \/ TakeProduct(p) \/ ShuffleIn(p) \/ ShuffleOn(p) \/ Reveal(p) \/ SumUp(p))
    <3>1. conf' = conf /\ charged' = charged /\ result' = result
      BY <2>9 DEF SendMasked, TakeProduct, ShuffleIn, ShuffleOn, Reveal, SumUp, history, found
    <3> QED BY <3>1 DEF published
  <2> QED BY <2>1, <2>2, <2>3, <2>4, <2>5, <2>6, <2>7, <2>8, <2>9, Zenon DEF Step
<1> QED BY <1>1, <1>2

\* A session of which no random word makes a bin seem common, and whose party 0 passes no
\* values of a wrong number, does what the ideal promises, in every order of its parties'
\* steps: party 0 returns the noised count of the ids all sets hold and, from the threshold
\* on, the noised sum of the senders' values of them, and the true ones with them, once
\* everyone with a budget has paid from it.
THEOREM Refines ==
  ASSUME \A c \in Confs : Promised(c)
  PROVE Spec => Implements
<1>1. Init => Ideal!Init
  BY DEF Init, Ideal!Init
<1>2. Inv => Promised(conf)
  BY DEF Inv, Standing
<1>3. Inv /\ [Next]_vars => [Ideal!Next]_published
  BY <1>2, IdealStep
<1>4. Spec => []Inv
  BY Invariant
<1>5. Inv /\ [Next]_vars => [Ideal!Next]_<<conf, charged, result>>
  BY <1>3 DEF published
<1> QED BY <1>1, <1>4, <1>5, PTL DEF Spec, Implements, Ideal!Spec
===============================================================================
