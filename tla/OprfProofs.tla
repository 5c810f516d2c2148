----------------------------- MODULE OprfProofs -----------------------------
(* Proofs about Oprf: for every prime order, set of clients and ids, cap and
   bound, the session implements IdealOprf. *)
EXTENDS Oprf, FiniteSetTheorems, TLAPS

Key == IF done THEN s1.Y ELSE 0
Asking == at \in {"U", "V1", "askV2", "V2"}

\* The message in flight has as many fields as its receiver reads.
Shaped ==
  /\ wire \in [points : Seq(Point), proofs : Seq(Seq(Point))]
  /\ at # "idle" => Len(wire.points) = IF at = "final" THEN 2 ELSE 1
  /\ at \in {"commit", "hop1", "V1", "V2"} => Len(wire.proofs) = 1
  /\ at = "final" => Len(wire.proofs) = 2

\* A proof in flight is the one its sender made, or altered into none.
Proves(i, pi) == wire.proofs[i] \in {Broken, pi}
Evaluated(s, Y) == \E P \in Point : Proves(1, DleqProof(Y, P, Mult(s.k, P)))

\* The key is made once; S2 stores what it proves about S1's element as it arrived.
Making ==
  /\ at \in {"commit", "hop1", "final"} => ~done
  /\ done => s1.Y # 0
  /\ at = "final" =>
       /\ s2.k = prep /\ s2.Y2 = prep /\ s2.Y = Mult(prep, s2.Y1)
       /\ Proves(1, SchnorrProof(prep)) /\ Proves(2, DleqProof(prep, s2.Y1, s2.Y))

\* A query goes on from what the client asked, and from what it verified of S1.
Querying ==
  /\ Asking => /\ done /\ query.client \in Client /\ query.id \in Id /\ query.r \in Scalar
               /\ query.U = Mult(query.r, query.id)
  /\ at = "V1" => Evaluated(s1, s1.Y1)
  /\ at \in {"askV2", "V2"} => query.V1 = Mult(s1.k, query.U)
  /\ at = "V2" => Evaluated(s2, s2.Y2)

Row == [id : Id, key : Point]

\* A query that may still be answered was metered and not answered yet.
Metered == \A c \in Client :
  /\ rows[c] \in Seq(Row)
  /\ Len(rows[c]) <= asked[c]
  /\ Asking /\ query.client = c => Len(rows[c]) < asked[c]

QueryType == query \in [client : Client \cup {0}, id : Id \cup {0}, r : Point, U : Point, V1 : Point]

IInv == TypeOK /\ QueryType /\ Shaped /\ Making /\ Querying /\ Metered /\ ServersAgree
-----------------------------------------------------------------------------
(* The group: products of exponents modulo its order. *)

LEMMA Order == Q \in Int /\ Q > 1 /\ 0 \in Point /\ Scalar \subseteq Point /\ Point \subseteq Nat /\ Id \subseteq Scalar
<1>1. Q \in Int /\ Q > 1
  BY ConstantsAssumption
<1>2. Id \subseteq Scalar
  BY ConstantsAssumption DEF Scalar
<1> QED BY <1>1, <1>2 DEF Point, Scalar

LEMMA Quotient ==
  ASSUME NEW a \in Int, NEW q \in Int, q > 0
  PROVE a \div q \in Int /\ a % q \in 0..(q-1) /\ a % q = a - q * (a \div q)
  OBVIOUS

LEMMA Remainder ==
  ASSUME NEW q \in Int, q > 0, NEW m \in Int, NEW n \in 0..(q-1)
  PROVE (q * m + n) % q = n
  OBVIOUS

LEMMA Shift ==
  ASSUME NEW q \in Int, q > 0, NEW m \in Int, NEW n \in Int
  PROVE (q * m + n) % q = n % q
<1> DEFINE d == n \div q
           e == n % q
<1>1. d \in Int /\ e \in 0..(q-1) /\ e = n - q * d
  BY Quotient
<1> HIDE DEF d, e
<1>2. q * m + n = q * (m + d) + e
  BY <1>1
<1>3. (q * (m + d) + e) % q = e
  BY <1>1, m + d \in Int, Remainder
<1> QED BY <1>2, <1>3 DEF e

LEMMA MultPoint == ASSUME NEW x \in Nat, NEW y \in Nat PROVE Mult(x, y) \in Point
  BY Quotient, x * y \in Int, Order DEF Mult, Point

LEMMA MultCommutes == ASSUME NEW x \in Nat, NEW y \in Nat PROVE Mult(x, y) = Mult(y, x)
  BY DEF Mult

LEMMA Reduced ==
  ASSUME NEW q \in Int, q > 0, NEW x \in Int, NEW y \in Int
  PROVE (x * (y % q)) % q = (x * y) % q
<1> DEFINE d == y \div q
           e == y % q
<1>1. d \in Int /\ e \in Int /\ e = y - q * d
  BY Quotient
<1> HIDE DEF d, e
<1>2. x * y = q * (x * d) + x * e
  BY <1>1
<1>3. x * d \in Int /\ x * e \in Int
  BY <1>1
<1>4. (q * (x * d) + x * e) % q = (x * e) % q
  BY <1>3, Shift
<1> QED BY <1>2, <1>4 DEF e

LEMMA MultReduces == ASSUME NEW x \in Nat, NEW y \in Nat PROVE Mult(x, y % Q) = Mult(x, y)
<1>1. Q \in Int /\ Q > 0
  BY Order
<1>2. x \in Int /\ y \in Int
  OBVIOUS
<1>3. (x * (y % Q)) % Q = (x * y) % Q
  BY <1>1, <1>2, Reduced, Zenon
<1> QED BY <1>3 DEF Mult

LEMMA MultAssociates ==
  ASSUME NEW x \in Nat, NEW y \in Nat, NEW z \in Nat
  PROVE Mult(x, Mult(y, z)) = Mult(Mult(x, y), z)
<1>1. Mult(x, Mult(y, z)) = (x * (y * z)) % Q
  BY MultReduces, y * z \in Nat DEF Mult
<1>2. Mult(z, Mult(x, y)) = (z * (x * y)) % Q
  BY MultReduces, x * y \in Nat DEF Mult
<1>3. x * (y * z) = z * (x * y)
  OBVIOUS
<1>4. Mult(x, y) \in Nat
  BY MultPoint, Order
<1> QED BY <1>1, <1>2, <1>3, <1>4, MultCommutes

LEMMA InvertRight == ASSUME NEW r \in Scalar PROVE Invert(r) \in Scalar /\ Mult(Invert(r), r) = 1
<1>1. \E y \in Scalar : (r * y) % Q = 1
  BY ConstantsAssumption DEF Scalar
<1>2. Invert(r) \in Scalar /\ (r * Invert(r)) % Q = 1
  BY <1>1 DEF Invert
<1> QED BY <1>2, MultCommutes, Order DEF Mult

LEMMA MultOne == ASSUME NEW x \in Point PROVE Mult(1, x) = x
<1>1. 1 * x = Q * 0 + x
  BY Order
<1> QED BY <1>1, Remainder, Order DEF Mult, Point

\* What the client unblinds is the key's function of its id, whatever the blind.
LEMMA Unblinded ==
  ASSUME NEW r \in Scalar, NEW id \in Id, NEW a \in Point, NEW b \in Point
  PROVE Mult(Invert(r), Mult(b, Mult(a, Mult(r, id)))) = Mult(Mult(a, b), id)
<1> DEFINE i == Invert(r)
           k == Mult(b, a)
           u == Mult(r, id)
<1>1. a \in Nat /\ b \in Nat /\ r \in Nat /\ id \in Nat /\ id \in Point
  BY Order
<1>2. i \in Nat /\ k \in Nat /\ u \in Nat
  BY <1>1, InvertRight, MultPoint, Order
<1>3. Mult(b, Mult(a, u)) = Mult(k, u)
  BY <1>1, <1>2, MultAssociates
<1>4. Mult(i, u) = id
  <2>1. Mult(i, u) = Mult(Mult(i, r), id)
    BY <1>1, <1>2, MultAssociates
  <2> QED BY <2>1, <1>1, InvertRight, MultOne
<1>5. k = Mult(a, b)
  BY <1>1, MultCommutes
<1> HIDE DEF i, k, u
<1>6. Mult(i, Mult(k, u)) = Mult(Mult(k, i), u)
  BY <1>2, MultAssociates, MultCommutes
<1>7. Mult(Mult(k, i), u) = Mult(k, Mult(i, u))
  BY <1>2, MultAssociates
<1> QED BY <1>3, <1>4, <1>5, <1>6, <1>7 DEF i, u
-----------------------------------------------------------------------------
(* The invariant. *)

LEMMA InitInv == Init => IInv
<1> SUFFICES ASSUME Init PROVE IInv
  OBVIOUS
<1>1. TypeOK
  <2>1. 0 \in 0..MaxQueries /\ 0 \in 0..MaxDkg /\ 0 \in 0..MaxFaults
    BY ConstantsAssumption
  <2>2. NoState \in [k : Point, Y1 : Point, Y2 : Point, Y : Point]
    BY Order DEF NoState
  <2>3. \A i \in DOMAIN Nothing.points : Nothing.points[i] \in Point
    BY DEF Nothing, Message
  <2>4. asked \in [Client -> 0..MaxQueries] /\ transcript \in [Event -> Nat]
    BY <2>1 DEF Init
  <2>5. \A c \in Client : \A i \in DOMAIN rows[c] : rows[c][i] \in [id : Id, key : Point]
    BY DEF Init
  <2> QED BY <2>1, <2>2, <2>3, <2>4, <2>5, Order DEF Init, TypeOK
<1>2. QueryType
  BY Order DEF Init, QueryType, NoQuery
<1>3. Shaped
  BY DEF Init, Shaped, Nothing, Message
<1>4. Making /\ Querying /\ ServersAgree
  BY DEF Init, Making, Querying, Asking, ServersAgree
<1>5. Metered
  BY DEF Init, Metered, Asking
<1> QED BY <1>1, <1>2, <1>3, <1>4, <1>5 DEF IInv

LEMMA LogType ==
  ASSUME transcript \in [Event -> Nat], NEW e \in Event, Log(e)
  PROVE transcript' \in [Event -> Nat]
  BY DEF Log

\* S1 and S2 make the key.
LEMMA PrepareInv == IInv /\ Prepare => IInv'
<1> SUFFICES ASSUME IInv, Prepare PROVE IInv'
  OBVIOUS
<1> USE DEF IInv, Prepare
<1>1. /\ prep' \in Point /\ at' = "commit" /\ wire'.points = <<prep'>> /\ wire'.proofs = <<<<prep'>>>>
      /\ wire' \in [points : Seq(Point), proofs : Seq(Seq(Point))]
  BY Order DEF Deliver, SchnorrProof, Message
<1>2. Shaped'
  BY <1>1 DEF Shaped
<1>3. TypeOK'
  <2>1. transcript' \in [Event -> Nat]
    BY LogType DEF TypeOK, Event
  <2>2. runs' \in 0..MaxDkg
    BY ConstantsAssumption DEF TypeOK
  <2> QED BY <1>1, <2>1, <2>2 DEF TypeOK, meter
<1>4. QueryType' /\ Making' /\ Querying' /\ ServersAgree'
  BY <1>1 DEF QueryType, Making, Querying, Asking, ServersAgree
<1>5. Metered'
  BY <1>1 DEF Metered, Asking, meter
<1> QED BY <1>2, <1>3, <1>4, <1>5

LEMMA SendHop1Inv == IInv /\ SendHop1 => IInv'
<1> SUFFICES ASSUME IInv, SendHop1 PROVE IInv'
  OBVIOUS
<1> USE DEF IInv, SendHop1
<1>1. /\ k1' \in Point /\ at' = "hop1" /\ wire'.points = <<k1'>> /\ wire'.proofs = <<<<k1'>>>>
      /\ wire' \in [points : Seq(Point), proofs : Seq(Seq(Point))]
  BY Order DEF Deliver, SchnorrProof, Message
<1>2. Shaped'
  BY <1>1 DEF Shaped
<1>3. TypeOK'
  <2>1. transcript' \in [Event -> Nat]
    BY LogType DEF TypeOK, Event
  <2> QED BY <1>1, <2>1 DEF TypeOK, meter
<1>4. QueryType' /\ Making' /\ Querying' /\ ServersAgree'
  BY <1>1 DEF QueryType, Making, Querying, Asking, ServersAgree
<1>5. Metered'
  BY <1>1 DEF Metered, Asking, meter
<1> QED BY <1>2, <1>3, <1>4, <1>5

LEMMA FinalizeS2Inv == IInv /\ FinalizeS2 => IInv'
<1> SUFFICES ASSUME IInv, FinalizeS2 PROVE IInv'
  OBVIOUS
<1> DEFINE Y1 == wire.points[1]
           Y == Mult(prep, Y1)
<1> USE DEF IInv
<1>1. Y1 \in Point /\ prep \in Point /\ at = "hop1"
  BY DEF FinalizeS2, Shaped, TypeOK
<1>2. Y \in Point
  BY <1>1, MultPoint, Order
<1>3. s2' = [k |-> prep, Y1 |-> Y1, Y2 |-> prep, Y |-> Y]
  BY DEF FinalizeS2
<1>4. at' = "final" /\ wire'.points = <<prep, Y>> /\ wire'.proofs = <<<<prep>>, <<prep, Y1, Y>>>>
  BY DEF FinalizeS2, Deliver, Message, SchnorrProof, DleqProof
<1>5. Log("dkg_hop2") /\ UNCHANGED <<prep, commit, k1, s1, done, runs, query, asked, rows, faults>>
  BY DEF FinalizeS2, meter
<1>6. wire' = [points |-> wire'.points, proofs |-> wire'.proofs]
  BY DEF FinalizeS2, Deliver, Message
<1> HIDE DEF Y, Y1
<1>7. Shaped'
  <2>1. wire'.points \in Seq(Point) /\ Len(wire'.points) = 2
    BY <1>1, <1>2, <1>4
  <2>2. wire'.proofs \in Seq(Seq(Point)) /\ Len(wire'.proofs) = 2
    BY <1>1, <1>2, <1>4
  <2>3. wire' \in [points : Seq(Point), proofs : Seq(Seq(Point))]
    BY <2>1, <2>2, <1>6
  <2> QED BY <1>4, <2>1, <2>2, <2>3 DEF Shaped
<1>8. TypeOK'
  <2>1. transcript' \in [Event -> Nat]
    BY <1>5, LogType DEF TypeOK, Event
  <2>2. \A i \in DOMAIN wire'.points : wire'.points[i] \in Point
    BY <1>1, <1>2, <1>4
  <2>3. s2' \in [k : Point, Y1 : Point, Y2 : Point, Y : Point]
    BY <1>1, <1>2, <1>3
  <2> QED BY <1>4, <1>5, <2>1, <2>2, <2>3 DEF TypeOK
<1>9. Making'
  <2>1. ~done'
    BY <1>1, <1>5 DEF Making
  <2>2. s2'.k = prep' /\ s2'.Y2 = prep' /\ s2'.Y1 = Y1 /\ s2'.Y = Y /\ Y = Mult(prep', Y1)
    BY <1>3, <1>5 DEF Y
  <2> QED BY <1>4, <1>5, <2>1, <2>2 DEF Making, Proves, SchnorrProof, DleqProof
<1>10. QueryType' /\ Querying' /\ ServersAgree'
  BY <1>1, <1>4, <1>5 DEF QueryType, Making, Querying, Asking, ServersAgree
<1>11. Metered'
  BY <1>4, <1>5 DEF Metered, Asking
<1> QED BY <1>7, <1>8, <1>9, <1>10, <1>11

\* What S1 accepts is what S2 made of S1's own element.
LEMMA AcceptedIsShared ==
  ASSUME IInv, at = "final", FinalAccepted
  PROVE /\ wire.points[1] = s2.Y2 /\ k1 = s2.Y1 /\ wire.points[2] = s2.Y
        /\ s2.k = s2.Y2 /\ s2.Y = Mult(k1, s2.k) /\ s2.Y # 0 /\ ~done
<1> DEFINE Y2 == wire.points[1]
           Y == wire.points[2]
           p1 == wire.proofs[1]
           p2 == wire.proofs[2]
<1>1. /\ ~done /\ s2.k = prep /\ s2.Y2 = prep /\ s2.Y = Mult(prep, s2.Y1)
      /\ p1 \in {<<>>, <<prep>>} /\ p2 \in {<<>>, <<prep, s2.Y1, s2.Y>>}
  BY DEF IInv, Making, Proves, Broken, SchnorrProof, DleqProof
<1>2. p1 = <<Y2>> /\ p2 = <<Y2, k1, Y>> /\ Y # 0
  BY DEF FinalAccepted, SchnorrVerify, DleqVerify, SchnorrProof, DleqProof
<1> HIDE DEF Y2, Y, p1, p2
<1>3. Y2 = prep /\ k1 = s2.Y1 /\ Y = s2.Y
  BY <1>1, <1>2
<1>4. Mult(prep, k1) = Mult(k1, prep)
  BY MultCommutes, Order DEF IInv, TypeOK
<1> QED BY <1>1, <1>2, <1>3, <1>4 DEF Y2, Y

LEMMA FinalizeS1Inv == IInv /\ FinalizeS1 => IInv'
<1> SUFFICES ASSUME IInv, FinalizeS1 PROVE IInv'
  OBVIOUS
<1> USE DEF IInv
<1>1. /\ at = "final" /\ at' = "idle" /\ done' = TRUE /\ wire' = Nothing
      /\ s1' = [k |-> k1, Y1 |-> k1, Y2 |-> wire.points[1], Y |-> wire.points[2]]
      /\ UNCHANGED <<prep, commit, k1, s2, runs, query, asked, rows, transcript, faults>>
  BY DEF FinalizeS1, Return, meter
<1>2. /\ wire.points[1] = s2.Y2 /\ k1 = s2.Y1 /\ wire.points[2] = s2.Y
      /\ s2.k = s2.Y2 /\ s2.Y = Mult(k1, s2.k) /\ s2.Y # 0
  BY AcceptedIsShared DEF FinalizeS1
<1>3. Nothing \in [points : Seq(Point), proofs : Seq(Seq(Point))] /\ Nothing.points = <<>>
  BY DEF Nothing, Message
<1>4. TypeOK'
  <2>1. s1' \in [k : Point, Y1 : Point, Y2 : Point, Y : Point]
    BY <1>1, <1>2 DEF TypeOK
  <2> QED BY <1>1, <1>3, <2>1 DEF TypeOK
<1>5. Shaped' /\ QueryType' /\ Making' /\ Querying' /\ Metered'
  BY <1>1, <1>2, <1>3 DEF Shaped, QueryType, Making, Querying, Metered, Asking
<1>6. ServersAgree'
  <2>1. s2 = [k |-> s2.k, Y1 |-> s2.Y1, Y2 |-> s2.Y2, Y |-> s2.Y]
    BY DEF TypeOK
  <2>2. s1' = [k |-> k1, Y1 |-> s2.Y1, Y2 |-> s2.Y2, Y |-> s2.Y]
    BY <1>1, <1>2
  <2>3. [s1' EXCEPT !.k = 0] = [s2 EXCEPT !.k = 0]
    BY <2>1, <2>2
  <2>4. s1'.k = k1 /\ s1'.Y1 = k1 /\ s1'.Y = s2.Y
    BY <1>1, <1>2
  <2>5. s1'.Y = Mult(s1'.k, s2.k)
    BY <1>2, <2>4
  <2> QED BY <1>1, <1>2, <2>3, <2>4, <2>5 DEF ServersAgree
<1> QED BY <1>4, <1>5, <1>6

\* A call that throws leaves the keys and the meters as they are.
LEMMA ThrowInv == ASSUME IInv, NEW here, NEW bad, ThrowWhen(here, bad) PROVE IInv'
<1> USE DEF IInv
<1>1. /\ at' = "idle" /\ wire' = Nothing /\ query' = NoQuery
      /\ UNCHANGED <<prep, commit, k1, s1, s2, done, runs, asked, rows, transcript, faults>>
  BY DEF ThrowWhen, Return, dkg, meter
<1>2. Nothing \in [points : Seq(Point), proofs : Seq(Seq(Point))] /\ Nothing.points = <<>>
  BY DEF Nothing, Message
<1>3. TypeOK'
  BY <1>1, <1>2 DEF TypeOK
<1>4. QueryType'
  BY <1>1, Order DEF QueryType, NoQuery
<1>5. Shaped' /\ Making' /\ Querying' /\ Metered' /\ ServersAgree'
  BY <1>1, <1>2 DEF Shaped, Making, Querying, Metered, Asking, ServersAgree
<1> QED BY <1>3, <1>4, <1>5

LEMMA MeteredAt ==
  ASSUME Metered, NEW d \in Client
  PROVE rows[d] \in Seq(Row) /\ Len(rows[d]) <= asked[d] /\ Len(rows[d]) \in Nat
<1>1. rows[d] \in Seq(Row) /\ Len(rows[d]) <= asked[d]
  BY Zenon DEF Metered
<1> QED BY <1>1

LEMMA Elements == ASSUME NEW S, NEW s \in Seq(S), NEW i \in DOMAIN s PROVE s[i] \in S
  OBVIOUS

\* A query is metered when it is made.
LEMMA DeriveInv == ASSUME IInv, NEW c \in Client, NEW id \in Id, Derive(c, id) PROVE IInv'
<1> USE DEF IInv
<1>1. PICK r \in Scalar : /\ query' = [client |-> c, id |-> id, r |-> r, U |-> Mult(r, id), V1 |-> 0]
                         /\ Deliver("U", <<Mult(r, id)>>, <<>>)
  BY DEF Derive
<1>2. /\ done /\ at = "idle" /\ asked[c] < MaxQueries /\ asked' = [asked EXCEPT ![c] = @ + 1]
      /\ UNCHANGED <<prep, commit, k1, s1, s2, done, runs, rows, transcript, faults>>
  BY DEF Derive, dkg
<1>3. Mult(r, id) \in Point
  BY MultPoint, Order
<1>4. /\ at' = "U" /\ wire' \in [points : Seq(Point), proofs : Seq(Seq(Point))]
      /\ wire'.points = <<Mult(r, id)>>
  BY <1>1, <1>3 DEF Deliver, Message
<1>5. asked' \in [Client -> 0..MaxQueries] /\ \A d \in Client : asked'[d] >= asked[d]
  BY <1>2, ConstantsAssumption DEF TypeOK
<1>6. TypeOK'
  BY <1>2, <1>3, <1>4, <1>5 DEF TypeOK
<1>7. QueryType'
  BY <1>1, <1>3, Order DEF QueryType
<1>8. Shaped'
  BY <1>4 DEF Shaped
<1>9. Querying'
  BY <1>1, <1>2, <1>4 DEF Querying, Asking
<1>10. Metered'
  <2> SUFFICES ASSUME NEW d \in Client
               PROVE /\ rows[d] \in Seq(Row) /\ Len(rows[d]) <= asked'[d]
                     /\ query'.client = d => Len(rows[d]) < asked'[d]
    BY <1>2 DEF Metered
  <2>1. rows[d] \in Seq(Row) /\ Len(rows[d]) <= asked[d] /\ Len(rows[d]) \in Nat
    BY MeteredAt
  <2>2. asked[d] \in Int /\ asked'[d] \in Int
    BY <1>5 DEF TypeOK
  <2>3. query'.client = d => asked'[d] = asked[d] + 1
    BY <1>1, <1>2 DEF TypeOK
  <2> QED BY <1>5, <2>1, <2>2, <2>3
<1>11. Making' /\ ServersAgree'
  BY <1>2, <1>4 DEF Making, ServersAgree
<1> QED BY <1>6, <1>7, <1>8, <1>9, <1>10, <1>11

\* A server evaluates whatever point it is given, and proves it.
LEMMA HopInv ==
  ASSUME IInv, NEW here, NEW there, NEW s, NEW Y, NEW event \in Event,
         ServerHop(here, there, s, Y, event), s.k \in Point, Y \in Point,
         \/ here = "U" /\ there = "V1" /\ s = s1 /\ Y = s1.Y1
         \/ here = "askV2" /\ there = "V2" /\ s = s2 /\ Y = s2.Y2
  PROVE IInv'
<1> DEFINE P == wire.points[1]
<1> USE DEF IInv
<1>1. at = here /\ Asking /\ P \in Point /\ done
  BY DEF ServerHop, Shaped, TypeOK, Querying, Asking
<1>2. Mult(s.k, P) \in Point
  BY <1>1, MultPoint, Order
<1>3. /\ at' = there /\ wire' = Message(<<Mult(s.k, P)>>, <<<<Y, P, Mult(s.k, P)>>>>)
      /\ UNCHANGED <<prep, commit, k1, s1, s2, done, runs, query, asked, rows, faults>>
  BY DEF ServerHop, Deliver, DleqProof, dkg, meter
<1>4. /\ wire'.points = <<Mult(s.k, P)>> /\ wire'.proofs = <<<<Y, P, Mult(s.k, P)>>>>
      /\ wire' \in [points : Seq(Point), proofs : Seq(Seq(Point))]
  BY <1>1, <1>2, <1>3 DEF Message
<1> HIDE DEF P
<1>5. TypeOK'
  <2>1. transcript' \in [Event -> Nat]
    BY LogType DEF ServerHop, TypeOK
  <2> QED BY <1>2, <1>3, <1>4, <2>1 DEF TypeOK
<1>6. QueryType' /\ Shaped' /\ Making' /\ ServersAgree'
  BY <1>1, <1>3, <1>4 DEF QueryType, Shaped, Making, ServersAgree
<1>7. Metered'
  BY <1>1, <1>3 DEF Metered, Asking
<1>8. Querying'
  <2>1. wire'.proofs[1] = <<Y, P, Mult(s.k, P)>>
    BY <1>4
  <2>2. CASE there = "V1" /\ s = s1 /\ Y = s1.Y1
    <3>1. Evaluated(s1, s1.Y1)'
      BY <1>1, <1>3, <2>1, <2>2 DEF Evaluated, Proves, DleqProof
    <3> QED BY <1>1, <1>3, <2>2, <3>1 DEF Querying, Asking
  <2>3. CASE here = "askV2" /\ there = "V2" /\ s = s2 /\ Y = s2.Y2
    <3>1. Evaluated(s2, s2.Y2)'
      BY <1>1, <1>3, <2>1, <2>3 DEF Evaluated, Proves, DleqProof
    <3> QED BY <1>1, <1>3, <2>3, <3>1 DEF Querying, Asking
  <2> QED BY <2>2, <2>3
<1> QED BY <1>5, <1>6, <1>7, <1>8

\* A proof that verifies says what the server's share makes of the point asked about.
LEMMA AcceptedIsEvaluated ==
  ASSUME NEW s, NEW Y, NEW P, Evaluated(s, Y), DleqVerify(Y, P, wire.points[1], wire.proofs[1])
  PROVE wire.points[1] = Mult(s.k, P)
<1>1. PICK R \in Point : wire.proofs[1] \in {<<>>, <<Y, R, Mult(s.k, R)>>}
  BY DEF Evaluated, Proves, DleqProof, Broken
<1>2. wire.proofs[1] = <<Y, P, wire.points[1]>>
  BY DEF DleqVerify, DleqProof
<1>3. R = P /\ wire.points[1] = Mult(s.k, R)
  BY <1>1, <1>2
<1> QED BY <1>3

LEMMA AskHop2Inv == IInv /\ AskHop2 => IInv'
<1> SUFFICES ASSUME IInv, AskHop2 PROVE IInv'
  OBVIOUS
<1> USE DEF IInv
<1>1. /\ at = "V1" /\ at' = "askV2" /\ wire' = Message(wire.points, <<>>)
      /\ query' = [query EXCEPT !.V1 = wire.points[1]]
      /\ UNCHANGED <<prep, commit, k1, s1, s2, done, runs, asked, rows, transcript, faults>>
  BY DEF AskHop2, Deliver, dkg, meter
<1>2. wire.points[1] = Mult(s1.k, query.U)
  BY <1>1, AcceptedIsEvaluated DEF AskHop2, Hop1Accepted, Querying
<1>3. /\ wire'.points = wire.points /\ wire' \in [points : Seq(Point), proofs : Seq(Seq(Point))]
      /\ Len(wire.points) = 1 /\ wire.points[1] \in Point
  BY <1>1 DEF Message, Shaped
<1>4. TypeOK'
  BY <1>1, <1>3 DEF TypeOK
<1>5. QueryType' /\ Shaped' /\ Making' /\ ServersAgree'
  BY <1>1, <1>3 DEF QueryType, Shaped, Making, ServersAgree
<1>6. Querying'
  BY <1>1, <1>2 DEF Querying, Asking, QueryType
<1>7. Metered'
  BY <1>1 DEF Metered, Asking, QueryType
<1> QED BY <1>4, <1>5, <1>6, <1>7

\* The answer, when both servers' proofs were accepted.
LEMMA Answered ==
  ASSUME IInv, at = "V2", Hop2Accepted
  PROVE Mult(Invert(query.r), wire.points[1]) = Mult(s1.Y, query.id)
<1>1. wire.points[1] = Mult(s2.k, query.V1)
  BY AcceptedIsEvaluated DEF IInv, Querying, Hop2Accepted
<1>2. /\ query.V1 = Mult(s1.k, query.U) /\ query.U = Mult(query.r, query.id)
      /\ query.r \in Scalar /\ query.id \in Id /\ s1.Y = Mult(s1.k, s2.k)
  BY DEF IInv, Querying, Asking, ServersAgree
<1>3. s1.k \in Point /\ s2.k \in Point
  BY DEF IInv, TypeOK
<1> QED BY <1>1, <1>2, <1>3, Unblinded

LEMMA UnblindInv == IInv /\ Unblind => IInv'
<1> SUFFICES ASSUME IInv, Unblind PROVE IInv'
  OBVIOUS
<1> DEFINE c == query.client
           row == [id |-> query.id, key |-> Mult(Invert(query.r), wire.points[1])]
<1> USE DEF IInv
<1>1. /\ at = "V2" /\ at' = "idle" /\ wire' = Nothing /\ query' = NoQuery
      /\ rows' = [rows EXCEPT ![c] = Append(rows[c], row)]
      /\ UNCHANGED <<prep, commit, k1, s1, s2, done, runs, asked, transcript, faults>>
  BY DEF Unblind, Return, dkg
<1>2. c \in Client /\ query.id \in Id /\ query.r \in Scalar /\ Asking /\ wire.points[1] \in Point
  BY <1>1 DEF Querying, Asking, Shaped
<1>3. row \in Row
  BY <1>2, InvertRight, MultPoint, Order DEF Row
<1>4. Nothing \in [points : Seq(Point), proofs : Seq(Seq(Point))] /\ Nothing.points = <<>>
  BY DEF Nothing, Message
<1> HIDE DEF c, row
<1>5. Metered'
  <2> SUFFICES ASSUME NEW d \in Client
               PROVE rows'[d] \in Seq(Row) /\ Len(rows'[d]) <= asked[d]
    BY <1>1 DEF Metered, Asking
  <2>1. rows[d] \in Seq(Row) /\ Len(rows[d]) <= asked[d] /\ asked[d] \in Int
    <3>1. asked[d] \in Int
      BY DEF TypeOK
    <3> QED BY <3>1, MeteredAt, Zenon
  <2>2. CASE d # c \/ d \notin DOMAIN rows
    BY <1>1, <2>1, <2>2
  <2>3. CASE d = c /\ d \in DOMAIN rows
    <3>1. rows'[d] = Append(rows[d], row)
      BY <1>1, <2>3
    <3>2. Len(rows[d]) < asked[d]
      BY <1>2, <2>3 DEF Metered, c
    <3> QED BY <1>3, <2>1, <3>1, <3>2
  <2> QED BY <2>2, <2>3
<1>6. TypeOK'
  <2>1. \A d \in Client : \A i \in DOMAIN rows'[d] : rows'[d][i] \in [id : Id, key : Point]
    <3> SUFFICES ASSUME NEW d \in Client PROVE \A i \in DOMAIN rows'[d] : rows'[d][i] \in [id : Id, key : Point]
      OBVIOUS
    <3>1. rows'[d] \in Seq(Row)
      BY <1>5, Zenon DEF Metered
    <3> QED BY <3>1, Elements, Zenon DEF Row
  <2> QED BY <1>1, <1>4, <2>1 DEF TypeOK
<1>7. QueryType'
  BY <1>1, Order DEF QueryType, NoQuery
<1>8. Shaped' /\ Making' /\ Querying' /\ ServersAgree'
  BY <1>1, <1>4 DEF Shaped, Making, Querying, Asking, ServersAgree
<1> QED BY <1>5, <1>6, <1>7, <1>8

\* An altered field still has its type, and an altered proof proves nothing.
LEMMA AlterInv == IInv /\ Alter => IInv'
<1> SUFFICES ASSUME IInv, Alter PROVE IInv'
  OBVIOUS
<1> USE DEF IInv
<1>1. /\ at # "idle" /\ faults' \in 0..MaxFaults
      /\ UNCHANGED <<at, prep, commit, k1, s1, s2, done, runs, query, asked, rows, transcript>>
  BY ConstantsAssumption DEF Alter, TypeOK, dkg, meter
<1>2. wire.points \in Seq(Point) /\ wire.proofs \in Seq(Seq(Point))
  BY DEF Shaped
<1>3. /\ wire' \in [points : Seq(Point), proofs : Seq(Seq(Point))]
      /\ Len(wire'.points) = Len(wire.points) /\ Len(wire'.proofs) = Len(wire.proofs)
      /\ \A j \in DOMAIN wire.proofs : wire'.proofs[j] \in {wire.proofs[j], Broken}
  <2>1. CASE \E i \in DOMAIN wire.points : \E x \in 0..(Q-1) : wire' = [wire EXCEPT !.points[i] = x]
    <3>1. PICK i \in DOMAIN wire.points, x \in Point : wire' = [wire EXCEPT !.points[i] = x]
      BY <2>1 DEF Point
    <3>2. wire'.points = [wire.points EXCEPT ![i] = x] /\ wire'.proofs = wire.proofs
      BY <3>1 DEF Shaped
    <3>3. wire'.points \in Seq(Point) /\ Len(wire'.points) = Len(wire.points)
      BY <1>2, <3>2
    <3> QED BY <1>2, <3>1, <3>2, <3>3 DEF Shaped
  <2>2. CASE \E i \in DOMAIN wire.proofs : wire' = [wire EXCEPT !.proofs[i] = Broken]
    <3>1. PICK i \in DOMAIN wire.proofs : wire' = [wire EXCEPT !.proofs[i] = Broken]
      BY <2>2
    <3>2. wire'.proofs = [wire.proofs EXCEPT ![i] = Broken] /\ wire'.points = wire.points
      BY <3>1 DEF Shaped
    <3>3. wire'.proofs \in Seq(Seq(Point)) /\ Len(wire'.proofs) = Len(wire.proofs)
      BY <1>2, <3>2 DEF Broken
    <3> QED BY <1>2, <3>1, <3>2, <3>3 DEF Shaped
  <2> QED BY <2>1, <2>2 DEF Alter
<1>4. Shaped'
  BY <1>1, <1>3 DEF Shaped
<1>5. TypeOK'
  <2>1. \A i \in DOMAIN wire'.points : wire'.points[i] \in Point
    BY <1>3, Elements
  <2> QED BY <1>1, <2>1 DEF TypeOK
<1>6. ASSUME NEW j \in DOMAIN wire.proofs, NEW pi, Proves(j, pi) PROVE wire'.proofs[j] \in {Broken, pi}
  BY <1>3, <1>6 DEF Proves
<1>7. Making'
  <2>1. at = "final" => DOMAIN wire.proofs = {1, 2}
    BY <1>2 DEF Shaped
  <2> QED BY <1>1, <1>6, <2>1 DEF Making, Proves
<1>8. Querying'
  <2>1. at \in {"V1", "V2"} => 1 \in DOMAIN wire.proofs
    BY <1>2 DEF Shaped
  <2>2. ASSUME at \in {"V1", "V2"}, NEW s, NEW Y, \E P \in Point : Proves(1, DleqProof(Y, P, Mult(s.k, P)))
        PROVE \E P \in Point : wire'.proofs[1] \in {Broken, DleqProof(Y, P, Mult(s.k, P))}
    BY <1>6, <2>1, <2>2
  <2>3. at = "V1" => Evaluated(s1, s1.Y1)'
    BY <1>1, <2>2 DEF Querying, Evaluated, Proves
  <2>4. at = "V2" => Evaluated(s2, s2.Y2)'
    BY <1>1, <2>2 DEF Querying, Evaluated, Proves
  <2> QED BY <1>1, <2>3, <2>4 DEF Querying, Asking
<1>9. QueryType' /\ Metered' /\ ServersAgree'
  BY <1>1 DEF QueryType, Metered, Asking, ServersAgree
<1> QED BY <1>4, <1>5, <1>7, <1>8, <1>9

LEMMA NextInv == IInv /\ [Next]_vars => IInv'
<1> SUFFICES ASSUME IInv, [Next]_vars PROVE IInv'
  OBVIOUS
<1>1. CASE Prepare \/ SendHop1 \/ FinalizeS2 \/ FinalizeS1 \/ AskHop2 \/ Unblind \/ Alter
  BY <1>1, PrepareInv, SendHop1Inv, FinalizeS2Inv, FinalizeS1Inv, AskHop2Inv, UnblindInv, AlterInv
<1>2. CASE DkgThrows
  BY <1>2, ThrowInv DEF DkgThrows
<1>3. CASE DeriveThrows
  BY <1>3, ThrowInv DEF DeriveThrows
<1>4. CASE Hop1
  <2>1. s1.k \in Point /\ s1.Y1 \in Point /\ "oprf_hop1" \in Event
    BY DEF IInv, TypeOK, Event
  <2> QED BY <1>4, <2>1, HopInv DEF Hop1
<1>5. CASE Hop2
  <2>1. s2.k \in Point /\ s2.Y2 \in Point /\ "oprf_hop2" \in Event
    BY DEF IInv, TypeOK, Event
  <2> QED BY <1>5, <2>1, HopInv DEF Hop2
<1>6. ASSUME NEW c \in Client, NEW id \in Id, Derive(c, id) PROVE IInv'
  BY <1>6, DeriveInv
<1>7. CASE UNCHANGED vars
  BY <1>7 DEF vars, dkg, meter, IInv, TypeOK, QueryType, Shaped, Making, Querying, Metered, ServersAgree,
     Asking, Proves, Evaluated
<1> QED BY <1>1, <1>2, <1>3, <1>4, <1>5, <1>6, <1>7 DEF Next

LEMMA Invariance == Spec => []IInv
<1> QED BY InitInv, NextInv, PTL DEF Spec

\* A session keeps its types, whatever is altered on its way.
THEOREM TypeCorrect == Spec => []TypeOK
<1>1. IInv => TypeOK
  BY DEF IInv
<1> QED BY <1>1, Invariance, PTL

\* When runDkg has returned, S1 and S2 hold shares of the one key whose public
\* values they both keep, whatever calls of it threw before.
THEOREM OneKey == Spec => []ServersAgree
<1>1. IInv => ServersAgree
  BY DEF IInv
<1> QED BY <1>1, Invariance, PTL
-----------------------------------------------------------------------------
(* The servers' work is metered: an evaluation spends a query the cap granted. *)

\* The queries granted so far, the n-th of each client.
Grants == {g \in Client \X (1..Cap) : g[2] <= asked[g[1]]}
Due(stages) == IF at \in stages THEN 1 ELSE 0

\* What a server has evaluated, and will for the query in flight, was granted.
Spending ==
  /\ \A c \in Client : asked[c] <= Cap
  /\ transcript["oprf_hop1"] + Due({"U"}) <= Cardinality(Grants)
  /\ transcript["oprf_hop2"] + Due({"U", "V1", "askV2"}) <= Cardinality(Grants)

LEMMA GrantsBounded ==
  ASSUME Cap > 0
  PROVE IsFiniteSet(Grants) /\ Cardinality(Grants) \in Nat /\ Cardinality(Grants) <= Cap * Cardinality(Client)
<1> DEFINE all == Client \X (1..Cap)
<1>1. IsFiniteSet(Client) /\ Cap \in Nat
  BY ConstantsAssumption
<1>2. IsFiniteSet(1..Cap) /\ Cardinality(1..Cap) = Cap
  BY <1>1, FS_Interval
<1>3. IsFiniteSet(all) /\ Cardinality(all) = Cardinality(Client) * Cap
  BY <1>1, <1>2, FS_Product
<1>4. Grants \in SUBSET all
  BY DEF Grants
<1>5. IsFiniteSet(Grants) /\ Cardinality(Grants) <= Cardinality(all)
  BY <1>3, <1>4, FS_Subset
<1>6. Cardinality(Grants) \in Nat /\ Cardinality(Client) \in Nat
  BY <1>1, <1>5, FS_CardinalityType
<1> QED BY <1>1, <1>3, <1>5, <1>6

\* A step that asks nothing grants nothing, and spends what was in flight.
LEMMA SpendingKept ==
  ASSUME Spending, UNCHANGED asked, transcript["oprf_hop1"] \in Nat, transcript["oprf_hop2"] \in Nat,
         transcript'["oprf_hop1"] + Due({"U"})' <= transcript["oprf_hop1"] + Due({"U"}),
         transcript'["oprf_hop2"] + Due({"U", "V1", "askV2"})' <= transcript["oprf_hop2"] + Due({"U", "V1", "askV2"}),
         transcript'["oprf_hop1"] \in Nat, transcript'["oprf_hop2"] \in Nat, Cap > 0
  PROVE Spending'
<1>1. Grants' = Grants
  BY DEF Grants
<1>2. Cardinality(Grants) \in Nat
  BY GrantsBounded
<1>3. Due({"U"}) \in Nat /\ Due({"U"})' \in Nat /\ Due({"U", "V1", "askV2"}) \in Nat /\ Due({"U", "V1", "askV2"})' \in Nat
  BY DEF Due
<1> QED BY <1>1, <1>2, <1>3 DEF Spending

LEMMA SpendingNext == IInv /\ IInv' /\ (Cap > 0 => Spending) /\ [Next]_vars => (Cap > 0 => Spending)'
<1> SUFFICES ASSUME IInv, IInv', Cap > 0, Spending, [Next]_vars PROVE Spending'
  OBVIOUS
<1>1. /\ transcript \in [Event -> Nat] /\ transcript' \in [Event -> Nat]
      /\ {"oprf_hop1", "oprf_hop2"} \subseteq Event
  BY DEF IInv, TypeOK, Event
<1>2. CASE Prepare \/ SendHop1 \/ FinalizeS2 \/ FinalizeS1
  <2>1. /\ UNCHANGED asked /\ at' \in {"commit", "hop1", "final", "idle"}
        /\ transcript'["oprf_hop1"] = transcript["oprf_hop1"] /\ transcript'["oprf_hop2"] = transcript["oprf_hop2"]
    BY <1>1, <1>2 DEF Prepare, SendHop1, FinalizeS2, FinalizeS1, Deliver, Return, Log, meter
  <2>2. Due({"U"})' = 0 /\ Due({"U", "V1", "askV2"})' = 0 /\ Due({"U"}) >= 0 /\ Due({"U", "V1", "askV2"}) >= 0
        /\ Due({"U"}) \in Nat /\ Due({"U", "V1", "askV2"}) \in Nat
    BY <2>1 DEF Due
  <2> QED BY <1>1, <2>1, <2>2, SpendingKept
<1>3. CASE DkgThrows \/ DeriveThrows \/ Unblind
  <2>1. UNCHANGED <<asked, transcript>> /\ at' = "idle"
    BY <1>3 DEF DkgThrows, DeriveThrows, Unblind, ThrowWhen, Return, meter
  <2>2. Due({"U"})' = 0 /\ Due({"U", "V1", "askV2"})' = 0
        /\ Due({"U"}) \in Nat /\ Due({"U", "V1", "askV2"}) \in Nat
    BY <2>1 DEF Due
  <2> QED BY <1>1, <2>1, <2>2, SpendingKept
<1>4. CASE Hop1
  <2>1. /\ UNCHANGED asked /\ at = "U" /\ at' = "V1"
        /\ transcript' = [transcript EXCEPT !["oprf_hop1"] = @ + 1]
    BY <1>4 DEF Hop1, ServerHop, Deliver, Log, meter
  <2>2. /\ transcript'["oprf_hop1"] = transcript["oprf_hop1"] + 1
        /\ transcript'["oprf_hop2"] = transcript["oprf_hop2"]
    BY <1>1, <2>1
  <2>3. Due({"U"})' = 0 /\ Due({"U"}) = 1 /\ Due({"U", "V1", "askV2"})' = 1 /\ Due({"U", "V1", "askV2"}) = 1
    BY <2>1 DEF Due
  <2> QED BY <1>1, <2>1, <2>2, <2>3, SpendingKept
<1>5. CASE Hop2
  <2>1. /\ UNCHANGED asked /\ at = "askV2" /\ at' = "V2"
        /\ transcript' = [transcript EXCEPT !["oprf_hop2"] = @ + 1]
    BY <1>5 DEF Hop2, ServerHop, Deliver, Log, meter
  <2>2. /\ transcript'["oprf_hop2"] = transcript["oprf_hop2"] + 1
        /\ transcript'["oprf_hop1"] = transcript["oprf_hop1"]
    BY <1>1, <2>1
  <2>3. Due({"U"})' = 0 /\ Due({"U"}) = 0 /\ Due({"U", "V1", "askV2"})' = 0 /\ Due({"U", "V1", "askV2"}) = 1
    BY <2>1 DEF Due
  <2> QED BY <1>1, <2>1, <2>2, <2>3, SpendingKept
<1>6. CASE AskHop2
  <2>1. UNCHANGED <<asked, transcript>> /\ at = "V1" /\ at' = "askV2"
    BY <1>6 DEF AskHop2, Deliver, meter
  <2>2. Due({"U"})' = 0 /\ Due({"U"}) = 0 /\ Due({"U", "V1", "askV2"})' = 1 /\ Due({"U", "V1", "askV2"}) = 1
    BY <2>1 DEF Due
  <2> QED BY <1>1, <2>1, <2>2, SpendingKept
<1>7. CASE Alter \/ UNCHANGED vars
  <2>1. UNCHANGED <<asked, transcript, at>>
    BY <1>7 DEF Alter, meter, vars
  <2>2. /\ Due({"U"})' = Due({"U"}) /\ Due({"U", "V1", "askV2"})' = Due({"U", "V1", "askV2"})
        /\ Due({"U"}) \in Nat /\ Due({"U", "V1", "askV2"}) \in Nat
    BY <2>1 DEF Due
  <2> QED BY <1>1, <2>1, <2>2, SpendingKept
<1>8. ASSUME NEW c \in Client, NEW id \in Id, Derive(c, id) PROVE Spending'
  <2> DEFINE g == <<c, asked[c] + 1>>
  <2>1. /\ asked[c] < Cap /\ asked' = [asked EXCEPT ![c] = @ + 1] /\ at = "idle" /\ at' = "U"
        /\ UNCHANGED transcript
    BY <1>8 DEF Derive, Deliver
  <2>2. asked \in [Client -> Nat] /\ Cap \in Nat
    BY ConstantsAssumption DEF IInv, TypeOK
  <2>3. g \in Client \X (1..Cap) /\ g \notin Grants
    BY <2>1, <2>2 DEF Grants
  <2>4. Grants' = Grants \cup {g}
    BY <2>1, <2>2, <2>3 DEF Grants
  <2>5. Cardinality(Grants') = Cardinality(Grants) + 1 /\ Cardinality(Grants) \in Nat
    <3>1. IsFiniteSet(Grants) /\ Cardinality(Grants) \in Nat
      BY GrantsBounded
    <3>2. Cardinality(Grants \cup {g}) = Cardinality(Grants) + 1
      BY <2>3, <3>1, FS_AddElement
    <3> QED BY <2>4, <3>1, <3>2
  <2>6. Due({"U"}) = 0 /\ Due({"U", "V1", "askV2"}) = 0 /\ Due({"U"})' = 1 /\ Due({"U", "V1", "askV2"})' = 1
    BY <2>1 DEF Due
  <2>7. \A d \in Client : asked'[d] <= Cap
    BY <2>1, <2>2 DEF Spending
  <2> QED BY <1>1, <2>1, <2>5, <2>6, <2>7 DEF Spending
<1> QED BY <1>2, <1>3, <1>4, <1>5, <1>6, <1>7, <1>8 DEF Next

LEMMA SpendingInit == Init => (Cap > 0 => Spending)
<1> SUFFICES ASSUME Init, Cap > 0 PROVE Spending
  OBVIOUS
<1>1. Cardinality(Grants) \in Nat /\ Cap \in Nat
  BY GrantsBounded, ConstantsAssumption
<1>2. Due({"U"}) = 0 /\ Due({"U", "V1", "askV2"}) = 0
  BY DEF Init, Due
<1>3. transcript["oprf_hop1"] = 0 /\ transcript["oprf_hop2"] = 0 /\ \A c \in Client : asked[c] = 0
  BY DEF Init, Event
<1> QED BY <1>1, <1>2, <1>3 DEF Spending

\* "enforces Q~ cap": neither server ever evaluates more points than the cap
\* lets all clients ask for, however many queries fail half way and are retried.
THEOREM Metering == Spec => []ServersMetered
<1>1. IInv /\ (Cap > 0 => Spending) => ServersMetered
  <2> SUFFICES ASSUME IInv, Cap > 0, Spending
               PROVE /\ transcript["oprf_hop1"] <= Cap * Cardinality(Client)
                     /\ transcript["oprf_hop2"] <= Cap * Cardinality(Client)
    BY DEF ServersMetered
  <2>1. transcript["oprf_hop1"] \in Nat /\ transcript["oprf_hop2"] \in Nat
    BY DEF IInv, TypeOK, Event
  <2>2. Cardinality(Grants) \in Nat /\ Cardinality(Grants) <= Cap * Cardinality(Client)
    BY GrantsBounded
  <2>3. Due({"U"}) \in Nat /\ Due({"U", "V1", "askV2"}) \in Nat
    BY DEF Due
  <2>4. Cap * Cardinality(Client) \in Int
    <3>1. Cardinality(Client) \in Nat /\ Cap \in Nat
      BY ConstantsAssumption, FS_CardinalityType
    <3> QED BY <3>1
  <2> QED BY <2>1, <2>2, <2>3, <2>4 DEF Spending
<1> QED BY <1>1, SpendingInit, SpendingNext, Invariance, PTL DEF Spec
-----------------------------------------------------------------------------
(* The session implements the ideal function. *)

LEMMA IdealInit == Init => Ideal!Init
  BY DEF Init, Ideal!Init

\* A step that neither makes the key nor meters or answers a query is not seen.
LEMMA Unseen ==
  ASSUME UNCHANGED <<asked, rows>>, done' = done, done => s1' = s1
  PROVE UNCHANGED Ideal!vars
<1>1. (IF done THEN s1.Y ELSE 0)' = IF done THEN s1.Y ELSE 0
  OBVIOUS
<1> QED BY <1>1 DEF Ideal!vars

LEMMA IdealNext == IInv /\ [Next]_vars => [Ideal!Next]_(Ideal!vars)
<1> SUFFICES ASSUME IInv, [Next]_vars PROVE Ideal!Next \/ UNCHANGED Ideal!vars
  OBVIOUS
<1>1. CASE Prepare \/ FinalizeS2 \/ DkgThrows \/ Hop1 \/ Hop2 \/ DeriveThrows \/ UNCHANGED vars
  <2>1. UNCHANGED <<asked, rows, done, s1>>
    BY <1>1 DEF Prepare, FinalizeS2, DkgThrows, Hop1, Hop2, ServerHop, DeriveThrows, ThrowWhen, vars, dkg, meter
  <2> QED BY <2>1, Unseen
<1>2. CASE SendHop1 \/ AskHop2 \/ Alter
  <2>1. UNCHANGED <<asked, rows, done, s1>>
    BY <1>2 DEF SendHop1, AskHop2, Alter, dkg, meter
  <2> QED BY <2>1, Unseen
<1>3. CASE FinalizeS1
  <2>1. ~done /\ done' = TRUE /\ s1'.Y = s2.Y /\ s2.Y # 0 /\ s2.Y \in Point /\ UNCHANGED <<asked, rows>>
    BY <1>3, AcceptedIsShared DEF FinalizeS1, meter, IInv, TypeOK
  <2>2. s1'.Y \in 1..(Q-1)
    BY <2>1, Order DEF Point
  <2> QED BY <2>1, <2>2 DEF Ideal!Next, Ideal!MakeKey
<1>4. ASSUME NEW c \in Client, NEW id \in Id, Derive(c, id) PROVE Ideal!Next
  <2>1. done /\ (Cap > 0 => asked[c] < Cap) /\ asked' = [asked EXCEPT ![c] = @ + 1] /\ UNCHANGED <<done, s1, rows>>
    BY <1>4 DEF Derive, dkg
  <2>2. s1.Y # 0
    BY <2>1 DEF IInv, Making
  <2> QED BY <2>1, <2>2 DEF Ideal!Next, Ideal!Ask
<1>5. CASE Unblind
  <2> DEFINE c == query.client
  <2>1. /\ done /\ c \in Client /\ query.id \in Id /\ at = "V2" /\ Hop2Accepted
        /\ UNCHANGED <<asked, done, s1>>
        /\ rows' = [rows EXCEPT ![c] = Append(@, [id |-> query.id, key |-> Mult(Invert(query.r), wire.points[1])])]
    BY <1>5 DEF Unblind, dkg, IInv, Querying, Asking
  <2>2. Mult(Invert(query.r), wire.points[1]) = Ideal!F(s1.Y, query.id)
    BY <2>1, Answered DEF Ideal!F, Mult
  <2>3. Len(rows[c]) < asked[c]
    BY <2>1 DEF IInv, Metered, Asking
  <2> QED BY <2>1, <2>2, <2>3 DEF Ideal!Next, Ideal!Answer
<1> QED BY <1>1, <1>2, <1>3, <1>4, <1>5 DEF Next

\* The two-server session is the one-key oracle its clients take it for: each
\* query a client made gets the value of that key's function or no answer, in any
\* group of prime order, whatever is altered, blinded or tried again.
THEOREM ImplementsIdeal == Spec => Implements
<1> QED BY IdealInit, IdealNext, Invariance, PTL DEF Spec, Implements, Ideal!Spec
=============================================================================
