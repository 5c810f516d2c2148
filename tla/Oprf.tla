-------------------------------- MODULE Oprf --------------------------------
(* A session of src/volePSI/MpsvsTopology.cpp over the two-server OPRF of
   MpsvsOprf.cpp: S1 and S2 make a key neither knows, S2 committing first; a
   client blinds an id, has it raised to both shares, checks both proofs and
   unblinds. One call runs at a time; any field of the message in flight may
   arrive altered, the call then throws, and the caller may call again.

   The group is written by its exponents: the element g^x is x, 0 an invalid
   point, scalarMult a product mod Q. An id is named by the element it hashes
   to. A proof is the statement it was made for and verifies for that statement
   alone; an altered proof verifies for none. A commitment is what it commits to. *)
EXTENDS Integers, Sequences, FiniteSets

CONSTANTS
  Q,           \* the order of the group, a prime
  Client,      \* the client roles
  Id,          \* hashed ids
  Cap,         \* PhiSummary::Q_tilde, 0 for no cap
  MaxQueries,  \* bound: queries a client makes
  MaxDkg,      \* bound: calls of runDkg
  MaxFaults    \* bound: altered fields

Scalar == 1..(Q-1)

ASSUME ConstantsAssumption ==
  /\ Q \in Nat \ {0, 1} /\ \A x \in 1..(Q-1) : \E y \in 1..(Q-1) : (x * y) % Q = 1
  /\ Id \subseteq 1..(Q-1)
  /\ IsFiniteSet(Client) /\ Cap \in Nat /\ MaxQueries \in Nat /\ MaxDkg \in Nat /\ MaxFaults \in Nat

VARIABLES
  at,          \* what the call under way has in flight, "idle" when there is none
  wire,        \* the message: its group elements and its proofs
  prep, commit, k1,  \* of the DKG under way: S2's share, the commitment S1 got, S1's share
  s1, s2,      \* DkgS1State and DkgS2State: the share k and the public Y1, Y2, Y
  done,        \* mDkgDone
  query,       \* of the query under way: client, id, blind r, U, V1
  asked,       \* per client: oprf_queries_made
  rows,        \* per client: raw_ids with entity_keys
  transcript,  \* how many entries of each event the SP transcript has
  runs, faults

dkg == <<prep, commit, k1, s1, s2, done, runs>>
meter == <<asked, rows>>
vars == <<at, wire, prep, commit, k1, s1, s2, done, query, asked, rows, transcript, runs, faults>>

\* Mutant: not reduced.
MultUnreduced(x, P) == x * P
Mult(x, P) == (x * P) % Q
Invert(x) == CHOOSE y \in Scalar : (x * y) % Q = 1

Event == {"dkg_commit", "dkg_hop1", "dkg_hop2", "oprf_hop1", "oprf_hop2"}
Log(event) == transcript' = [transcript EXCEPT ![event] = @ + 1]

Message(points, proofs) == [points |-> points, proofs |-> proofs]
Nothing == Message(<<>>, <<>>)
NoState == [k |-> 0, Y1 |-> 0, Y2 |-> 0, Y |-> 0]
NoQuery == [client |-> 0, id |-> 0, r |-> 0, U |-> 0, V1 |-> 0]

\* Proofs of knowledge of an exponent, and of equality of two.
Broken == <<>>
SchnorrProof(Y) == <<Y>>
SchnorrVerify(Y, pi) == Y # 0 /\ pi = SchnorrProof(Y)
DleqProof(Y, U, V) == <<Y, U, V>>
\* Mutant: the second base is not part of the challenge.
DleqVerifyLoose(Y, U, V, pi) == Len(pi) = 3 /\ pi[1] = Y /\ V # 0
DleqVerify(Y, U, V, pi) == Y # 0 /\ U # 0 /\ V # 0 /\ pi = DleqProof(Y, U, V)

Init ==
  /\ at = "idle" /\ wire = Nothing /\ prep = 0 /\ commit = Nothing /\ k1 = 0
  /\ s1 = NoState /\ s2 = NoState /\ done = FALSE /\ query = NoQuery
  /\ asked = [c \in Client |-> 0] /\ rows = [c \in Client |-> <<>>]
  /\ transcript = [e \in Event |-> 0] /\ runs = 0 /\ faults = 0

Deliver(there, points, proofs) == at' = there /\ wire' = Message(points, proofs)
Return == at' = "idle" /\ wire' = Nothing
ThrowWhen(here, bad) ==
  /\ at = here /\ bad /\ Return /\ query' = NoQuery
  /\ UNCHANGED <<dkg, meter, transcript, faults>>

\* dkgS2Prepare: S2 commits to its share and the proof of it.
Prepare ==
  /\ at = "idle" /\ ~done /\ runs < MaxDkg /\ runs' = runs + 1
  /\ prep' \in Scalar /\ Deliver("commit", <<prep'>>, <<SchnorrProof(prep')>>) /\ Log("dkg_commit")
  /\ UNCHANGED <<commit, k1, s1, s2, done, query, meter, faults>>

\* dkgS1SendHop1: with the commitment in hand, S1 sends its share's element.
SendHop1 ==
  /\ at = "commit" /\ commit' = wire
  /\ k1' \in Scalar /\ Deliver("hop1", <<k1'>>, <<SchnorrProof(k1')>>) /\ Log("dkg_hop1")
  /\ UNCHANGED <<prep, s1, s2, done, runs, query, meter, faults>>

\* dkgS2Finalize: S2 has its state before S1 has verified anything.
FinalizeS2 ==
  LET Y1 == wire.points[1] Y == Mult(prep, Y1) IN
  /\ at = "hop1" /\ SchnorrVerify(Y1, wire.proofs[1])
  /\ s2' = [k |-> prep, Y1 |-> Y1, Y2 |-> prep, Y |-> Y]
  /\ Deliver("final", <<prep, Y>>, <<SchnorrProof(prep), DleqProof(prep, Y1, Y)>>) /\ Log("dkg_hop2")
  /\ UNCHANGED <<prep, commit, k1, s1, done, runs, query, meter, faults>>

\* Mutant: the proof that Y is made of both shares is not checked.
FinalAcceptedUnproved ==
  LET Y2 == wire.points[1] IN
  commit = Message(<<Y2>>, <<wire.proofs[1]>>) /\ SchnorrVerify(Y2, wire.proofs[1])
\* dkgS1Finalize: the commitment opens to Y2, and Y is Y1 to the exponent of Y2.
FinalAccepted ==
  LET Y2 == wire.points[1] Y == wire.points[2] IN
  /\ commit = Message(<<Y2>>, <<wire.proofs[1]>>)
  /\ SchnorrVerify(Y2, wire.proofs[1]) /\ DleqVerify(Y2, k1, Y, wire.proofs[2])
FinalizeS1 ==
  /\ at = "final" /\ FinalAccepted /\ Return
  /\ s1' = [k |-> k1, Y1 |-> k1, Y2 |-> wire.points[1], Y |-> wire.points[2]]
  /\ done' = TRUE
  /\ UNCHANGED <<prep, commit, k1, s2, runs, query, meter, transcript, faults>>
DkgThrows ==
  \/ ThrowWhen("hop1", ~SchnorrVerify(wire.points[1], wire.proofs[1]))
  \/ ThrowWhen("final", ~FinalAccepted)

\* Mutant: only answered queries count against the cap.
DeriveUnmetered(c, id) ==
  /\ at = "idle" /\ done /\ (Cap > 0 => Len(rows[c]) < Cap) /\ asked[c] < MaxQueries
  /\ asked' = [asked EXCEPT ![c] = @ + 1]
  /\ \E r \in Scalar : LET U == Mult(r, id) IN
       query' = [client |-> c, id |-> id, r |-> r, U |-> U, V1 |-> 0] /\ Deliver("U", <<U>>, <<>>)
  /\ UNCHANGED <<dkg, rows, transcript, faults>>

\* clientDeriveKey: metered before anything is asked; deriveEntityKey blinds.
Derive(c, id) ==
  /\ at = "idle" /\ done /\ (Cap > 0 => asked[c] < Cap) /\ asked[c] < MaxQueries
  /\ asked' = [asked EXCEPT ![c] = @ + 1]
  /\ \E r \in Scalar : LET U == Mult(r, id) IN
       query' = [client |-> c, id |-> id, r |-> r, U |-> U, V1 |-> 0] /\ Deliver("U", <<U>>, <<>>)
  /\ UNCHANGED <<dkg, rows, transcript, faults>>

\* oprfServerHop1 and oprfServerHop2 throw on an invalid point.
ServerHop(here, there, s, Y, event) ==
  LET P == wire.points[1] IN
  /\ at = here /\ P # 0
  /\ Deliver(there, <<Mult(s.k, P)>>, <<DleqProof(Y, P, Mult(s.k, P))>>) /\ Log(event)
  /\ UNCHANGED <<dkg, query, meter, faults>>
Hop1 == ServerHop("U", "V1", s1, s1.Y1, "oprf_hop1")
Hop2 == ServerHop("askV2", "V2", s2, s2.Y2, "oprf_hop2")

Hop1Accepted == DleqVerify(s1.Y1, query.U, wire.points[1], wire.proofs[1])
Hop2Accepted == DleqVerify(s2.Y2, query.V1, wire.points[1], wire.proofs[1])
AskHop2 ==
  /\ at = "V1" /\ Hop1Accepted
  /\ query' = [query EXCEPT !.V1 = wire.points[1]]
  /\ Deliver("askV2", wire.points, <<>>)
  /\ UNCHANGED <<dkg, meter, transcript, faults>>
Unblind ==
  /\ at = "V2" /\ Hop2Accepted /\ Return /\ query' = NoQuery
  /\ rows' = [rows EXCEPT ![query.client] =
       Append(@, [id |-> query.id, key |-> Mult(Invert(query.r), wire.points[1])])]
  /\ UNCHANGED <<dkg, asked, transcript, faults>>
DeriveThrows ==
  \/ ThrowWhen("U", wire.points[1] = 0) \/ ThrowWhen("askV2", wire.points[1] = 0)
  \/ ThrowWhen("V1", ~Hop1Accepted) \/ ThrowWhen("V2", ~Hop2Accepted)

\* A field of the message in flight arrives altered.
Alter ==
  /\ at # "idle" /\ faults < MaxFaults /\ faults' = faults + 1
  /\ \/ \E i \in DOMAIN wire.points : \E x \in 0..(Q-1) : wire' = [wire EXCEPT !.points[i] = x]
     \/ \E i \in DOMAIN wire.proofs : wire' = [wire EXCEPT !.proofs[i] = Broken]
  /\ UNCHANGED <<at, dkg, query, meter, transcript>>

Next ==
  \/ Prepare \/ SendHop1 \/ FinalizeS2 \/ FinalizeS1 \/ DkgThrows
  \/ Hop1 \/ AskHop2 \/ Hop2 \/ Unblind \/ DeriveThrows \/ Alter
  \/ \E c \in Client, id \in Id : Derive(c, id)
Spec == Init /\ [][Next]_vars
-----------------------------------------------------------------------------
Point == 0..(Q-1)

\* The types of the state.
TypeOK ==
  /\ at \in {"idle", "commit", "hop1", "final", "U", "V1", "askV2", "V2"}
  /\ \A i \in DOMAIN wire.points : wire.points[i] \in Point
  /\ prep \in Point /\ k1 \in Point
  /\ s1 \in [k : Point, Y1 : Point, Y2 : Point, Y : Point]
  /\ s2 \in [k : Point, Y1 : Point, Y2 : Point, Y : Point]
  /\ done \in BOOLEAN /\ asked \in [Client -> 0..MaxQueries]
  /\ \A c \in Client : \A i \in DOMAIN rows[c] : rows[c][i] \in [id : Id, key : Point]
  /\ transcript \in [Event -> Nat] /\ runs \in 0..MaxDkg /\ faults \in 0..MaxFaults

\* When runDkg returns, the servers hold shares of one key and the same public
\* values for it, even if earlier calls threw after S2 had stored its state.
ServersAgree == done =>
  /\ [s1 EXCEPT !.k = 0] = [s2 EXCEPT !.k = 0]
  /\ s1.Y1 = s1.k /\ s2.Y2 = s2.k /\ s1.Y = Mult(s1.k, s2.k)

\* "enforces Q~ cap": neither server evaluates more points than the cap allows
\* all clients together, counting the queries that failed half way.
ServersMetered == Cap > 0 =>
  LET all == Cap * Cardinality(Client) IN
  transcript["oprf_hop1"] <= all /\ transcript["oprf_hop2"] <= all

\* Every answer is the one key's function of the id asked for, whatever was
\* altered, retried or blinded: the promise of IdealOprf.
Ideal == INSTANCE IdealOprf WITH key <- IF done THEN s1.Y ELSE 0
Implements == Ideal!Spec
=============================================================================
