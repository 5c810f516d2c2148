------------------------------ MODULE MpcWire ------------------------------
(* The two-party evaluation of src/volePSI/MpMpcWire.cpp: each party holds one
   XOR share of every bit and walks the same sequence of AND gates; a gate
   spends a Beaver triple and one exchange of masked bits, party 0 sending first
   and party 1 receiving first. XOR, NOT and copying cost nothing and are part
   of the gate that needs them; MpcCircuits writes the code's circuits as such
   sequences.

   The socket buffers, or is a rendezvous where send returns only when the peer
   has received. *)
EXTENDS Integers, Sequences

CONSTANTS
  Job,             \* names of the circuits evaluated
  Program(_),      \* the gates of a job
  Input(_),        \* the initial contents of a job's registers, shares joined
  Seed,            \* names of the randomness behind shares and triples
  Mask(_, _),      \* per job and seed: party 0's shares of the input
  TripleAt(_, _),  \* per seed: the triple at a place of the bag
  Size(_)          \* how many triples the bag of a job may have

Party == {0, 1}
Peer(p) == 1 - p
Bit == {0, 1}
Xor(a, b) == (a + b) % 2
Register(j) == DOMAIN Mask(j, CHOOSE s \in Seed : TRUE)

\* A gate: two operands, each the XOR of two registers, negated or not; what its
\* result does to which registers; and the registers copied from others.
Operand(j) == [l : Register(j), r : Register(j), neg : Bit]
Gate(j, g) ==
  /\ g.x \in Operand(j) /\ g.y \in Operand(j)
  /\ DOMAIN g.out \subseteq Register(j) /\ \A r \in DOMAIN g.out : g.out[r] \in {"set", "not", "xor"}
  /\ DOMAIN g.copy \subseteq Register(j) /\ \A r \in DOMAIN g.copy : g.copy[r] \in Register(j)
Triple == [u : [Party -> Bit], v : [Party -> Bit], w : [Party -> Bit]]
Valid(t) == Xor(t.w[0], t.w[1]) = Xor(t.u[0], t.u[1]) * Xor(t.v[0], t.v[1])

ASSUME CircuitsAssumption == \A j \in Job :
  /\ Len(Program(j)) \in Nat /\ \A i \in 1..Len(Program(j)) : Gate(j, Program(j)[i])
  /\ Input(j) \subseteq [Register(j) -> Bit] /\ Size(j) \subseteq Nat
  /\ \A s \in Seed :
       /\ Mask(j, s) \in [Register(j) -> Bit]
       /\ \A n \in 1..Len(Program(j)) : TripleAt(s, n) \in Triple /\ Valid(TripleAt(s, n))

VARIABLES
  job, seed, size, rendezvous,   \* the configuration
  input,                         \* history: the registers as they were, shares joined
  plain,                         \* history: and as of party 1's gate
  reg,                           \* per party: its shares
  gate,                          \* per party: the gate it is at, which is tripleIdx
  phase,                         \* per party: "ready", "sending", "receiving", "answering" or "threw"
  wire                           \* per party: the masked bits waiting for it

config == <<job, seed, size, rendezvous, input>>
vars == <<job, seed, size, rendezvous, input, plain, reg, gate, phase, wire>>

The(p) == Program(job)[gate[p]]
Finished(p) == gate[p] > Len(Program(job))
\* A party at a gate has a triple for it, or throws.
Starts(p) == phase[p] = "ready" /\ ~Finished(p) /\ gate[p] <= size

\* A party's share of an operand: party 0 alone negates.
Share(p, o) == (reg[p][o.l] + reg[p][o.r] + (IF p = 0 THEN o.neg ELSE 0)) % 2
Masked(p) == LET t == TripleAt(seed, gate[p]) IN
  <<Xor(Share(p, The(p).x), t.u[p]), Xor(Share(p, The(p).y), t.v[p])>>

\* Mutant: both parties add the public product.
ProductBoth(p, theirs) ==
  LET t == TripleAt(seed, gate[p]) d == Xor(Masked(p)[1], theirs[1]) e == Xor(Masked(p)[2], theirs[2])
  IN (t.w[p] + d * t.v[p] + e * t.u[p] + d * e) % 2
\* Mutant: the share is not reduced to its bit.
ProductWide(p, theirs) ==
  LET t == TripleAt(seed, gate[p]) d == Xor(Masked(p)[1], theirs[1]) e == Xor(Masked(p)[2], theirs[2])
  IN t.w[p] + d * t.v[p] + e * t.u[p] + (IF p = 0 THEN d * e ELSE 0)
\* Its share of their product, from the peer's masked bits.
Product(p, theirs) ==
  LET t == TripleAt(seed, gate[p]) d == Xor(Masked(p)[1], theirs[1]) e == Xor(Masked(p)[2], theirs[2])
  IN (t.w[p] + d * t.v[p] + e * t.u[p] + (IF p = 0 THEN d * e ELSE 0)) % 2

\* Registers f after gate g came to z; one is what a negation adds.
Updated(f, g, z, one) == [r \in DOMAIN f |->
  IF r \in DOMAIN g.copy THEN f[g.copy[r]]
  ELSE IF r \notin DOMAIN g.out THEN f[r]
  ELSE CASE g.out[r] = "set" -> z [] g.out[r] = "not" -> Xor(z, one) [] g.out[r] = "xor" -> Xor(f[r], z)]
Compute(p, theirs) == reg' = [reg EXCEPT ![p] = Updated(@, The(p), Product(p, theirs), 1 - p)]

\* What a gate does to the joined registers.
Evaluated(f, g) ==
  LET value(o) == (f[o.l] + f[o.r] + o.neg) % 2 IN Updated(f, g, value(g.x) * value(g.y), 1)

Init ==
  /\ job \in Job /\ seed \in Seed /\ size \in Size(job) /\ rendezvous \in BOOLEAN
  /\ input \in Input(job) /\ plain = input
  /\ reg = [p \in Party |-> IF p = 0 THEN Mask(job, seed)
                            ELSE [r \in Register(job) |-> Xor(plain[r], Mask(job, seed)[r])]]
  /\ gate = [p \in Party |-> 1] /\ phase = [p \in Party |-> "ready"] /\ wire = [p \in Party |-> <<>>]

Goto(p, there) == phase' = [phase EXCEPT ![p] = there]
Advance(p) == gate' = [gate EXCEPT ![p] = @ + 1] /\ Goto(p, "ready")
\* send returns at once, or when the peer has received.
Delivered(p) == rendezvous => wire[Peer(p)] = <<>>

\* takeTriple: "triple bag exhausted".
Throw(p) ==
  /\ phase[p] = "ready" /\ ~Finished(p) /\ gate[p] > size /\ Goto(p, "threw")
  /\ UNCHANGED <<config, plain, reg, gate, wire>>

\* Party 0 sends, then receives.
SendFirst ==
  /\ Starts(0) /\ Goto(0, "sending") /\ wire' = [wire EXCEPT ![1] = Append(@, Masked(0))]
  /\ UNCHANGED <<config, plain, reg, gate>>
SendReturns ==
  /\ phase[0] = "sending" /\ Delivered(0) /\ Goto(0, "receiving")
  /\ UNCHANGED <<config, plain, reg, gate, wire>>
ReceiveLast ==
  /\ phase[0] = "receiving" /\ wire[0] # <<>> /\ wire' = [wire EXCEPT ![0] = Tail(@)]
  /\ Compute(0, Head(wire[0])) /\ Advance(0)
  /\ UNCHANGED <<config, plain>>

\* Mutant: party 1 sends first as well.
ReceiveFirstLate ==
  /\ Starts(1) /\ Goto(1, "answering") /\ wire' = [wire EXCEPT ![0] = Append(@, Masked(1))]
  /\ UNCHANGED <<config, plain, reg, gate>>
\* Party 1 receives, then sends.
ReceiveFirst ==
  /\ Starts(1) /\ wire[1] # <<>> /\ Goto(1, "answering")
  /\ wire' = [p \in Party |-> IF p = 1 THEN Tail(wire[1]) ELSE Append(wire[0], Masked(1))]
  /\ Compute(1, Head(wire[1])) /\ plain' = Evaluated(plain, The(1))
  /\ UNCHANGED <<config, gate>>
AnswerReturns ==
  /\ phase[1] = "answering" /\ Delivered(1) /\ Advance(1)
  /\ UNCHANGED <<config, plain, reg, wire>>

Next == SendFirst \/ SendReturns \/ ReceiveLast \/ ReceiveFirst \/ AnswerReturns \/ \E p \in Party : Throw(p)

\* Both parties' coroutines are run to their end.
Spec == Init /\ [][Next]_vars
FairSpec == Spec /\ WF_vars(Next)
-----------------------------------------------------------------------------
\* The types of the state.
TypeOK ==
  /\ job \in Job /\ seed \in Seed /\ size \in Size(job) /\ rendezvous \in BOOLEAN
  /\ plain \in [Register(job) -> Bit] /\ reg \in [Party -> [Register(job) -> Bit]]
  /\ gate \in [Party -> 1..(Len(Program(job)) + 1)]
  /\ phase \in [Party -> {"ready", "sending", "receiving", "answering", "threw"}]
  /\ wire \in [Party -> Seq(Bit \X Bit)]

\* Between two gates the shares join to what the circuit computes on the joined
\* input: no gate is evaluated with the other's message, triple or operands.
SharesJoin ==
  (gate[0] = gate[1] /\ phase[1] = "ready") =>
    \A r \in Register(job) : Xor(reg[0][r], reg[1][r]) = plain[r]

\* Both parties finish, or both run out of triples at the same gate: neither
\* socket order nor an empty bag leaves one waiting for the other.
BothEnd == <>(gate[0] = gate[1] /\ (phase = [p \in Party |-> "threw"] \/ \A p \in Party : Finished(p)))
=============================================================================
