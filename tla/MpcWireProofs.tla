--------------------------- MODULE MpcWireProofs ---------------------------
(* Proofs about MpcWire: for every circuit made of its gates, every input, every
   sharing of it and every valid triples, the shares join. *)
EXTENDS MpcWire, TLAPS

\* Registers f and h of circuit j join to c; and party 1's and those of f do.
Join(j, f, h, c) == \A r \in Register(j) : Xor(f[r], h[r]) = c[r]
Joined(f) == Join(job, f, reg[1], plain)

\* Party 1 has answered, and party 0 has not read the answer.
Answered == wire[0] # <<>>
Waiting == phase[0] \in {"sending", "receiving"}

\* One message of a gate is under way: the bits party 0 masks there, or the answer.
Exchange ==
  /\ Waiting => gate[0] <= Len(Program(job)) /\ (wire[0] # <<>> \/ wire[1] # <<>>)
  /\ wire[1] # <<>> => Waiting /\ ~Answered /\ wire[1] = <<Masked(0)>>
  /\ Answered => Waiting /\ \E m \in Bit \X Bit : wire[0] = <<m>>

\* How far the parties are apart.
Aligned ==
  IF phase[1] = "answering"
    THEN gate[1] <= Len(Program(job)) /\ gate[0] = IF Answered THEN gate[1] ELSE gate[1] + 1
    ELSE gate[1] = IF Answered THEN gate[0] + 1 ELSE gate[0]

\* The shares join, once party 0 has done with the answer what it will do with it.
InStep == Joined(IF Answered THEN Updated(reg[0], The(0), Product(0, Head(wire[0])), 1) ELSE reg[0])

IInv == TypeOK /\ Exchange /\ Aligned /\ InStep
-----------------------------------------------------------------------------
(* Bits. *)

LEMMA XorBit == ASSUME NEW a \in Bit, NEW b \in Bit PROVE Xor(a, b) \in Bit
  BY DEF Bit, Xor

LEMMA Circuits ==
  ASSUME job \in Job, seed \in Seed
  PROVE /\ Len(Program(job)) \in Nat /\ \A i \in 1..Len(Program(job)) : Gate(job, Program(job)[i])
        /\ \A f \in Input(job) : f \in [Register(job) -> Bit]
        /\ Mask(job, seed) \in [Register(job) -> Bit]
        /\ \A n \in 1..Len(Program(job)) : TripleAt(seed, n) \in Triple /\ Valid(TripleAt(seed, n))
  BY CircuitsAssumption

\* A party's shares of a gate's operands are bits, and so is what it masks them to.
LEMMA ShareBit ==
  ASSUME NEW p \in Party, NEW o \in Operand(job), reg[p] \in [Register(job) -> Bit]
  PROVE Share(p, o) \in Bit
<1>1. reg[p][o.l] \in Bit /\ reg[p][o.r] \in Bit /\ o.neg \in Bit
  BY DEF Operand
<1> QED BY <1>1 DEF Share, Bit

LEMMA MaskedBits ==
  ASSUME TypeOK, NEW p \in Party, gate[p] <= Len(Program(job))
  PROVE /\ Share(p, The(p).x) \in Bit /\ Share(p, The(p).y) \in Bit
        /\ Masked(p) = <<Xor(Share(p, The(p).x), TripleAt(seed, gate[p]).u[p]),
                        Xor(Share(p, The(p).y), TripleAt(seed, gate[p]).v[p])>>
        /\ Masked(p) \in Bit \X Bit
<1>1. gate[p] \in 1..Len(Program(job)) /\ reg[p] \in [Register(job) -> Bit]
  BY Circuits DEF TypeOK
<1>2. The(p).x \in Operand(job) /\ The(p).y \in Operand(job)
  BY <1>1, Circuits DEF TypeOK, The, Gate
<1>3. Share(p, The(p).x) \in Bit /\ Share(p, The(p).y) \in Bit
  BY <1>1, <1>2, ShareBit
<1>4. TripleAt(seed, gate[p]).u[p] \in Bit /\ TripleAt(seed, gate[p]).v[p] \in Bit
  BY <1>1, Circuits DEF TypeOK, Triple
<1> QED BY <1>3, <1>4, XorBit DEF Masked

LEMMA ProductBit ==
  ASSUME TypeOK, NEW p \in Party, gate[p] <= Len(Program(job)), NEW theirs \in Bit \X Bit
  PROVE Product(p, theirs) \in Bit
<1> DEFINE t == TripleAt(seed, gate[p])
           d == Xor(Masked(p)[1], theirs[1])
           e == Xor(Masked(p)[2], theirs[2])
<1>1. gate[p] \in 1..Len(Program(job))
  BY Circuits DEF TypeOK
<1>2. t.w[p] \in Bit /\ t.u[p] \in Bit /\ t.v[p] \in Bit
  BY <1>1, Circuits DEF TypeOK, Triple
<1>3. d \in Bit /\ e \in Bit
  BY MaskedBits, XorBit
<1>4. Product(p, theirs) = (t.w[p] + d * t.v[p] + e * t.u[p] + (IF p = 0 THEN d * e ELSE 0)) % 2
  BY DEF Product
<1> HIDE DEF t, d, e
<1> QED BY <1>2, <1>3, <1>4 DEF Bit

\* A gate's outcome at a register: a copy, no change, or one of three uses of z.
Outcome(v, f, g, z, one, r) ==
  \/ r \in DOMAIN g.copy /\ g.copy[r] \in Register(job) /\ v = f[g.copy[r]]
  \/ r \notin DOMAIN g.copy /\ r \notin DOMAIN g.out /\ v = f[r]
  \/ /\ r \notin DOMAIN g.copy /\ r \in DOMAIN g.out
     /\ \/ g.out[r] = "set" /\ v = z
        \/ g.out[r] = "not" /\ v = Xor(z, one)
        \/ g.out[r] = "xor" /\ v = Xor(f[r], z)

LEMMA UpdatedAt ==
  ASSUME NEW f \in [Register(job) -> Bit], NEW g, Gate(job, g), NEW z \in Bit, NEW one \in Bit, NEW r \in Register(job)
  PROVE Outcome(Updated(f, g, z, one)[r], f, g, z, one, r)
<1>1. ASSUME NEW v,
             v = IF r \in DOMAIN g.copy THEN f[g.copy[r]]
                 ELSE IF r \notin DOMAIN g.out THEN f[r]
                 ELSE CASE g.out[r] = "set" -> z [] g.out[r] = "not" -> Xor(z, one) [] g.out[r] = "xor" -> Xor(f[r], z)
      PROVE Outcome(v, f, g, z, one, r)
  <2>1. CASE r \in DOMAIN g.copy
    BY <1>1, <2>1 DEF Outcome, Gate
  <2>2. CASE r \notin DOMAIN g.copy /\ r \notin DOMAIN g.out
    BY <1>1, <2>2 DEF Outcome
  <2>3. CASE r \notin DOMAIN g.copy /\ r \in DOMAIN g.out
    <3>1. g.out[r] \in {"set", "not", "xor"}
      BY <2>3 DEF Gate
    <3> QED BY <1>1, <2>3, <3>1 DEF Outcome
  <2> QED BY <2>1, <2>2, <2>3
<1> QED BY <1>1 DEF Updated

LEMMA UpdatedType ==
  ASSUME NEW f \in [Register(job) -> Bit], NEW g, Gate(job, g), NEW z \in Bit, NEW one \in Bit
  PROVE Updated(f, g, z, one) \in [Register(job) -> Bit]
<1>1. ASSUME NEW r \in Register(job), NEW v, Outcome(v, f, g, z, one, r) PROVE v \in Bit
  <2>1. f[r] \in Bit /\ \A q \in Register(job) : f[q] \in Bit
    OBVIOUS
  <2> QED BY <1>1, <2>1, XorBit DEF Outcome
<1>2. \A r \in Register(job) : Updated(f, g, z, one)[r] \in Bit
  BY <1>1, UpdatedAt
<1>3. DOMAIN f = Register(job)
  OBVIOUS
<1> QED BY <1>2, <1>3 DEF Updated

\* Shares of a gate's result join to the result of the joined registers.
LEMMA UpdatedJoins ==
  ASSUME NEW f \in [Register(job) -> Bit], NEW h \in [Register(job) -> Bit], NEW joined \in [Register(job) -> Bit],
         Join(job, f, h, joined),
         NEW g, Gate(job, g), NEW z0 \in Bit, NEW z1 \in Bit, NEW z \in Bit, Xor(z0, z1) = z
  PROVE Join(job, Updated(f, g, z0, 1), Updated(h, g, z1, 0), Updated(joined, g, z, 1))
<1>1. 0 \in Bit /\ 1 \in Bit
  BY DEF Bit
<1>2. ASSUME NEW r \in Register(job), NEW a, NEW b, NEW c,
             Outcome(a, f, g, z0, 1, r), Outcome(b, h, g, z1, 0, r), Outcome(c, joined, g, z, 1, r)
      PROVE Xor(a, b) = c
  <2>1. f[r] \in Bit /\ h[r] \in Bit /\ \A q \in Register(job) : joined[q] = Xor(f[q], h[q])
    BY DEF Join
  <2>2. CASE r \in DOMAIN g.copy
    BY <1>2, <2>1, <2>2 DEF Outcome
  <2>3. CASE r \notin DOMAIN g.copy /\ r \notin DOMAIN g.out
    BY <1>2, <2>1, <2>3 DEF Outcome
  <2>4. CASE r \notin DOMAIN g.copy /\ r \in DOMAIN g.out /\ g.out[r] = "set"
    BY <1>2, <2>4 DEF Outcome
  <2>5. CASE r \notin DOMAIN g.copy /\ r \in DOMAIN g.out /\ g.out[r] = "not"
    <3>1. a = Xor(z0, 1) /\ b = Xor(z1, 0) /\ c = Xor(Xor(z0, z1), 1)
      BY <1>2, <2>5 DEF Outcome
    <3> QED BY <3>1 DEF Bit, Xor
  <2>6. CASE r \notin DOMAIN g.copy /\ r \in DOMAIN g.out /\ g.out[r] = "xor"
    <3>1. a = Xor(f[r], z0) /\ b = Xor(h[r], z1) /\ c = Xor(Xor(f[r], h[r]), Xor(z0, z1))
      BY <1>2, <2>1, <2>6 DEF Outcome
    <3> QED BY <2>1, <3>1 DEF Bit, Xor
  <2> QED BY <1>2, <2>2, <2>3, <2>4, <2>5, <2>6 DEF Outcome
<1>3. ASSUME NEW r \in Register(job)
      PROVE Xor(Updated(f, g, z0, 1)[r], Updated(h, g, z1, 0)[r]) = Updated(joined, g, z, 1)[r]
  <2>1. /\ Outcome(Updated(f, g, z0, 1)[r], f, g, z0, 1, r)
        /\ Outcome(Updated(h, g, z1, 0)[r], h, g, z1, 0, r)
        /\ Outcome(Updated(joined, g, z, 1)[r], joined, g, z, 1, r)
    BY <1>1, UpdatedAt, Zenon
  <2> QED BY <1>2, <2>1, Zenon
<1> QED BY <1>3 DEF Join

\* An operand's shares join to the operand of the joined registers.
LEMMA OperandJoins ==
  ASSUME TypeOK, Joined(reg[0]), NEW o \in Operand(job)
  PROVE Xor(Share(0, o), Share(1, o)) = (plain[o.l] + plain[o.r] + o.neg) % 2
<1>1. o.l \in Register(job) /\ o.r \in Register(job) /\ o.neg \in Bit
  BY DEF Operand
<1>2. reg[0][o.l] \in Bit /\ reg[1][o.l] \in Bit /\ reg[0][o.r] \in Bit /\ reg[1][o.r] \in Bit
  BY <1>1 DEF TypeOK, Party
<1>3. plain[o.l] = Xor(reg[0][o.l], reg[1][o.l]) /\ plain[o.r] = Xor(reg[0][o.r], reg[1][o.r])
  BY <1>1 DEF Joined, Join
<1>4. /\ Share(0, o) = (reg[0][o.l] + reg[0][o.r] + o.neg) % 2
      /\ Share(1, o) = (reg[1][o.l] + reg[1][o.r] + 0) % 2
  BY DEF Share
<1> DEFINE a0 == reg[0][o.l] a1 == reg[1][o.l] b0 == reg[0][o.r] b1 == reg[1][o.r] n == o.neg
<1>5. a0 \in Bit /\ a1 \in Bit /\ b0 \in Bit /\ b1 \in Bit /\ n \in Bit
  BY <1>1, <1>2
<1>6. ASSUME NEW x \in Bit, NEW y \in Bit, NEW u \in Bit, NEW v \in Bit, NEW m \in Bit
      PROVE Xor((x + u + m) % 2, (y + v + 0) % 2) = (Xor(x, y) + Xor(u, v) + m) % 2
  BY DEF Bit, Xor
<1> QED BY <1>3, <1>4, <1>5, <1>6

\* What the parties make of each other's masked bits joins to the gate's product.
LEMMA ProductsJoin ==
  ASSUME TypeOK, Joined(reg[0]), gate[0] = gate[1], gate[1] <= Len(Program(job))
  PROVE LET value(o) == (plain[o.l] + plain[o.r] + o.neg) % 2
        IN Xor(Product(0, Masked(1)), Product(1, Masked(0))) = value(The(1).x) * value(The(1).y)
<1> DEFINE n == gate[1]
           t == TripleAt(seed, n)
           x0 == Share(0, The(0).x)
           x1 == Share(1, The(1).x)
           y0 == Share(0, The(0).y)
           y1 == Share(1, The(1).y)
           d == Xor(Xor(x0, t.u[0]), Xor(x1, t.u[1]))
           e == Xor(Xor(y0, t.v[0]), Xor(y1, t.v[1]))
<1>1. 0 \in Party /\ 1 \in Party /\ n \in 1..Len(Program(job)) /\ The(0) = The(1)
  BY Circuits DEF TypeOK, Party, The
<1>2. /\ t.u[0] \in Bit /\ t.u[1] \in Bit /\ t.v[0] \in Bit /\ t.v[1] \in Bit /\ t.w[0] \in Bit /\ t.w[1] \in Bit
      /\ Xor(t.w[0], t.w[1]) = Xor(t.u[0], t.u[1]) * Xor(t.v[0], t.v[1])
  BY <1>1, Circuits DEF TypeOK, Triple, Valid
<1>3. /\ x0 \in Bit /\ y0 \in Bit /\ x1 \in Bit /\ y1 \in Bit
      /\ Masked(0) = <<Xor(x0, t.u[0]), Xor(y0, t.v[0])>> /\ Masked(1) = <<Xor(x1, t.u[1]), Xor(y1, t.v[1])>>
  BY <1>1, MaskedBits
<1>4. The(1).x \in Operand(job) /\ The(1).y \in Operand(job)
  BY <1>1, Circuits DEF TypeOK, The, Gate
<1>5. /\ Xor(x0, x1) = (plain[The(1).x.l] + plain[The(1).x.r] + The(1).x.neg) % 2
      /\ Xor(y0, y1) = (plain[The(1).y.l] + plain[The(1).y.r] + The(1).y.neg) % 2
  BY <1>1, <1>4, OperandJoins
<1> HIDE DEF x0, x1, y0, y1, t, n
<1>6. /\ Xor(Masked(0)[1], Masked(1)[1]) = d /\ Xor(Masked(1)[1], Masked(0)[1]) = d
      /\ Xor(Masked(0)[2], Masked(1)[2]) = e /\ Xor(Masked(1)[2], Masked(0)[2]) = e
  BY <1>2, <1>3 DEF Xor, Bit
<1>7. /\ Product(0, Masked(1)) = (t.w[0] + d * t.v[0] + e * t.u[0] + d * e) % 2
      /\ Product(1, Masked(0)) = (t.w[1] + d * t.v[1] + e * t.u[1] + 0) % 2
  BY <1>6 DEF Product, t, n
<1>8. d \in Bit /\ e \in Bit
  BY <1>2, <1>3, XorBit
<1> HIDE DEF d, e
<1>9. (t.w[1] + d * t.v[1] + e * t.u[1] + 0) % 2 = (t.w[1] + d * t.v[1] + e * t.u[1]) % 2
  BY <1>2, <1>8 DEF Bit
<1>10. d = Xor(Xor(x0, t.u[0]), Xor(x1, t.u[1])) /\ e = Xor(Xor(y0, t.v[0]), Xor(y1, t.v[1]))
  BY DEF d, e
\* Beaver's identity.
<1>11. Xor((t.w[0] + d * t.v[0] + e * t.u[0] + d * e) % 2, (t.w[1] + d * t.v[1] + e * t.u[1]) % 2)
          = Xor(x0, x1) * Xor(y0, y1)
  <2> DEFINE u0 == t.u[0] u1 == t.u[1] v0 == t.v[0] v1 == t.v[1] w0 == t.w[0] w1 == t.w[1]
  <2>1. /\ u0 \in Bit /\ u1 \in Bit /\ v0 \in Bit /\ v1 \in Bit /\ w0 \in Bit /\ w1 \in Bit
        /\ Xor(w0, w1) = Xor(u0, u1) * Xor(v0, v1)
        /\ d = Xor(Xor(x0, u0), Xor(x1, u1)) /\ e = Xor(Xor(y0, v0), Xor(y1, v1))
    BY <1>2, <1>10
  <2> HIDE DEF u0, u1, v0, v1, w0, w1
  <2>2. Xor((w0 + d * v0 + e * u0 + d * e) % 2, (w1 + d * v1 + e * u1) % 2) = Xor(x0, x1) * Xor(y0, y1)
    <3>1. x0 \in Bit /\ x1 \in Bit /\ y0 \in Bit /\ y1 \in Bit
      BY <1>3
    <3> QED BY <1>8, <2>1, <3>1 DEF Bit, Xor
  <2> QED BY <2>2 DEF u0, u1, v0, v1, w0, w1
<1> QED BY <1>5, <1>7, <1>9, <1>11
-----------------------------------------------------------------------------
(* The invariant. *)

LEMMA InitInv == Init => IInv
<1> SUFFICES ASSUME Init PROVE IInv
  OBVIOUS
<1>1. /\ Mask(job, seed) \in [Register(job) -> Bit] /\ plain \in [Register(job) -> Bit]
      /\ Len(Program(job)) \in Nat
  BY Circuits DEF Init
<1>2. reg[0] = Mask(job, seed) /\ reg[1] = [r \in Register(job) |-> Xor(plain[r], Mask(job, seed)[r])]
  BY DEF Init, Party
<1>3. \A r \in Register(job) :
        /\ Xor(plain[r], Mask(job, seed)[r]) \in Bit
        /\ Xor(Mask(job, seed)[r], Xor(plain[r], Mask(job, seed)[r])) = plain[r]
  <2> SUFFICES ASSUME NEW r \in Register(job)
               PROVE /\ Xor(plain[r], Mask(job, seed)[r]) \in Bit
                     /\ Xor(Mask(job, seed)[r], Xor(plain[r], Mask(job, seed)[r])) = plain[r]
    OBVIOUS
  <2>1. ASSUME NEW a \in Bit, NEW b \in Bit PROVE Xor(a, b) \in Bit /\ Xor(b, Xor(a, b)) = a
    BY DEF Bit, Xor
  <2>2. plain[r] \in Bit /\ Mask(job, seed)[r] \in Bit
    BY <1>1
  <2> QED BY <2>1, <2>2
<1>4. TypeOK
  <2>1. reg[0] \in [Register(job) -> Bit] /\ reg[1] \in [Register(job) -> Bit]
    BY <1>1, <1>2, <1>3
  <2>2. reg \in [Party -> [Register(job) -> Bit]]
    BY <2>1 DEF Init, Party
  <2>3. gate \in [Party -> 1..(Len(Program(job)) + 1)]
    BY <1>1 DEF Init
  <2>4. wire \in [Party -> Seq(Bit \X Bit)]
    BY DEF Init
  <2> QED BY <1>1, <2>2, <2>3, <2>4 DEF Init, TypeOK
<1>5. wire[0] = <<>> /\ wire[1] = <<>> /\ phase[0] = "ready" /\ phase[1] = "ready" /\ gate[0] = 1 /\ gate[1] = 1
  BY DEF Init, Party
<1>6. Exchange /\ Aligned
  BY <1>5 DEF Exchange, Aligned, Waiting, Answered
<1>7. InStep
  BY <1>2, <1>3, <1>5 DEF InStep, Joined, Join, Answered
<1> QED BY <1>4, <1>6, <1>7 DEF IInv

LEMMA Advanced ==
  ASSUME NEW n \in Nat, NEW f \in [Party -> 1..(n + 1)], NEW p \in Party, f[p] <= n
  PROVE [f EXCEPT ![p] = @ + 1] \in [Party -> 1..(n + 1)]
  OBVIOUS

\* What a step that leaves party 0's registers, gate and circuit alone sends.
LEMMA MaskedStays ==
  ASSUME UNCHANGED <<job, seed>>, reg'[0] = reg[0], gate'[0] = gate[0]
  PROVE Masked(0)' = Masked(0) /\ The(0)' = The(0) /\ \A m : Product(0, m)' = Product(0, m)
  BY DEF Masked, Share, The, Product

LEMMA ThrowInv == ASSUME IInv, NEW p \in Party, Throw(p) PROVE IInv'
<1> USE DEF IInv
<1>1. /\ phase[p] = "ready" /\ phase' = [phase EXCEPT ![p] = "threw"] /\ UNCHANGED <<job, seed, size, rendezvous, input, plain, reg, gate, wire>>
  BY DEF Throw, Goto, config
<1>2. TypeOK'
  BY <1>1 DEF TypeOK, Register
<1>3. (Waiting <=> Waiting') /\ (phase'[1] = "answering" <=> phase[1] = "answering")
  BY <1>1 DEF TypeOK, Waiting, Party
<1>4. Exchange'
  BY <1>1, <1>3, MaskedStays DEF Exchange, Answered
<1>5. Aligned' /\ InStep'
  BY <1>1, <1>3, MaskedStays DEF Aligned, InStep, Answered, Joined, Join, Register
<1> QED BY <1>2, <1>4, <1>5

LEMMA SendFirstInv == IInv /\ SendFirst => IInv'
<1> SUFFICES ASSUME IInv, SendFirst PROVE IInv'
  OBVIOUS
<1> USE DEF IInv
<1>1. /\ phase[0] = "ready" /\ gate[0] <= Len(Program(job)) /\ phase' = [phase EXCEPT ![0] = "sending"]
      /\ wire' = [wire EXCEPT ![1] = Append(@, Masked(0))]
      /\ UNCHANGED <<job, seed, size, rendezvous, input, plain, reg, gate>>
  BY Circuits DEF SendFirst, Starts, Finished, Goto, config, TypeOK, Party
<1>2. wire[0] = <<>> /\ wire[1] = <<>>
  BY <1>1 DEF Exchange, Waiting, Answered
<1>3. Masked(0) \in Bit \X Bit
  BY <1>1, MaskedBits DEF Party
<1>4. /\ wire'[0] = <<>> /\ wire'[1] = <<Masked(0)>> /\ phase'[0] = "sending" /\ phase'[1] = phase[1]
      /\ wire' \in [Party -> Seq(Bit \X Bit)]
  BY <1>1, <1>2, <1>3 DEF TypeOK, Party
<1>5. TypeOK'
  BY <1>1, <1>4 DEF TypeOK, Register
<1>6. Exchange'
  BY <1>1, <1>4, MaskedStays DEF Exchange, Answered, Waiting
<1>7. Aligned' /\ InStep'
  BY <1>1, <1>2, <1>4 DEF Aligned, InStep, Answered, Joined, Join, Register
<1> QED BY <1>5, <1>6, <1>7

LEMMA SendReturnsInv == IInv /\ SendReturns => IInv'
<1> SUFFICES ASSUME IInv, SendReturns PROVE IInv'
  OBVIOUS
<1> USE DEF IInv
<1>1. /\ phase[0] = "sending" /\ phase' = [phase EXCEPT ![0] = "receiving"]
      /\ UNCHANGED <<job, seed, size, rendezvous, input, plain, reg, gate, wire>>
  BY DEF SendReturns, Goto, config
<1>2. TypeOK' /\ Waiting /\ Waiting' /\ phase'[1] = phase[1]
  BY <1>1 DEF TypeOK, Register, Waiting, Party
<1>3. Exchange'
  BY <1>1, <1>2, MaskedStays DEF Exchange, Answered
<1>4. Aligned' /\ InStep'
  BY <1>1, <1>2, MaskedStays DEF Aligned, InStep, Answered, Joined, Join, Register
<1> QED BY <1>2, <1>3, <1>4

\* Party 0 does with the answer what it was expected to.
LEMMA ReceiveLastInv == IInv /\ ReceiveLast => IInv'
<1> SUFFICES ASSUME IInv, ReceiveLast PROVE IInv'
  OBVIOUS
<1> USE DEF IInv
<1> DEFINE z == Product(0, Head(wire[0]))
<1>1. /\ Answered /\ phase[0] = "receiving" /\ wire' = [wire EXCEPT ![0] = Tail(@)]
      /\ reg' = [reg EXCEPT ![0] = Updated(@, The(0), z, 1)]
      /\ gate' = [gate EXCEPT ![0] = @ + 1] /\ phase' = [phase EXCEPT ![0] = "ready"]
      /\ UNCHANGED <<job, seed, size, rendezvous, input, plain>>
  BY DEF ReceiveLast, Answered, Compute, Advance, Goto, config
<1>2. PICK m \in Bit \X Bit : wire[0] = <<m>>
  BY <1>1 DEF Exchange
<1>3. Head(wire[0]) \in Bit \X Bit /\ Tail(wire[0]) = <<>> /\ wire[1] = <<>> /\ gate[0] <= Len(Program(job))
  BY <1>1, <1>2 DEF Exchange
<1>4. gate[0] \in 1..Len(Program(job)) /\ Gate(job, The(0)) /\ reg[0] \in [Register(job) -> Bit]
  BY <1>3, Circuits DEF TypeOK, Party, The
<1>5. z \in Bit
  BY <1>3, ProductBit DEF Party
<1> HIDE DEF z
<1>6. Updated(reg[0], The(0), z, 1) \in [Register(job) -> Bit]
  BY <1>4, <1>5, UpdatedType DEF Bit
<1>7. /\ wire'[0] = <<>> /\ wire'[1] = <<>> /\ phase'[0] = "ready" /\ phase'[1] = phase[1]
      /\ gate'[0] = gate[0] + 1 /\ gate'[1] = gate[1]
      /\ reg'[0] = Updated(reg[0], The(0), z, 1) /\ reg'[1] = reg[1]
  BY <1>1, <1>3 DEF TypeOK, Party
<1>8. TypeOK'
  <2>1. reg' \in [Party -> [Register(job) -> Bit]]
    BY <1>1, <1>6 DEF TypeOK
  <2>2. gate' \in [Party -> 1..(Len(Program(job)) + 1)]
    BY <1>1, <1>3, Circuits, Advanced DEF TypeOK, Party
  <2>3. wire' \in [Party -> Seq(Bit \X Bit)]
    <3>1. wire' = [wire EXCEPT ![0] = <<>>]
      BY <1>1, <1>3
    <3>2. <<>> \in Seq(Bit \X Bit)
      OBVIOUS
    <3> QED BY <3>1, <3>2 DEF TypeOK
  <2>4. phase' \in [Party -> {"ready", "sending", "receiving", "answering", "threw"}]
    BY <1>1 DEF TypeOK
  <2> QED BY <1>1, <2>1, <2>2, <2>3, <2>4 DEF TypeOK, Register
<1>9. Exchange'
  BY <1>7 DEF Exchange, Answered, Waiting
<1>10. Aligned'
  BY <1>1, <1>4, <1>7, Circuits DEF Aligned, Answered, TypeOK
<1>11. InStep'
  <2>1. Joined(Updated(reg[0], The(0), z, 1))
    BY <1>1 DEF InStep, z
  <2> QED BY <1>1, <1>7, <2>1 DEF InStep, Answered, Joined, Join, Register
<1> QED BY <1>8, <1>9, <1>10, <1>11

\* Party 1 computes at the gate whose masked bits it received, and answers them.
LEMMA ReceiveFirstInv == IInv /\ ReceiveFirst => IInv'
<1> SUFFICES ASSUME IInv, ReceiveFirst PROVE IInv'
  OBVIOUS
<1> USE DEF IInv
<1> DEFINE g == The(1)
           value(o) == (plain[o.l] + plain[o.r] + o.neg) % 2
           z == value(g.x) * value(g.y)
           z0 == Product(0, Masked(1))
           z1 == Product(1, Masked(0))
<1>1. /\ phase[1] = "ready" /\ wire[1] # <<>> /\ gate[1] <= Len(Program(job))
      /\ phase' = [phase EXCEPT ![1] = "answering"]
      /\ wire' = [p \in Party |-> IF p = 1 THEN Tail(wire[1]) ELSE Append(wire[0], Masked(1))]
      /\ reg' = [reg EXCEPT ![1] = Updated(@, g, Product(1, Head(wire[1])), 0)]
      /\ plain' = Updated(plain, g, z, 1)
      /\ UNCHANGED <<job, seed, size, rendezvous, input, gate>>
  BY Circuits DEF ReceiveFirst, Starts, Finished, Compute, Goto, Evaluated, config, TypeOK, Party
<1>2. /\ Waiting /\ wire[0] = <<>> /\ wire[1] = <<Masked(0)>> /\ gate[0] = gate[1]
      /\ Head(wire[1]) = Masked(0) /\ Tail(wire[1]) = <<>>
  <2>1. Waiting /\ ~Answered /\ wire[1] = <<Masked(0)>>
    BY <1>1 DEF Exchange
  <2>2. gate[0] = gate[1]
    BY <1>1, <2>1 DEF Aligned
  <2> QED BY <2>1, <2>2 DEF Answered
<1>3. /\ 0 \in Party /\ 1 \in Party /\ The(0) = g /\ Gate(job, g) /\ gate[1] \in 1..Len(Program(job))
      /\ reg[0] \in [Register(job) -> Bit] /\ reg[1] \in [Register(job) -> Bit] /\ plain \in [Register(job) -> Bit]
  BY <1>1, <1>2, Circuits DEF TypeOK, Party, The
<1>4. Masked(0) \in Bit \X Bit /\ Masked(1) \in Bit \X Bit
  BY <1>1, <1>2, <1>3, MaskedBits
<1>5. z0 \in Bit /\ z1 \in Bit
  BY <1>1, <1>2, <1>3, <1>4, ProductBit
<1>6. Joined(reg[0])
  BY <1>2 DEF InStep, Answered
<1>7. Xor(z0, z1) = z
  BY <1>1, <1>2, <1>6, ProductsJoin
<1>8. z \in Bit
  BY <1>5, <1>7, XorBit
<1> HIDE DEF z, z0, z1, g
<1>9. Join(job, Updated(reg[0], g, z0, 1), Updated(reg[1], g, z1, 0), Updated(plain, g, z, 1))
  BY <1>3, <1>5, <1>6, <1>7, <1>8, UpdatedJoins DEF Joined
<1>10. /\ wire'[0] = <<Masked(1)>> /\ wire'[1] = <<>> /\ phase'[0] = phase[0] /\ phase'[1] = "answering"
       /\ reg'[0] = reg[0] /\ reg'[1] = Updated(reg[1], g, z1, 0)
  BY <1>1, <1>2, <1>3 DEF TypeOK, z1
<1>11. TypeOK'
  <2>1. Updated(reg[1], g, z1, 0) \in [Register(job) -> Bit] /\ Updated(plain, g, z, 1) \in [Register(job) -> Bit]
    BY <1>3, <1>5, <1>8, UpdatedType DEF Bit
  <2>2. reg' \in [Party -> [Register(job) -> Bit]]
    BY <1>1, <1>2, <2>1 DEF TypeOK, z1
  <2>3. wire' \in [Party -> Seq(Bit \X Bit)]
    <3>1. wire' = [p \in Party |-> IF p = 1 THEN <<>> ELSE <<Masked(1)>>]
      BY <1>1, <1>2
    <3>2. <<Masked(1)>> \in Seq(Bit \X Bit) /\ <<>> \in Seq(Bit \X Bit)
      BY <1>4
    <3> QED BY <3>1, <3>2
  <2>4. phase' \in [Party -> {"ready", "sending", "receiving", "answering", "threw"}]
    BY <1>1 DEF TypeOK
  <2> QED BY <1>1, <2>1, <2>2, <2>3, <2>4 DEF TypeOK, Register
<1>12. Exchange'
  BY <1>1, <1>2, <1>3, <1>4, <1>10 DEF Exchange, Answered, Waiting
<1>13. Aligned'
  BY <1>1, <1>2, <1>10 DEF Aligned, Answered
<1>14. InStep'
  <2>1. Head(wire'[0]) = Masked(1)
    BY <1>10
  <2>2. The(0)' = The(0) /\ \A m : Product(0, m)' = Product(0, m)
    BY <1>1, <1>10, MaskedStays
  <2>3. The(0)' = g /\ Product(0, Head(wire[0]))' = z0
    BY <1>3, <2>1, <2>2 DEF z0
  <2>4. ASSUME NEW f, NEW h, NEW c, f = Updated(reg[0], g, z0, 1), h = reg'[1], c = plain'
        PROVE Join(job, f, h, c)'
    BY <1>1, <1>9, <1>10, <2>4 DEF Join, Register, g, z
  <2>5. Answered'
    BY <1>10 DEF Answered
  <2> QED BY <1>10, <2>3, <2>4, <2>5 DEF InStep, Joined
<1> QED BY <1>11, <1>12, <1>13, <1>14

LEMMA AnswerReturnsInv == IInv /\ AnswerReturns => IInv'
<1> SUFFICES ASSUME IInv, AnswerReturns PROVE IInv'
  OBVIOUS
<1> USE DEF IInv
<1>1. /\ phase[1] = "answering" /\ phase' = [phase EXCEPT ![1] = "ready"] /\ gate' = [gate EXCEPT ![1] = @ + 1]
      /\ UNCHANGED <<job, seed, size, rendezvous, input, plain, reg, wire>>
  BY DEF AnswerReturns, Advance, Goto, config
<1>2. gate[1] \in 1..Len(Program(job))
  BY <1>1, Circuits DEF Aligned, TypeOK, Party
<1>3. phase'[0] = phase[0] /\ phase'[1] = "ready" /\ gate'[0] = gate[0] /\ gate'[1] = gate[1] + 1 /\ gate[0] \in Int
  BY <1>1, Circuits DEF TypeOK, Party
<1>4. TypeOK'
  <2>1. gate' \in [Party -> 1..(Len(Program(job)) + 1)]
    <3>1. gate[1] <= Len(Program(job))
      BY <1>1 DEF Aligned
    <3> QED BY <1>1, <3>1, Circuits, Advanced DEF TypeOK, Party
  <2> QED BY <1>1, <2>1 DEF TypeOK, Register
<1>5. Exchange'
  BY <1>1, <1>3, MaskedStays DEF Exchange, Answered, Waiting
<1>6. Aligned'
  BY <1>1, <1>2, <1>3 DEF Aligned, Answered
<1>7. InStep'
  BY <1>1, <1>3, MaskedStays DEF InStep, Answered, Joined, Register
<1> QED BY <1>4, <1>5, <1>6, <1>7

LEMMA NextInv == IInv /\ [Next]_vars => IInv'
<1> SUFFICES ASSUME IInv, [Next]_vars PROVE IInv'
  OBVIOUS
<1>1. CASE UNCHANGED vars
  BY <1>1 DEF vars, IInv, TypeOK, Exchange, Aligned, InStep, Answered, Waiting, Joined, Join, Register, Masked, Share, The, Product
<1> QED BY <1>1, SendFirstInv, SendReturnsInv, ReceiveLastInv, ReceiveFirstInv, AnswerReturnsInv, ThrowInv DEF Next

LEMMA Invariance == Spec => []IInv
<1> QED BY InitInv, NextInv, PTL DEF Spec

\* Every share stays a bit, and each party at a gate of the circuit.
THEOREM TypeCorrect == Spec => []TypeOK
<1>1. IInv => TypeOK
  BY DEF IInv
<1> QED BY <1>1, Invariance, PTL

\* Between two gates the shares join to what the circuit computes on the joined
\* input, for every circuit, input, sharing and valid triples, over a socket that
\* buffers and one that does not.
THEOREM CircuitsJoin == Spec => []SharesJoin
<1>1. IInv => SharesJoin
  <2> SUFFICES ASSUME IInv, gate[0] = gate[1], phase[1] = "ready", NEW r \in Register(job)
               PROVE Xor(reg[0][r], reg[1][r]) = plain[r]
    BY DEF SharesJoin
  <2>1. gate[0] \in Int /\ ~Answered
    BY Circuits DEF IInv, TypeOK, Aligned, Party
  <2> QED BY <2>1 DEF IInv, InStep, Joined, Join
<1> QED BY <1>1, Invariance, PTL
=============================================================================
