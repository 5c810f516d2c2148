-------------------------------- MODULE Oira --------------------------------
(* A session of src/volePSI/MpOira.cpp: every party reserves budget on its own,
   then all count the common ids (upstream/mpso/mpso/MPSIC.cpp) and sum the senders'
   values of them (MPSICS.cpp) over sockets each pair opens anew for each of the
   two, and party 0 adds noise and publishes. Sockets buffer and keep the order;
   the reservation is one step, as OiraBudget shows it to be without faults. *)
EXTENDS SetShares

CONSTANTS
  Confs,       \* the sessions looked at
  NoResult     \* a model value: nothing is published yet

VARIABLES
  conf,        \* the session: seed, sets, values, cuckoo table, scopes, room, bad arguments
  files,       \* what the preparation has left on the parties' disks
  room,        \* per scope: how many queries its file still allows
  charged,     \* history: who has charged its scope
  early,       \* history: who has returned before the session was over
  pc,          \* per party: what it does next
  phase,       \* per party: 1 while it counts, 2 while it sums
  met,         \* per party: how many peers it has a socket with
  chan,        \* per pair: the messages on their way
  asked, learned,  \* at party 0, per sender: tables sent, and what has been looked up
  share,       \* per party: its shares of the bins' indicators
  item,        \* per party: its shares of the bins' values
  card, bits, agg,   \* at party 0: the count, the indicators, the sum
  result       \* what party 0 returns, an OIRAResult

\* Random words are drawn of the width of a word.
Drawn(seed, p, i) ==
  /\ \A what \in {"a", "factor", "c", "psic", "psics1"} : Draw(seed, what, p, i) \in Element
  /\ \A pair \in {"psi", "psics1", "psics2"}, part \in {"D", "B", "C"} : Draw(seed, pair \o part, p, i) \in Element
  /\ \A what \in {"psic", "psics1", "psics2"}, part \in {"a", "p", "b"} : Draw(seed, what \o part, p, i) \in Element
  /\ \A kind \in {"PSI", "PSICS1", "PSICS2"}, part \in {"label", "junk"} : Draw(seed, kind \o part, p, i) \in Element
\* A session of the types the code gives it, whose cuckoo table has found room for all ids.
Typed(c) ==
  /\ \A p \in Party, i \in Bin : Drawn(c.seed, p, i)
  /\ \A p \in Party : c.set[p] \subseteq DOMAIN HashTo /\ IsFiniteSet(c.set[p])
  /\ \A q \in Sender : c.value[q] \in [DOMAIN HashTo -> Nat]
  /\ c.table \in Cuckoos(c.set[0])
  /\ c.room \in [DOMAIN c.room -> Nat] /\ \A p \in Party : c.scope[p] \in DOMAIN c.room \cup {"none"}
  /\ c.kAnon \in Nat /\ c.noise \subseteq Int
ASSUME ConfsAssumption == \A c \in Confs : Typed(c)

vars == <<conf, files, room, charged, early, pc, phase, met, chan, asked, learned, share, item, card, bits, agg, result>>
found == <<asked, learned, card, bits, agg, result>>
vectors == <<share, item>>
history == <<conf, files, room, charged, early>>

Scope(p) == conf.scope[p]
None == "none"   \* config.budget is nullptr
\* Mutant: each party starts with the peer after it.
NeighbourFirst(p) == (p + 1 + met[p]) % N
\* Sockets are opened in the order of the peers' numbers.
NextPeer(p) == IF met[p] < p THEN met[p] ELSE met[p] + 1

Kinds(k) == IF k = 1 THEN <<"PSI">> ELSE <<"PSICS1", "PSICS2">>

Init ==
  /\ conf \in Confs /\ files = Prepared(conf.seed) /\ room = conf.room /\ charged = {} /\ early = {}
  /\ pc = [p \in Party |-> "start"] /\ phase = [p \in Party |-> 1] /\ met = [p \in Party |-> 0]
  /\ chan = [c \in Party \X Party |-> <<>>]
  /\ asked = [q \in Sender |-> 0] /\ learned = [q \in Sender |-> <<>>]
  /\ share = [p \in Party |-> Zeros] /\ item = [p \in Party |-> Zeros]
  /\ card = 0 /\ bits = {} /\ agg = 0 /\ result = NoResult

At(p, here) == pc[p] = here
Goto(p, there) == pc' = [pc EXCEPT ![p] = there]
Waiting(p, q) == chan[<<p, q>>] # <<>>
First(p, q) == Head(chan[<<p, q>>])
Send(p, q, m) == chan' = [chan EXCEPT ![<<p, q>>] = Append(@, m)]
Take(p, q) == chan' = [chan EXCEPT ![<<p, q>>] = Tail(@)]
TakeAndSend(p, q, r, m) == chan' = [[chan EXCEPT ![<<p, q>>] = Tail(@)] EXCEPT ![<<q, r>>] = Append(@, m)]
\* Party 0 takes one message of every sender, and answers each with the same.
EveryoneWaits == \A q \in Sender : Waiting(q, 0)
Gathered(ring) == TotalOf(ring, [q \in Sender |-> First(q, 0)], Sender)
TakeAll(reply) ==
  chan' = [c \in Party \X Party |->
             IF c[2] = 0 /\ c[1] # 0 THEN Tail(chan[c])
             ELSE IF c[1] = 0 /\ c[2] \in DOMAIN reply THEN Append(chan[c], reply[c[2]]) ELSE chan[c]]
Nobody == [q \in {} |-> 0]
Everybody(m) == [q \in Sender |-> m]
-----------------------------------------------------------------------------
\* Arguments that make no sense are refused before anything is charged.
BadArguments(p) ==
  /\ At(p, "start") /\ conf.bad[p] = "args" /\ Goto(p, "returned") /\ early' = early \cup {p}
  /\ UNCHANGED <<conf, files, room, charged, phase, met, chan, vectors, found>>
\* oiraBudgetCheckAndReserve refuses: the party returns, and tells nobody.
Refused(p) ==
  /\ At(p, "start") /\ conf.bad[p] # "args" /\ Scope(p) # None /\ room[Scope(p)] = 0
  /\ Goto(p, "returned") /\ early' = early \cup {p}
  /\ UNCHANGED <<conf, files, room, charged, phase, met, chan, vectors, found>>
Enter(p) ==
  /\ At(p, "start") /\ conf.bad[p] # "args" /\ Goto(p, "meet")
  /\ IF Scope(p) = None THEN UNCHANGED <<room, charged>>
     ELSE /\ room[Scope(p)] > 0 /\ room' = [room EXCEPT ![Scope(p)] = @ - 1]
          /\ charged' = charged \cup {p}
  /\ UNCHANGED <<conf, files, early, phase, met, chan, vectors, found>>

\* asioConnect: one end accepts and the other connects, each waiting for the other.
Meet(p, q) ==
  /\ p < q /\ At(p, "meet") /\ At(q, "meet") /\ NextPeer(p) = q /\ NextPeer(q) = p
  /\ met' = [met EXCEPT ![p] = @ + 1, ![q] = @ + 1]
  /\ pc' = [r \in Party |-> IF r \in {p, q} /\ met'[r] = N - 1 THEN "lookup" ELSE pc[r]]
  /\ UNCHANGED <<history, phase, chan, vectors, found>>

\* Party 0 has a thread for each sender: it sends its table and takes the function,
\* twice in the second phase.
AskSender(q) ==
  LET kinds == Kinds(phase[0]) IN
  /\ At(0, "lookup") /\ asked[q] = Len(learned[q]) /\ asked[q] < Len(kinds)
  /\ asked' = [asked EXCEPT ![q] = @ + 1]
  /\ Send(0, q, DiffC(conf.table, files.vole[kinds[asked'[q]]][q].recv))
  /\ UNCHANGED <<history, pc, phase, met, vectors, learned, card, bits, agg, result>>
Label(kind, q) == [b \in Bin |-> Draw(conf.seed, kind \o "label", q, b)]
\* opprfSendPSI64 leaves a sender with the labels as its shares of the indicators,
\* opprfSendPSICS64 with its shares of the values.
AnswerLabels(q, kind) ==
  LET label == Label(kind, q) IN
  /\ At(q, IF kind = "PSICS2" THEN "lookup2" ELSE "lookup") /\ Waiting(0, q)
  /\ kind \in ToSet(Kinds(phase[q]))
  /\ IF kind = "PSICS2"
     THEN /\ TakeAndSend(0, q, 0, OkvsOfValues(InsertItems(conf.set[q]), files.vole[kind][q].send, First(0, q), label, conf.value[q]))
          /\ item' = [item EXCEPT ![q] = label] /\ UNCHANGED share
     ELSE /\ TakeAndSend(0, q, 0, OkvsOfLabels(InsertItems(conf.set[q]), files.vole[kind][q].send, First(0, q), label))
          /\ share' = [share EXCEPT ![q] = label] /\ UNCHANGED item
  /\ Goto(q, IF kind = "PSICS1" THEN "lookup2" ELSE "multiply")
  /\ UNCHANGED <<history, phase, met, found>>
\* What has been looked up is summed when all threads are joined.
TakeFunction(q) ==
  LET kinds == Kinds(phase[0])
      kind == kinds[asked[q]]
      here == Learned(First(q, 0), conf.table, files.vole[kind][q].recv, [b \in Bin |-> Draw(conf.seed, kind \o "junk", q, b)])
      all == [learned EXCEPT ![q] = Append(@, here)]
      sum(ring, n) == TotalOf(ring, [r \in Sender |-> all[r][n]], Sender)
  IN
  /\ At(0, "lookup") /\ asked[q] > Len(learned[q]) /\ Waiting(q, 0) /\ Take(q, 0)
  /\ IF \A r \in Sender : Len(all[r]) = Len(kinds)
     THEN /\ share' = [share EXCEPT ![0] = sum("xor", 1)]
          /\ item' = IF phase[0] = 1 THEN item ELSE [item EXCEPT ![0] = sum("add", 2)]
          /\ asked' = [r \in Sender |-> 0] /\ learned' = [r \in Sender |-> <<>>] /\ Goto(0, "multiply")
     ELSE learned' = all /\ UNCHANGED <<asked, pc, vectors>>
  /\ UNCHANGED <<history, phase, met, card, bits, agg, result>>
-----------------------------------------------------------------------------
\* beaverTripleMulOnline64: the masked inputs meet at party 0.
SendMasked(q) ==
  /\ At(q, "multiply") /\ q # 0 /\ Goto(q, "product") /\ Send(q, 0, MaskedInput(files.triple, q, share[q]))
  /\ UNCHANGED <<history, phase, met, vectors, found>>
AddMasked ==
  LET sum == PlusAll(MaskedInput(files.triple, 0, share[0]), Gathered("xor")) IN
  /\ At(0, "multiply") /\ EveryoneWaits /\ TakeAll(Everybody(sum)) /\ Goto(0, "shuffle")
  /\ share' = [share EXCEPT ![0] = Product(files.triple, 0, sum)]
  /\ UNCHANGED <<history, phase, met, item, found>>
TakeProduct(q) ==
  /\ At(q, "product") /\ Waiting(0, q) /\ Take(0, q) /\ Goto(q, "shuffle")
  /\ share' = [share EXCEPT ![q] = Product(files.triple, q, First(0, q))]
  /\ UNCHANGED <<history, phase, met, item, found>>

\* runXOR of the indicators and, in the second phase, runADD of the values after it.
Shuffling(p) == pc[p] \in {"shuffle", "shuffleItems"}
Ring(p) == IF At(p, "shuffle") \/ At(p, "pass") THEN "xor" ELSE "add"
Correlation(p) == IF phase[p] = 1 THEN files.psic ELSE IF Ring(p) = "xor" THEN files.psics1 ELSE files.psics2
Data(p) == IF Ring(p) = "xor" THEN share[p] ELSE item[p]
Leave(p, data) ==
  /\ IF Ring(p) = "xor" THEN share' = [share EXCEPT ![p] = data] /\ UNCHANGED item
     ELSE item' = [item EXCEPT ![p] = data] /\ UNCHANGED share
  /\ Goto(p, IF Ring(p) = "xor" /\ phase[p] = 2 THEN "shuffleItems" ELSE "reveal")
ShuffleIn(q) ==
  /\ Shuffling(q) /\ q # 0 /\ Send(q, 0, ToFirst(Ring(q), Correlation(q), q, Data(q)))
  /\ Goto(q, IF Ring(q) = "xor" THEN "pass" ELSE "passItems")
  /\ UNCHANGED <<history, phase, met, vectors, found>>
ShuffleFirst ==
  LET ring == Ring(0) IN
  /\ Shuffling(0) /\ EveryoneWaits
  /\ TakeAll([q \in {1} |-> FromFirst(ring, Correlation(0), AddAll(ring, Gathered(ring), Data(0)))])
  /\ Leave(0, Kept(ring, Correlation(0), 0))
  /\ UNCHANGED <<history, phase, met, found>>
ShuffleOn(q) ==
  LET ring == Ring(q) sc == Correlation(q) z == First(q - 1, q) IN
  /\ pc[q] \in {"pass", "passItems"} /\ Waiting(q - 1, q)
  /\ IF q < N - 1 THEN TakeAndSend(q - 1, q, q + 1, HandOn(ring, sc, q, z)) /\ Leave(q, Kept(ring, sc, q))
     ELSE Take(q - 1, q) /\ Leave(q, LastShare(ring, sc, z))
  /\ UNCHANGED <<history, phase, met, found>>
-----------------------------------------------------------------------------
\* The sockets of the count are closed and those of the sum opened, unless the
\* number of values is wrong: MPSICardSumParty then returns at once.
SecondPhase(p) ==
  /\ phase' = [phase EXCEPT ![p] = 2] /\ met' = [met EXCEPT ![p] = 0]
  /\ IF conf.bad[p] = "values"
     THEN early' = early \cup {p} /\ Goto(p, IF p = 0 THEN "release" ELSE "returned")
     ELSE UNCHANGED early /\ Goto(p, "meet")
Reveal(q) ==
  /\ At(q, "reveal") /\ q # 0 /\ Send(q, 0, share[q])
  /\ IF phase[q] = 1 THEN SecondPhase(q) ELSE Goto(q, "bits") /\ UNCHANGED <<early, phase, met>>
  /\ UNCHANGED <<conf, files, room, charged, vectors, found>>
\* A bin whose indicator is 0 is in every set: they are counted, and in the second
\* phase named to the senders.
Hits == LET joint == PlusAll(share[0], Gathered("xor")) IN {b \in Bin : joint[b] = {}}
\* Mutant: the sum does not wrap.
ItemsAtWide(p, B) == FoldSet(LAMBDA b, n : n + Number(item[p][b]), 0, B)
ItemsAt(p, B) == FoldSet(LAMBDA b, n : n + Number(item[p][b]), 0, B) % 2^Degree
Reconstruct ==
  /\ At(0, "reveal") /\ EveryoneWaits
  /\ IF phase[0] = 1
     THEN /\ card' = Cardinality(Hits) /\ TakeAll(Nobody) /\ SecondPhase(0)
          /\ UNCHANGED <<bits, agg>>
     ELSE /\ bits' = Hits /\ agg' = ItemsAt(0, Hits) /\ TakeAll(Everybody(Hits)) /\ Goto(0, "sums")
          /\ UNCHANGED <<card, phase, met, early>>
  /\ UNCHANGED <<conf, files, room, charged, vectors, asked, learned, result>>
SumUp(q) ==
  /\ At(q, "bits") /\ Waiting(0, q) /\ TakeAndSend(0, q, 0, ItemsAt(q, First(0, q))) /\ Goto(q, "returned")
  /\ UNCHANGED <<history, phase, met, vectors, found>>
TakeSums ==
  /\ At(0, "sums") /\ EveryoneWaits /\ TakeAll(Nobody) /\ Goto(0, "release")
  /\ agg' = FoldSet(LAMBDA q, n : n + First(q, 0), agg, Sender) % 2^Degree
  /\ UNCHANGED <<history, phase, met, vectors, asked, learned, card, bits, result>>

\* The noised count is never negative and decides; the sum is divided by the senders.
NoisyCount(noise) == IF card + noise < 0 THEN 0 ELSE card + noise
\* The noised sum is a double, clamped to the range of a signed word. Its upper end is
\* one more as a double, and converting that back is undefined: x86 gives the lower
\* end, other builds the upper one.
SignedMin == -(2^(Degree - 1))
SignedMax == 2^(Degree - 1) - 1
Clamped(x) == IF x < SignedMin THEN {SignedMin} ELSE IF x > SignedMax THEN {SignedMin, SignedMax} ELSE {x}
\* The true count and sum are in the result whether or not it is released.
Release(cardNoise, aggNoise) ==
  LET count == NoisyCount(cardNoise) mean == agg \div (N - 1) IN
  /\ At(0, "release") /\ Goto(0, "returned")
  /\ \E noised \in Clamped(mean + aggNoise) :
       result' = [released |-> count >= conf.kAnon, noisyCardinality |-> count,
                  noisyAggregate |-> IF count >= conf.kAnon THEN noised ELSE 0,
                  trueCardinality |-> card, trueAggregate |-> mean]
  /\ UNCHANGED <<history, phase, met, chan, vectors, asked, learned, card, bits, agg>>

Step(p) ==
  \/ BadArguments(p) \/ Refused(p) \/ Enter(p) \/ \E q \in Party : Meet(p, q) \/ Meet(q, p)
  \/ p = 0 /\ (\E q \in Sender : AskSender(q) \/ TakeFunction(q))
  \/ p = 0 /\ (AddMasked \/ ShuffleFirst \/ Reconstruct \/ TakeSums)
  \/ p = 0 /\ \E cardNoise, aggNoise \in conf.noise : Release(cardNoise, aggNoise)
  \/ p # 0 /\ \E kind \in {"PSI", "PSICS1", "PSICS2"} : AnswerLabels(p, kind)
  \/ p # 0 /\ (SendMasked(p) \/ TakeProduct(p) \/ ShuffleIn(p) \/ ShuffleOn(p) \/ Reveal(p) \/ SumUp(p))
Next == \E p \in Party : Step(p)
\* Every party is a process that runs while it can.
Spec == Init /\ [][Next]_vars
FairSpec == Spec /\ \A p \in Party : WF_vars(Step(p))
-----------------------------------------------------------------------------
Words == SUBSET (0..(Degree - 1))
Places == {"start", "meet", "lookup", "lookup2", "multiply", "product", "shuffle", "pass", "shuffleItems",
           "passItems", "reveal", "bits", "sums", "release", "returned"}
\* The state is what the code's variables can hold: a count of bins, a sum that wraps
\* at Degree bits, and never more on its way to a sender than it has asked for.
TypeOK ==
  /\ \A p \in Party : pc[p] \in Places /\ phase[p] \in 1..2 /\ met[p] \in 0..(N - 1)
  /\ charged \subseteq Party /\ early \subseteq Party /\ \A s \in DOMAIN room : room[s] \in Nat
  /\ \A q \in Sender : asked[q] \in 0..2 /\ Len(learned[q]) <= asked[q]
  /\ \A c \in DOMAIN chan : Len(chan[c]) <= 2
  /\ share \in [Party -> [Bin -> Words]] /\ item \in [Party -> [Bin -> Words]]
  /\ card \in 0..Bins /\ bits \subseteq Bin /\ agg \in 0..(2^Degree - 1)

\* What oiraAggregate returns to party 0 is the noised count of the ids all sets hold
\* and the noised sum of the senders' values of these, no noised sum under the
\* threshold, and the true count and sum besides; only once every party that has a
\* budget has paid from it, in every order of the steps.
Ideal == INSTANCE IdealOira
Implements == Ideal!Spec

\* "P_0 ignores `values` -- it doesn't contribute to the aggregate, only receives it"
\* (MpOira.h:77): the sum is that of the senders' values whatever party 0 passes.
\* MPSICardSumParty refuses party 0's values too when their number is wrong, and the
\* sum is then 0.
PartyZeroIgnoresValues == result # NoResult => result.trueAggregate = Ideal!Sum

\* All parties return, unless one of them has returned before the session was over:
\* the sockets are opened in an order without a cycle, and nobody waits for a message
\* that is not sent. A party refused its budget tells nobody, and the rest wait.
WaitsOnlyBehindEarlyReturn == <>((\A p \in Party : At(p, "returned")) \/ early # {})
=============================================================================
