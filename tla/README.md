# Specifications of PSA-for-multiparty (MPSVS)

TLA+ models of the C++ code under `src/volePSI/`, the TLC configurations that check them on small
instances, and proofs that the TLA+ proof system checks for every value of the constants.

1. [The system](#1-the-system) — inventory: parts, state, operations, what is hard
2. [Plan](#2-plan) — modules, order, abstract specifications, runs, theorems
3. [The modules](#3-the-modules) — what each models and how it reads against the code
4. [The runs](#4-the-runs) — what each checks, its bounds and why they are enough
5. [Fairness and deadlock](#5-fairness-and-deadlock)
6. [The proofs](#6-the-proofs)
7. [Where the code and its words differ](#7-where-the-code-and-its-words-differ)
8. [What is not modelled](#8-what-is-not-modelled)

`PROJECT.json` maps every definition to the lines it stands for, and lists components, runs, mutants,
findings, hazards and theorems.

## 1. The system

N data holders want to join their tables on a common identifier and release statistics of the join, and
show no one their rows. The repository holds two generations of an answer: a session over sockets in
which a *service provider* (SP) receives the aligned payloads in a secret order (`Mpsa*`, `Mp*`), and a
pipeline of thirteen phases between two compute servers S1 and S2 that computes on secret shares and
releases noised cells (`Mpsvs*`), with the production services around it (budget, audit log, key store,
channel). They are separate programs that share primitives, not one process: the places where components
meet are few, and are listed with each part.

### Session over sockets

**N-party alignment** — `MpsaDriver`, `RsMpsi`, `RsMpsiVole`, `MpSpHandshake`, `MpHybridHandshake`,
`MpStarSetup`, `MpStarChannel`, `MpShuffleDriver`, `MpsaShuffleIntegrity`.
*State*: per process, its sockets, the payload columns it holds and their masks; at the SP, the claims
of each sender. *Operations*: connect a star and a mesh, optional signatures, key set-up, one of two
intersections, contribution, commitments to the masks, N-1 rounds of permute-and-share, reveal, checks of
column and row sums, the table. *Interaction*: sockets only; each round calls the OSN library between one
sender and the SP. *Hard*: blocking accepts and receives in an order that must meet, flags that must
agree, a party refused or dead in any stage, one wrong permutation among many. *Correct when* what the SP
writes is every sender's contribution in one secret order or nothing (but see section 7 for columns of a
whole sender routed alike), a sound session is refused by nobody, and every process ends.

**Two-party wire circuits** — `MpMpcWire`, `MpMpcWireOps`, `MpMpcWireDriver`.
*State*: per party, a share of every bit, the index of the next triple. *Operations*: AND, OR,
comparison, equality, conditional swap, bitonic sort, cross-product expansion, filter, the join. Each is a
coroutine of one party; the two meet in an exchange of two bits per gate. *Hard*: the parties' order of
sends, keeping in step, the exact number of triples, padding. *Correct when* the shares join to the plain
result, both parties take the triples the cost functions say, and neither waits for ever.

**Joins in one process** — `MpsaJoin*`, `MpJoin*`, `MpMpcJoin`, `MpMpcSort`, `MpObliviousSort`,
`MpMpcArithmetic`: the same sort, window and filter by a trusted party or on shares in one memory. Pure
algorithms. *Hard*: ties with the sentinels of the padding, windows that need `M` rows per party.
*Correct when* the three ways agree with the join of the tables.

**OIRA accountant** — `MpOiraBudget`. *State*: one file per scope with the epsilon spent and the queries
made. *Operations*: check and reserve, peek, reset; any number of processes, locked by `flock`, written in
place. *Hard*: crashes between truncate and write, an unlinked file that is still charged, readers between
two system calls, a name that changes its file between them. *Correct when* an account never grants more
than its caps, no charge is lost or counted twice, and a peek reports an account as it stands.

**OIRA session** — `MpOira` over `upstream/mpso`. N parties: party 0 learns how many ids all sets hold and
the sum of the senders' values of them, with noise. *State*: per party its phase, sockets, shares of an
indicator and a value per bin; at party 0 a cuckoo table; files of prepared correlations. *Operations*:
charge the budget, meet every peer, look party 0's table up at every sender, multiply by a random factor,
shuffle, reveal; all of it twice, for the count and for the sum. *Interaction*: sockets between every two
parties, and the accountant's file. *Hard*: each party decides alone whether to take part; sockets that
block at both ends; indicators and values shuffled apart. *Correct when* what is published is the count
and sum of the sets, only for sessions that are paid for, and nobody waits but behind one that returned.

**Permutation network** (`osn/`): routes a permutation through switches; two parties evaluate it with an
oblivious transfer per switch. **Secret-shared shuffle and its MAC** (`MpCgp*`, `MpMac`, `MpAuthCascade`,
`MpOleAlpha`), **shuffle and bit proofs** (`MpShuffleNizk*`, `MpPedersen*`, `MpsvsBitProof`): pure
algorithms over a field. *Correct when* honest runs pass and what was altered passes for few keys or
challenges. **Identities and sealing** (`MpIdentity`, `MpKem`, `MpStarCrypto`, `MpTranscript`).

### Pipeline

**Key generation and OPRF** — `MpsvsOprf`, `MpsvsTopology` (phases 2 and 3). *State*: at each server its
share and the public values, per client its count of queries and its rows, the SP's transcript.
*Operations*: a four-message key generation, a four-message query, all driven by one topology object.
*Hard*: a step that throws after a server has stored its state, retries, metering before a call that
fails. *Correct when* both servers hold shares of one key, every answer is that key's function of the id
asked for, and no client is answered beyond its cap.

**Statistics** — local preparation (1), alignment (4), inclusion (5), ratio and bucket (6), rank (8),
composite (9), percentiles (10), sector sums (11), each in the clear (`Mpsvs<Phase>`) and on shares
(`Mpsvs<Phase>Wire`). Pure functions of one call each; the wire versions are circuits like those above.
*Correct when* the wire phase computes what the plain one does, at the edges of the fixed-point ranges.

**Authenticated shares** — `MpsvsAuthShare`, `...128`, `...Prod`. Values with a MAC under a shared key;
openings commit before they reveal; triples are sacrificed. *Hard*: even offsets in a ring of a power of
two, order of commit and reveal, and what an abort leaves in the log of several threads. *Correct when* a
share that was moved opens under few keys, and the log is a chain.

**Noise, gate, release** — `MpsvsDp`, `MpsvsDpProd`, `MpsvsDpWire`, `MpsvsKAnonGate`, `MpsvsCoverFirms`,
`MpsvsOpen`, `MpsvsOpenWire` (phases 12, 12.1). Both servers commit to seeds of noise and add it before a
threshold is compared. *Hard*: which fields a suppressed cell still shows, cover firms in the count the
gate compares, threads that share a log. *Correct when* each cell is the noised sum over the entities that
count in it, published once, and every release is charged.

### Services

**Audit log** — `MpsvsAuditPersist` over the chain of `MpsvsProdHygiene`. *State*: a file of
length-prefixed frames, a mirror in memory, an exclusive `flock`. *Operations*: open (replay and verify),
append, close. *Hard*: short writes, failing `fsync`, crashes. *Correct when* what `append` returned is
on disk, the chain never forks, and a file only this code wrote opens.

**Key store** — `MpsvsKeyStore`. *State*: records in memory, a file replaced by rename. *Operations*:
put, get, delete, rotate, zeroise. *Hard*: memory changed before a write that may throw. *Correct when* an
acknowledged change is on disk until the next.

**Secure channel** — `MpsvsSecureChannel`. *State*: per end, keys, frame counters, a closed flag; a pair
of pipes with a condition variable. *Operations*: handshake, send, receive, close. *Correct when* frames
come in order up to a point, a clean end is never mistaken, nobody waits for a peer that has gone.

**Configuration, constants, metrics, in-memory audit** — parsing, ranges, counters.

The hazards this code is exposed to are in `PROJECT.json` under `hazards`, each at its line with the
property that would catch it.

## 2. Plan

Ordered so that the behaviour that depends on interleavings and failures comes first and the pure
algorithms after.

| # | Modules | Abstract specification | Theorems | State |
|---|---|---|---|---|
| 1 | `OiraBudget` | the caps, per account and fault | types, `CapPerFault`, `ExactAccount`, `PeekIsCurrent` | checked, proved |
| 2 | `AuditPersist` | – | types, `ReportedIsDurable`, `NoFork`, `HolderKnowsAll` | checked, proved |
| 3 | `KeyStore` | what a caller was told, per key | types, `AcknowledgedIsOnDisk`, `MemoryIsOnDisk` | checked, proved |
| 4 | `SecureChannel` | – | types, `InOrder`, `FinalMeansAll`, `MutuallyTrusted` | checked, proved |
| 5 | `Oprf` | `IdealOprf` | types, `ServersAgree`, `ServersMetered`, `Implements` | checked, proved |
| 6 | `MpcWire`, `MpcCircuits` | evaluation of the circuit on joined bits | types, `SharesJoin` | checked, proved |
| 7 | `Mpsa` over `Network` | `IdealMpsa` | types, `CascadeShares`, `Implements`; a network shares a column of any height | checked, proved |
| 8 | `AuthShares`, `MacCascade`, `ShuffleProof`, `Noise`, `Release` | `IdealRelease` | `AuditTrail`; cells are settled and charged once; moved counts are withheld; how few keys pass a moved share | checked, partly proved |
| 9 | `SharedWords`, `Alignment`, `Inclusion`, `Statistics`, `StatisticsWire` under `Release` | the phase in the clear, and `IdealRelease` | – (data) | checked |
| 10 | `SharedArithmetic`, `Joins` under `MCMpcWire` | the join of the tables | – (data) | checked |
| 11 | `SetShares`, `Oira`, `OiraSession`, `OiraInvariant` | `IdealOira` | types, the count and the sum are right, `Implements`; what one shuffle and one multiplication leave | checked, proved |

What a further step would take up: that a sacrifice notices triples that are off, in rings of any width, on the
lemmas of `FewKeysPass`; the types of a session of `Release`, once rows get into their bins by an operator the provers
know; and the outputs of `MpcCircuits`, which would have to be written without recursion.

Composition. The pipeline is one chain of modules, each extending the one before:
`SharedWords ← Alignment ← Inclusion ← Statistics ← StatisticsWire ← Noise ← Release ← ReleaseProperties`.
`Release` runs the phases in the order of the end-to-end tests and instantiates `AuthShares` twice (the
ring of the session, and one with bits to spare), `MacCascade` and `ShuffleProof`. `Mpsa` extends
`Network`; `MCMpcWire` puts the circuits of `MpcCircuits` and the joins of `Joins` next to the evaluation
of `MpcWire`; `SetShares` takes its field from `MacCascade`. `Mpsa`, `Oprf`, `Release` and `Oira` each
INSTANCE the abstract specification they implement, over their own variables. `OiraSession` extends `Oira`
with the vectors a whole session comes to, and `OiraInvariant` that with its inductive invariant. The accountant appears in
`Oira` as one atomic step, which is what `OiraBudget` shows a reservation to be while nothing fails. Key
store, audit log, channel and OPRF share no state with one another in the code and are not composed.
`MpcWire` and the other modules with proofs have no recursive operator.

## 3. The modules

Conventions: a `\* Mutant:` definition is a plausible bug, checked to break a property and used by no
specification. Histories (variables no guard reads) are marked so. A bound is a constant named in the
module where it bites.

**`OiraBudget`** (`MpOiraBudget.cpp`). One action per system call of `oiraBudgetCheckAndReserve`: `Open`,
`Lock`, `Read`, then `Refuse`, or `Truncate`, `Write` and `Allow` (fsync, unlock, close). Files are inodes
with or without a name (`linked`), since a call keeps the one it opened across `Reset`. An amount is an
integer; `Stored` is the rounding of `"%.10f"` and `Torn` what a prefix of the line reads back as.
`Crash` and `PowerLoss` keep the page cache or the last fsync. A peek goes system call by system call too:
`PeekStat` (or `PeekMissing`), `PeekOpen` (or `PeekGone`, when a reset came between), `PeekLock`, `PeekRead`
and `PeekReturn`, on the inode it opened. `holder` and `sharers` are the two kinds of `flock`: each waits for
the other, so a peek in its turn keeps a reservation waiting.

**`AuditPersist`** (`MpsvsAuditPersist.cpp`, chain of `MpsvsProdHygiene.cpp`). The file is a header and a
sequence of pieces: whole frames and what a short write left. `Open` is the lock attempt, `WriteHeader`
and `Load` the rest of the constructor, `Write` and `Sync` the two halves of `append` (the mirror and
`last_link_` change in the second), `Close` the destructor. A report stands for its hash; `Frames` is how
many pieces `loadFromDisk` takes for frames when it ends well: all of them, but for a stub at the end.

**`KeyStore`** (`MpsvsKeyStore.cpp`). `Put` and `Delete` change `records_`, `SerialiseThrows`, `WriteTmp`
and `Rename` are the flush. `possible` is the history the property needs: the values a key may have on
disk given which calls returned and which threw. The proofs about the log and the store share a module, hence
`Store` in the names they would have in common (`StoreTypeOK`, `StoreSpec` and the like).

**`SecureChannel`** (`MpsvsSecureChannel.cpp`). Two ends over the in-memory pipe; sends and receives are
separate steps wherever the code makes separate calls, so a peer may close between a frame's length and
its ciphertext. A session key is named by its direction; a ciphertext opens under its key and number only.

**`Oprf`, `IdealOprf`** (`MpsvsOprf.cpp`, `MpsvsTopology.cpp`). One action per message of the key
generation and the query; `Alter` changes a field in flight. Group elements are exponents modulo a small
prime. A proof is the statement it was made for. `IdealOprf` knows one key, a count and a list of answers.

**`MpcWire`, `MpcCircuits`, `MCMpcWire`** (`MpMpcWire.cpp`, `MpMpcWireOps.cpp`, `MpMpcWireDriver.cpp`).
`MpcWire` is the two coroutines on any sequence of AND gates: `SendFirst`, `SendReturns`, `ReceiveLast` of
party 0, `ReceiveFirst`, `AnswerReturns` of party 1, `Throw` when the bag of triples is empty. XOR, NOT
and copies are local and ride on a gate. `CircuitsAssumption` says what a gate is and that a job's program
consists of them; TLC evaluates it for the circuits that are run. `MpcCircuits` builds the gate sequences
with the loops of the code at any bit width and repeats the code's cost functions. `MCMpcWire` lays out
registers and inputs and says what each circuit should compute.

**`SharedArithmetic`, `Joins`** (`MpSecretShare.cpp`, `MpMpcArithmetic.cpp`; `MpsaJoinDriver.cpp`,
`MpJoinExpander.cpp`, `MpJoinFilter.cpp`, `MpsaJoinDriverWire.cpp`, `MpsaJoinMpcDriver.cpp`,
`MpMpcJoin.cpp`, `MpObliviousSort.cpp`, `MpMpcSort.cpp`). Sharings are sequences of shares for any number
of parties; an arithmetic circuit is written on the bits its inputs join to. A join throws or returns rows:
in one process, at the provider on the senders' blobs, and on shares. All three sort with a network that
pads with sentinels, look back over a window of a row per party and filter.

**`Mpsa`, `IdealMpsa`, `MCMpsa`** (`MpsaDriver.cpp` and the files it drives). A party is a sequence of
stages; a stage waits for the messages the code reads there, in order (`Inbox`), computes and sends
(`Move`). Sockets connect pairwise in the order each process opens them (`Links`); `Throw` is a receive
from a party that has gone. A block is a set of atoms with XOR as symmetric difference, so a masked block
is what it is until the mask is taken off; sums of hashes are multisets. `conf.fault` names the one fault
of a session: a forged signature, a death, a mask other than the one committed to, a corrupted block, or
columns routed by another permutation. `IdealMpsa` is a single step: publish the contributions in one
order. It allows a driver to route all of a sender's columns alike by a permutation of their own, because
neither sum sees it (section 7), and nothing weaker. Three assumptions say what a session is: a file lists an id once
(`FileAssumption`), padding and least size are counts (`FlagAssumption`), and a forged signature, a corrupted block
or a misrouted column is met in sessions that have the check which is to catch it (`FaultAssumption`): without
`auth` nobody looks at a signature, and without `integrity` the provider writes whatever the masks give.

**`Network`**, under `Mpsa` (`osn/benes.cpp`, `OSNSender.cpp`, `OSNReceiver.cpp`). A round of the cascade
is the code's: Benes routing of the sender's permutation, switch by switch with its odd sizes, the two
messages of each oblivious switch, and the correction the sides exchange. `Circuit` is the code's recursion as a
function of the number of levels; walking a network is a fold over its switches (`Gates`).

**`SetShares`, `Oira`, `IdealOira`, `MCOira`** (`MpOira.cpp`; `upstream/mpso`: `MPSIC.cpp`, `MPSICS.cpp`,
`PMT.cpp`, the shuffles, the preparation of correlations and triples). `SetShares` is what is computed:
tables, the programmable function, triples, shuffles, over words that are sets of bits. `Oira` is who sends
what to whom in which order, one action per message: `BadArguments`, `Refused` and `Enter` are the checks
before any message; `Meet` opens a socket with both its ends; `AskSender`, `AnswerLabels` and
`TakeFunction` look the table up, `SendMasked` to `TakeProduct` multiply, `ShuffleIn` to `ShuffleOn`
shuffle, `Reveal` to `TakeSums` open, and `Release` adds the noise, clamps the sum to a signed word and fills in the
`OIRAResult`, with the true count and sum whether or not it is released. A party is in phase 1 (count) or 2 (sum).
`IdealOira` knows the sets, the values and the budgets: parties pay, and one result is published. Its `Sum` is
that of the senders' values whatever party 0 passes. `OiraSession`
says, of a session's sets and draws alone and without a step, what each vector is to be; its `NoAccident` is
what a session needs besides for its count to be right, and `Promised` asks too that party 0 pass no values of a
wrong number. A bin that some set misses holds the sum of random words
times a random factor, and seems common when that is 0: the code draws both of 64 bits and leaves it to chance.

**`SharedWords ← Alignment ← Inclusion ← Statistics ← StatisticsWire ← Noise`** are the phases of the
pipeline as operators. `SharedWords` has the words of the wire phases, which wrap, and the circuits on
them. `Alignment`: preparing records (`MpsvsLocalPrep.cpp`), packing rows in bins, the oblivious sort and
windowed merge, shared and clear. `Inclusion`: the flags and metrics of a row under either policy.
`Statistics`: edges, buckets, ranks, composite scores, percentiles, sums by sector, in the clear.
`StatisticsWire`: the same on shared words with the code's comparisons per edge, reciprocals by Goldschmidt
iteration, sort keys, prefix sums and one-hot selections. `Noise`: cover firms, gate, joint noise with its
commitments, threshold release, opening, the tracker of charges.

**`Release`, `ReleaseProperties`, `IdealRelease`, `MCRelease`** put them together. A session packs each
agency's rows (`PackBins`, or `Refuse`, or `NewNonce` when a bin overflows), then aligns (`RunFPsa`),
measures, ranks, composes and sums up (`Aggregate`); then a thread for each cell releases it, by the noisy
threshold or behind the gate with joint noise, and the threads share the log of aborts: a thread reads the
log's link or length before it checks and appends after. `PutForward` presents a forged opening, triple,
moved row or false proof. `ReleaseProperties` has what is checked; `IdealRelease` says what a session may
publish in terms of the agencies' files alone.

**`AuthShares`** (`MpsvsAuthShare*.cpp`), **`ShuffleProof`** (`MpShuffleNizk*.cpp`, `MpPedersenVector.cpp`,
`MpsvsShuffleWire.cpp`, `MpsvsBitProof.cpp`) and **`MacCascade`** (`MpMac.cpp`, `MpAuthCascade.cpp`,
`MpOleAlpha.cpp`, `MpCgpShuffle.cpp`, `MpCgpPreprocess.cpp`) are the algebra with which forgeries are met,
over rings of `ValueBits + StatBits` bits, a group of order `P` and a field of `2^Degree` elements.

The modules `*Proofs` are described in section 6.

## 4. The runs

| Run | Checks | Instance |
|---|---|---|
| `budget` | caps per account and fault, exact accounting of count and epsilon without faults, peeks are current, locks are let go | 2 processes, 2 epsilons, caps 3 and 2, grain 3, 2 inodes, 1 fault |
| `budget_crash` | *violated*: a charge survives a crash | as above, one epsilon, no rounding |
| `disk` | log: returned reports are durable, whoever holds it knows all of it, no fork; store: acknowledged changes are on disk, memory is what a restart would read | one of the two with the other at rest; log: 2 processes, 4 reports, long or not, 2 faults; store: 2 keys, 2 secrets and an oversize one, 4 calls, 2 faults |
| `audit_tampered` | *violated*: "file tampered" only of a file that was | 3 reports, 1 fault |
| `channel` | order, clean end, mutual trust, no end is left waiting | every pair of roles and of trusts, 2 frames per end |
| `oprf` | the servers agree, are metered, and implement `IdealOprf` | group of order 5, 2 clients, 2 ids, cap 2, 2 key generations, 2 altered fields |
| `wire` | shares join, outputs are right, costs exact, both parties end; arithmetic on shares is right and the joins agree with one another (ASSUMEs of `MCMpcWire`) | comparison of 2 bits, equality of 3, sort of 3 elements and a sentinel, joins of 2 rows × 1 id and 1 row × 2 ids; 2 seeds; two kinds of socket; enough triples and one fewer; words of 4 bits shared by 3 parties; joins of 2 and 3 tables |
| `mpsa` | types of the shares, the cascade's invariant, all processes end, implements `IdealMpsa` (a sound session is refused by nobody); networks shuffle and share (ASSUME of `MCMpsa`) | 3 senders, 2 blocks, 24 settings × 4 file sets; networks of 2 to 6 rows |
| `mpsa_align` | *violated*: a row of the table is of one id | the same files, no fault |
| `release` | each entity aligned once, shared phases compute the clear ones, forgeries and false proofs noticed, the log is a chain, implements `IdealRelease` | words of 8 bits, 3 buckets, bins of 2 rows, 2 bins, k = 2; 432 variants of one entity's records and sessions for nonces, threads, ranks, claims |
| `oira` | types, implements `IdealOira`, waits only behind an early return | 3 parties, 2 ids each, 3 bins, words of 3 bits |
| `oira_values` | *violated*: party 0's values are ignored | the same, party 0 passing values of a wrong number |

Why the bounds are enough:

* `budget`: two processes are enough for every race on one lock; caps of 3 and 2 are met by both the
  amount and the count; a grain of 3 rounds up and down; two inodes let a late caller charge an unlinked
  file, and a late peek read one, while a new account fills. The proofs of section 6 hold for all of these.
* `disk`: in `MCDisk` the log runs while the store is at rest, or the store while the log is, since they share
  nothing and each property speaks of one of them. Log: a fault needs a report before it and one
  after it, and a second process a third; the fourth lets both happen twice. Two faults let a torn tail meet a
  failing fsync. Store: two keys distinguish a change from what it leaves alone, two faults reach a failing retry.
* `channel`: frames are numbered, so the third would repeat the second. All sixteen configurations of roles
  and trusts run. Log, store and channel are proved for all bounds.
* `oprf`: with a cap of 2 and up to 3 queries wanted the cap refuses one; two altered fields reach each
  pair of checks; a group of order 5 has non-trivial inverses. Cap 0 (no cap) is not run.
* `wire`: the gates of an n-bit comparison repeat per bit from the second on; three keys of four are the
  least for which the sort pads; the two joins exercise a window of several rows and several windows. The
  arithmetic of the costs is exact at these sizes only. Keys stay below the all-one key (section 7).
* `mpsa`: three senders give the first, a middle and a last role of the cascade; two blocks distinguish
  columns of one sender from columns of two; two common ids are the least the network routes, and the
  other files have one and none. Networks of up to six rows have every kind of node of the recursion: two,
  three, an odd and an even size above. For them every shuffle is tried; a pad to five rows tries one per round.
* `release`: the two entities of `MCFiles` share a sector or do not and share a bin or do not; A has no
  record, a valid or an out-of-range one, or one on a bound, at each agency. Three buckets have a first, a
  middle and a last; words of 8 bits leave the products of `Regular` ratios room and let others wrap. A
  count of 2 is just above or just under k + margin with noise 1 or -1. `MCNonces` overflow a bin once or
  for ever, `MCThreads` have one and two threads that fail among three, `MCRanked` have populations of one
  to three, the padding's key, and rows that not every metric counts. A claim is looked at for every key or
  challenge: rings of 2 bits with 2 to spare, GF(4), GF(5), three rows and two rounds.
* `oira`: three parties give a first, a middle and a last role of the shuffle; three bins for two ids leave one
  empty, and one example runs with each of its cuckoo tables; sets share no, one or both ids;
  budgets are separate, shared, exhausted or absent; each party has bad arguments before the count or
  between it and the sum (party 0's values apart, which are `oira_values`); noise takes the count across 0 and
  across k, and the sum beyond both ends of a signed word. Randomness is a formula of seed,
  place and party, so that a session's data are a function of its configuration: all orders of messages are
  explored for each, not all draws. Seeds are left out under which a bin seems common that is not
  (`NoAccident`: an ASSUME of `MCOira` states `Promised` of all sessions of `oira`), and so is the id zero (section 7).

What the passing properties mean is stated above each of them in the modules. Each has a mutant in
`PROJECT.json` that breaks it under the same configuration.

## 5. Fairness and deadlock

* `OiraBudget!FairSpec`: weak fairness of a call's own steps, a reservation's and a peek's. A process that is
  running runs on; nothing makes it call, reset or fail. `EveryHolderLetsGo` needs no fairness of `flock`: who
  holds a lock, alone or shared, never waits.
* `SecureChannel!FairSpec`: weak fairness of each end's handshake and of a call under way (one thread per
  end). An application need never call, close or drop; `NoEndIsLeftWaiting` speaks of a handshake and of a
  receiver whose peer has gone.
* `MpcWire!FairSpec`: weak fairness of the whole next-state relation, since the two coroutines are run
  until they finish. `Mpsa!FairSpec`: weak fairness of `Run`, which is everything but the death of a
  party: processes that can go on do, and no one need die.
* `Oira!FairSpec`: weak fairness of each party's steps, for each party is a process that runs while it can.
  A `Meet` is a step of both its parties.

`AuditPersist`, `KeyStore`, `Oprf` and `Release` state no fairness and no liveness.

`CHECK_DEADLOCK FALSE` stands in: `channel`, where ends are dropped and gone; `oprf`, where queries and
key generations run out; `wire`, `mpsa` and `mpsa_align`, where the parties finish; `oira`, where they
return or wait behind one that did. That they stop only when they should is what `NoEndIsLeftWaiting`,
`BothEnd`, `AllEnd` and `WaitsOnlyBehindEarlyReturn` say. The others are checked for deadlock. `Release`
may stutter only when a session is `Over`, so the check finds a session that is stuck before.

## 6. The proofs

Eight modules prove theorems for every value of the constants. What they assume is named in the module
that declares the constants (`ConstantsAssumption`, `CircuitsAssumption`, `FramesAssumption`, `PendingAssumption`,
`RhoAssumption`, `ConfsAssumption`, `SetAssumption`, and in `Mpsa` `SizeAssumption`, `FileAssumption`, `FlagAssumption`,
`FaultAssumption`), and TLC evaluates it in every run. Each has one lemma or step per action and an invariant
stronger than what is claimed, because what is claimed is about histories no action looks at.

**`OiraBudgetProofs`** — any processes, epsilons, caps, resolution and bounds, provided they are naturals,
there is an inode, and 0, which stands for "no holder", is not a process. `TypeCorrect`; `CapHolds`:
`CapPerFault`; `AccountIsExact`: `ExactAccount`; `PeeksAreCurrent`: `PeekIsCurrent`. `CapPerFault` is about
what was granted, and the invariant has to say why the file knows it. `Locking`: past `flock` a process has
an open file and is its one holder, so its steps are exclusive. `Checked`: between read and write the file
holds what was read, and the caps were compared with it. `Accounted`: the file, or while it is being
rewritten the state its holder read, covers every grant since the last fault, up to `HalfGrain` for each
charge that was rounded. A fault may forget an account's charges, which is why one more cap is allowed for
each and why the run `budget_crash` can fail. While nothing has failed, `Exact` says more: the file, or
again the state its holder read, agrees with the grants (`Near`: the counts are equal, the epsilons half a grain
per query apart at most, from either side). The grant about to be is one process's at most. A shared lock keeps
writers out as long as it is held, so what a peek has read (`seen`) is still the file's when it returns.

**`DiskProofs`**, about `AuditPersist` — any processes, none of them 0, reports and faults. `TypeCorrect`; `Durability`:
`ReportedIsDurable`; `OneChain`: `NoFork`; `Knowledge`: `HolderKnowsAll`. A fork would come of an opener that
missed a report, so the invariant follows the ids. `Locked`: who is past `flock` is the holder. `Numbered`:
the frames of the file are numbered in its order, each above the one it is chained to, also those a failed
`fsync` left behind. `Durable`: what was returned lies below `synced`, where a power loss does not reach; with
`Numbered`, whoever loads the file ends on a link no earlier than any report returned (`Knows`), and the frame
it appends is chained to that (`Pending`, `Chained`). While nothing has failed the file is whole (`Intact`)
and the mirror holds all of it but a frame not synced yet (`Mirror`).

**`DiskProofs`**, about `KeyStore` — any keys and secrets, provided that `None` is no key and no secret. `StoreTypes`:
`StoreTypeOK`; `StoreDurable`: `AcknowledgedIsOnDisk`; `MemoryFollowsDisk`: `MemoryIsOnDisk`. `Written`: between the temporary
file and its rename the file is what memory is. `UnderWay`: a flush under way is the constructor's, or that
of the key being changed, whose record is already in memory. `Held`: the values a key has in memory and on
disk are among those its caller may expect, unless the object was changed after it was zeroised.

**`SecureChannelProofs`** — any bound on the frames. `TypeCorrect`, `FramesInOrder`: `InOrder`, `CleanEnd`:
`FinalMeansAll`, `Trusted`: `MutuallyTrusted`. `Carried`: what is on its way to an end is a frame that its
peer counts as sent, or the final one of a peer that has closed. `Numbered`: numbers and counts of the
sender agree while the receiver is there to read; `Counted`: what is received is numbered from one to just before
the number expected. `Standing`: who closed calls no more, and who got past the handshake accepted the peer.

**`OprfProofs`** — any group of prime order, clients, ids, caps and bounds. Primality enters as what the code
uses of it: each exponent but 0 has an inverse. `TypeCorrect`, `OneKey`: `ServersAgree`,
`Metering`: `ServersMetered`, and `ImplementsIdeal`: `Spec => Implements`, the refinement of `IdealOprf` step by step. `Shaped`: a message has
the fields its receiver reads. `Making`: what S2 stored is what it proves about the element it got, so S1 accepts
no other key; `Querying`: what the client has verified of S1 is the share's multiple of what it asked.
`Metered`: a query that may still be answered is counted and not answered yet. `Metering` sums over clients, and a
sum is a count here: the grants of all clients are a finite set of pairs (`Grants`), and `Spending` says that the
evaluations of either server are as many as some of them, with one to spare while a query is on its way to it.

**`MpcWireProofs`** — any circuit of the gates that `CircuitsAssumption` describes, every input and sharing,
valid triples, both kinds of socket. `TypeCorrect` and `CircuitsJoin`: `SharesJoin`. `Exchange`: one message
of a gate is under way at a time. `Aligned`: how far apart the parties may be. `InStep`: the shares join to
the circuit on joined bits, once party 0 has done with an answer under way what it will do with it; the step
that answers is Beaver's identity on bits.

**`ReleaseProofs`** — any files, draws and faults, finitely many cells; `Pending` is not `Abandoned`, no charge is 0
(`RhoAssumption`: a deviation is 1 by the root of 2 rho), keys and masks are words (`ConfsAssumption`). `Trail`:
`AuditTrail`, for any number of threads. `Reads`: what a thread took from the log before it checked is a link or a length the log has
had, however many threads have appended since. `Entries`: an entry names a cell that is abandoned, every abandoned
cell has exactly one, and its report hangs on a link that was current by then. Appending keeps the chain because
the two fields of an entry are written in one step under the log's lock, while the report was made before it.
`SettledForGood`: what became of a cell never changes. `Charges`: the budget was charged as often as cells ended
other than abandoned. `MovedCounts` (`Withheld`): a cell whose count was moved is not released unless the key times
the move is 0, and none other is abandoned; it speaks of cells that hold words, which `TypeOK` checks, for the sums
they are made of are a fold over the rows. The invariant `RInv` keeps that a cell is unsettled until its thread
ends, that only a cell of its mode is on its way, and that its count still opens as it did when it was looked at.

`FewKeysPass` is about `AuthShares` itself, with `ValueBits` and `StatBits` as constants of the proof module: a value
of which one party moved its share, and whatever it adds to its sigma, opens under at most `2^(ValueBits - 1)` keys of
a ring of `2^(ValueBits + StatBits)`, that is one in `2^(StatBits + 1)`: half of them for `MpsvsAuthShare`, one in
`2^65` for `MpsvsAuthShare128`. `ForgeriesCaught` counts the same keys in a ring of four bits. `OpensIf`: it opens just
if the ring's size divides the key times the move plus the shift; `SharedPowers`: where that is so for two keys,
their difference has more than `StatBits` factors 2, or the move has `ValueBits`. Powers of 2 are known by the
number of subsets (`PowerDoubles`).

**`MpsaProofs`** — any number of senders from two on, width of a payload, files without repeated ids, flags, faults
and seeds. It has three parts.

1. The network. `NetworkShares`: `RunOsn` leaves two columns whose sum is the input in the order of the sender's
   switches, for any column of two rows or more and any switches and masks. A Benes network is a recursion on
   levels, so `Sound` is shown by induction over them: the switches of `n` levels lie in the box of their levels
   and of half their wires, on different wires each, so no correction is written twice (`CorrectedOnce`). Then a
   fold along the switches keeps that the sender's column and the masks share the input in the order so far
   (`SharesAt`). Induction over the naturals and the equations of recursive functions and folds are derived from the
   well-foundedness of `<` (`Induct`, `Recursion`, `Folding`), not assumed. That routing reaches every
   permutation is not claimed: the cascade is right for whatever order the switches make.
2. `Types`: `TypeOK`, `Invariance` and `Shares`: `CascadeShares`. `Shape`: stages, sockets and the round counter belong
   together. Every step is one of `Quiet` (it changes nobody's data), `Loud` (the provider's) or `LoudOf` (a sender's).
   `Known`: a letter on the way says what it did when it was sent, and once the intersection is told every column is
   as high as it, padded. `Carried`: wherever the two shares of round `r` are — in a letter, or with the provider
   (`LeftAt`) and the driver (`RightAt`) — they join to the contributions in one order (`Mixed`), but for the one
   block of a driver who corrupts, and nobody has those of a round that was not driven (`Waiting`). `CascadeShares`
   looks at the moment the two meet; the invariant has to follow the shares on the way.
3. `Refinement`: `Spec => Implements`, each step one of `IdealMpsa` or none. `RInv` adds `Sworn` (a provider past
   the signatures has seen that all are good), `Agreed` (what either intersection yields is the ids that all
   files list, and a table is written only at the end) and `Opening` (what the openings are checked against is the
   contributions in one order, but for a corrupted block). The step that writes is then the ideal's: sums equal
   to the claims mean the same rows, rows differ because ids do (`CellsApart`), so each sender's are all there in
   one order (`RowOrder`); a corrupted block is in none (`NoGarble`); masks not committed to end the session
   at sender 0 before the cascade (`FineIs`).

**`OiraProofs`** — any number of parties from two on, bits of a word, bins, hashes, draws, cuckoo tables, sets, values,
budgets and refused arguments, as far as `SetAssumption` and `ConfsAssumption` have them typed: a draw is of the width
of a word, an id is not zero, and the table has found room for all of party 0's ids. It has four parts.

1. Words and folds. Words add up without carries or modulo a power of 2 (`Number` and `Word` turn sets of bits into
   numbers and back), multiplication by carries distributes, and a total over the parties does not depend on their order.
2. What the protocol's parts leave. `FisherYatesPermutes`: the order a correlation is prepared with is one, whatever is
   drawn. `LeftTotal`: the parties' shares of a shuffled vector add up to its entries in the order that all parties'
   permutations make together, in both rings, though every party but the last is left with masks made before. `ProductTotal`:
   their shares of a product by the triples add up to the input times the factor. A sender's label, and what party 0
   finds in the sender's function, add up to nothing where the id is in the sender's set, and in `PSICS2` to the sender's
   value of it.
3. `CountIs` and `SumIs`: under `NoAccident` the bins that open to 0 stand for the common ids, one bin each
   (`HitsStandFor`), since a cuckoo table files an id once; so they are as many, and the values of the shuffled bins
   add up to those of the ids, though indicators and values are shuffled by correlations of their own: the two are
   prepared with one order, and the proof has to use that they are.
4. The session. `Invariant` (`Inv` of `OiraInvariant`): in every order of the steps, what is on its way from one party to another is a window of a
   stream that the session's sets and draws determine (`Window`, `Sockets`). `SentUp`, `TakenUp` and their like say, from
   the place of a sender or a receiver, how far it is in its streams, so that a message is what its receiver
   takes it for although nothing in it says so, and the sockets of the sum are not taken for those of the count.
   `Standing`: where a party can be in a phase; `Holding`: a party's vectors are what its place says; `Learning`: party 0
   has found what it asked for, in the order of the kinds; `Counting`: the count and the sum it has so far;
   `Paying`: who is past the first check has paid, and a scope's file has lost as many queries as it was charged. `Types`:
   `TypeOK`. `Refines`: `Implements`, for sets of sessions that are all `Promised`: `NoAccident`, as in part 3, without
   which the count is another, and no wrong number of values at party 0, with which the sum is (`oira_values`). No
   other theorem has that hypothesis. `ReleasePublishes`: what `Release` returns is what `Publish` does, true values and clamp included. `Enter` is the ideal's `Charge`, `Release` its `Publish`, and all else
   changes nothing it sees. At `Release` all parties have paid: what party 0 has taken of a sender's stream, the
   sender has sent, and it sends nothing before it has charged its scope (`AllAgreed`).

Model-checked only:

* liveness and anything about ENABLED, which the provers here do not do: `EveryHolderLetsGo`,
  `NoEndIsLeftWaiting`, `BothEnd`, `AllEnd` (and with it that a sound session is refused by nobody),
  `WaitsOnlyBehindEarlyReturn`.
* what the phases compute from the records: `TypeOK`, `EveryEntityOnce`, `WireIsPlain` and the refinement of
  `IdealRelease`, and the modules under them, whose folds over rows, bins and bits have no reference but another
  formula to compute (and `SelectSeq`, by which rows get into bins, is not known to the provers); triples, proofs
  of shuffles and the cascade's MAC in `ForgeriesCaught` and `ShuffleSound`; `Joins`. `MpcCircuits` is recursive,
  so `OutputRight` and `CostExact` stay with TLC.
* that a routed network makes the permutation it was routed for: `MCMpsa` tries every one of up to six rows.

## 7. Where the code and its words differ

Shown by a run:

* `budget_crash` — a crash or a failed write after `ftruncate` leaves an empty file, which reads as a
  fresh account (`MpOiraBudget.cpp:51`), while the comment at line 143 promises durability across crashes.
* `audit_tampered` — `append` that fails in `fsync` leaves its frame in the file and not in the mirror;
  the next one chains to the same predecessor and the next open reports a tampered file.
* `oira_values` — `MpOira.h:77` says that P_0 ignores `values`, but `MPSICardSumParty` checks their number for
  party 0 too and returns 0 (`MPSICS.cpp:14`): noise around 0 is released as the sum.
* `mpsa_align` — contributions are in the order of each sender's file and are shuffled alike, so a row
  of the output joins payloads of different ids unless all files list the common ids in one order, which
  nothing sorts or checks; the test data are generated in one order.

Met while reading. The models do what the code does; where a property would not hold, its comment or
the configuration says what is left aside.

*Services*

* An audit string longer than 65535 bytes is cut on disk and hashed whole (`MpsvsAuditPersist.cpp:60`): the next
  open calls the file tampered, and so does every later one (`Long`; with `Long = {TRUE}`, `TamperedMeansTampered`
  is violated without a fault).
* A peek reports the file it opened. When the scope is reset between its stat, its open and its lock, that file
  has no name, and another may be the scope's by the time it answers: `PeekIsCurrent` is about the file opened.
  `oiraBudgetPeek` ignores a failing read and reports a fresh scope (`MpOiraBudget.cpp:168`).
* "The backing store remains intact" of `zeroiseMemory` (`MpsvsKeyStore.h:108`), but a put after it
  rewrites the store with the one record (`MpsvsKeyStore.cpp:335`); the model calls that object misused.
* An oversize key record stays in `records_` after the throw, and every later put throws
  (`MpsvsKeyStore.cpp:286`); `SerialiseThrows` models it.
* `closeClean` that throws half way leaves `closed_` false (`MpsvsSecureChannel.cpp:227`); `CloseCipher`.

*Sessions over sockets*

* A sort's sentinel ties with a real all-one key (`MpMpcWireOps.cpp:129`), and a composite key drops the
  high bits of an id (`MpMpcWireDriver.cpp:27`). An id of all ones makes the joins in one process and at the
  provider throw when they pad (`MpObliviousSort.cpp:121`); on shares it is joined as another id. In one
  process, equal keys change places in a descending comparison (`MpObliviousSort.cpp:39`).
* "A-mset-row closes this", says `MpsaShuffleIntegrity.h:96` of columns that are not all permuted alike. It does
  for columns of one sender. A driver who routes all columns of a sender by another permutation changes no column's
  sum and no row's, and the table's rows join payloads of different ids unnoticed: `IdealMpsa` allows it.
* An integrity witness throws on no rows although `MpsaShuffleIntegrity.h` calls an empty column legal;
  a network of one row throws in its constructor. `Mpsa` throws there too, and `IdealMpsa` expects a table
  only of two rows or more.
* `minK` is compared after the intersection has been sent to every sender; only the shuffle is withheld.
* The port check of the driver covers fewer ports than the mesh uses (`MpsaDriver.cpp:1063`).
* The file that caches a network is found by its size alone (`OSNSender.cpp:192`), not by its routing;
  the two-party back end reads it, the driver does not.
* `MpCgpShuffle.h` says of its malicious mode that each party commits to its messages; the code checks the
  dealt correlation only (`MpCgpShuffle.cpp:191`). `oleGf128OverWire` sends both inputs in the clear
  (`MpOleAlpha.cpp:200`).

*OIRA*

* "The FIRST party to refuse causes protocol abort (all N parties must agree to run)" (`MpOira.h:40`); in
  the code a refused party returns and the rest wait in accept or connect, already charged. Hence the
  disjunct of `WaitsOnlyBehindEarlyReturn`, and `Charge` as a step of its own in `IdealOira`.
* A refusal under the threshold says "(true |I| withheld)" and discards the aggregate (`MpOira.cpp:197`);
  `trueCardinality` and `trueAggregate` are filled in by then (138, 170) and returned with it. `MpOira.h:49` has
  them "for testing; would be redacted in prod"; nothing redacts them. `Release` and `IdealOira` have them.
* The noised sum is clamped as a double. 2^63 - 1 is 2^63 there, and converting it back is undefined
  (`MpOira.cpp:211`): `Clamped` takes either end of the word. Sums above 2^53 lose their low bits, which is left out.
* The sum is divided by N - 1 (`MpOira.cpp:167`), which makes it the sum over the intersection only when
  all senders give an id the same value, and the mean of their sums otherwise.
* Party 0's empty bins carry the zero block, which matches a sender's id whose low bits are 0
  (`MPSIC.cpp:60`). Count and sum use one file of triples. Both are noised at the whole epsilon, of which one is
  charged. Senders return from the preparation before party 0 has written its files; a script waits.

*Pipeline*

* `MpsvsAuthShare128.h:175` has a malformed triple pass with 2^-s, `MpsvsAuthShare.h:149` with 2^-64. Sacrifices
  compare the low 64 bits (`MpsvsAuthShare128.cpp:402`) and even offsets pass for half of the challenges,
  which is the bound `ForgeriesCaught` states. `macCheckBatched` draws challenges that may be 0.
* A population of one makes the reciprocal throw, and none at all makes its range search endless
  (`MpsvsGoldschmidtWire.cpp:151`; `MpsvsRatioBucket.cpp:146` for values above 2^63). Dead rows are of sector 0,
  so composite scores need two counted entities in it (`ReciprocalsEnd`).
* The shared percentile takes the floor of its target, the clear one the ceiling (`PercentilesAgree`);
  popkey 255 is dropped and excluded rows get a running rank (`MpsvsRankWire.cpp:211`); a range with minimum 0
  excludes 0 and a maximum of 2^64-1 wraps (`MpsvsInclusionWire.cpp:65`); a ratio above the last edge is in no
  bucket on shares and in the last one in the clear, where a negative gap wraps into it too
  (`MpsvsRatioBucket.h:87`); the alignment's budget fails from 17 bits of bin on
  (`MpsvsAlignmentWire.cpp:26`); the merge ignores periods (`MpsvsAlignment.cpp:135`).
* `openWire` never clamps, although `test_mpsvs_e2e_wire.cpp:210` expects max(0, ...).
  `addJointNoiseCalibrated` of the wire never verifies the commitments. `committed_ok` is "true iff both commits verified"
  (`MpsvsDpProd.h:77`), but is whether the shared log grew (`MpsvsDpProd.cpp:187`), so another thread's abort
  clears it (`AuditTrail` says what holds). The report of `openWithAuditLog` has a link that may be old and
  a time of its own (`MpsvsAuthShareProd.cpp:47`).
* Cover firms count toward the gate's k, and k = 0 behaves as k = 1. `BudgetTracker::spend` refuses
  nothing (`MpsvsDp.h:80`), where `docs/DESIGN.md:279` has releases beyond the budget refused.
* The linear shuffle proof never looks at the second list: it holds for shuffles and refuses none.

## 8. What is not modelled

* Cryptography as such: a signature, seal, commitment or proof is taken for what it stands for; a hash
  does not collide; secrecy is not a property of any run.
* `Mpsa`: ports and addresses; a party that dies before its sockets are up (`MpsaDriver.cpp:170`: an accept
  has no timeout, the rest wait for ever); processes started with different flags (the hazard at `MpsaDriver.cpp:240`); a file with an id twice
  (the simple-hash back end would count it as two senders, `RsMpsi.cpp:96`); the inside of the
  two-party intersections, and of the silent oblivious transfer a network's switches can be taken from; the
  logged noisy cardinality and the signed transcript.
* `Oira`: preparation files that are missing or of another size; a process that dies; the commitment to party
  0's set, which is logged only. The encoding of the programmable function (`PaxosImpl.h`) is what it
  answers.
* `KeyStore`: two processes on one store (the header asks for one), and a power loss, where the file
  system decides what an unsynced rename leaves (`MpsvsKeyStore.cpp:140`).
* `AuditPersist`: a header lost to a power loss; strings other than too long or not.
* `Oprf`: row tags and bins, the provisioning of triples and the two audits of `MpsvsTopology`.
* `Release`: standard deviations and the sampling of noise, which is a draw from a small set; the
  coroutines of each wire phase, which are circuits of the gates of `MpcWire`, computed on joined words.
* The parts marked `not_modelled` in `PROJECT.json`, each with its reason: sealing and identities,
  configuration, metrics, the two-party front end (`fileBased.cpp`). Of the vendored protocols, MPSU, the
  two-party VOLE intersection, GMW and the Paxos encoding are left out: they are other programs' cores, which
  the repository's own code calls through a narrow interface or not at all. Demos, tests and the build have no
  state.
