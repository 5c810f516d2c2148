------------------------------- MODULE Mpsa -------------------------------
(* A session of the N-party private set alignment: src/volePSI/MpsaDriver.cpp,
   with its intersection (RsMpsi.cpp, RsMpsiVole.cpp), its key set-up
   (MpSpHandshake, MpHybridHandshake, MpStarSetup, MpStarChannel), the shuffle
   cascade (MpShuffleDriver.cpp) and the checks of MpsaShuffleIntegrity.cpp.

   N senders and a service provider are processes joined by sockets. A party is a
   sequence of stages: each reads what it waits for, in the order the code reads
   it, computes, and sends. A 16-byte block is a set of atoms and XOR is symmetric
   difference, so a sum of unknown terms is zero only when they cancel. Sealing a
   message is not modelled: what a socket delivers is what was sent. The permute
   network (osn/) is that of Network: the driver of a round gets the provider's
   columns permuted and masked, the provider the masks' other end. *)
EXTENDS Network

CONSTANTS
  N,         \* senders
  W,         \* blocks in a payload
  Confs,     \* flags of a session: auth, salted, vole, integrity, pad, minK, and its fault
  Inputs,    \* per sender: the ids of its file, in the order of its rows
  Seeds(_, _), \* per round and height: the draws its seed may give
  NoTable

ASSUME SizeAssumption == N \in Nat /\ N >= 2 /\ W \in Nat \ {0}

SP == N
Sender == 0 .. N-1
Party == 0 .. N
Column == Sender \X (1..W)

\* A file lists an id once; padding and the least size are counts.
ASSUME FileAssumption ==
  \A f \in Inputs : DOMAIN f = Sender /\ \A i \in Sender : f[i] \in Seq(ToSet(f[i])) /\ IsInjective(f[i])
ASSUME FlagAssumption == \A c \in Confs : c.pad \in Nat /\ c.minK \in Nat
\* A party at fault is one, and the session has the check that is to catch it.
ASSUME FaultAssumption ==
  \A c \in Confs :
    /\ c.fault[1] = "forges" => c.auth /\ c.fault \in {"forges"} \X Party
    /\ c.fault[1] = "reopens" => c.fault \in {"reopens"} \X (1..(N-1))
    /\ c.fault[1] = "garbles" => c.integrity /\ c.fault \in {"garbles"} \X (0..(N-2))
    /\ c.fault[1] = "misroutes" => c.integrity

VARIABLES
  conf, csv,
  linked,    \* per party: how many of its sockets are connected
  stage,     \* per party: what it is doing
  wire,      \* per direction of a socket: messages sent and not read
  cand,      \* the provider's candidates for the intersection
  rows,      \* per sender: c_i, the rows it contributes
  claims,    \* the provider's: the sums each sender committed to
  bound,     \* sender 0's: the masks the others committed to
  share,     \* per party: its share of every column of the cascade, or nothing
  round,     \* the provider's: the round of the intersection or the cascade
  table      \* what the provider has written
vars == <<conf, csv, linked, stage, wire, cand, rows, claims, bound, share, round, table>>
data == <<cand, rows, claims, bound, share, round, table>>
-----------------------------------------------------------------------------
\* Blocks, columns and permutations.
Block(kind, owner, k, c) == {<<kind, owner, k, c[1], c[2]>>}
Fresh(kind, owner, height, cols) == [c \in cols |-> [k \in 1..height |-> Block(kind, owner, k, c)]]
XorColumns(f, g) == [c \in DOMAIN f |-> [k \in DOMAIN f[c] |-> Xor(f[c][k], g[c][k])]]
Own(i) == {i} \X (1..W)
\* What a routed network does to each column.
Permute(f, dest) == [c \in DOMAIN f |-> [k \in DOMAIN f[c] |-> f[c][dest[c][k]]]]

\* The elements of a sequence at some of its positions, in their order.
Kept(seq, positions) ==
  [k \in 1..Cardinality(positions) |-> seq[CHOOSE n \in positions : Cardinality({m \in positions : m <= n}) = k]]

\* The sums of hashes stand for the multisets they are sums over.
Tally(seq) == [x \in ToSet(seq) |-> Cardinality({k \in DOMAIN seq : seq[k] = x})]
RowsOf(f, i, height) == [k \in 1..height |-> [w \in 1..W |-> f[<<i, w>>][k]]]
Sums(f, i, height) ==
  [columns |-> [w \in 1..W |-> Tally(f[<<i, w>>])], row |-> Tally(RowsOf(f, i, height))]
-----------------------------------------------------------------------------
\* Sockets. Each end opens its own in one order, and an open waits for the other
\* end. The two sockets of an OSN round are opened one after the other and only
\* the first carries data.
Star(p, q) == <<"star", p, q>>
Mesh(p, q) == <<"mesh", p, q>>
Osn(k) == <<"osn", k, SP>>
Reveal == <<"reveal", N-1, SP>>
Channel == {Star(SP, i) : i \in Sender} \cup {Star(i, SP) : i \in Sender}
  \cup {Mesh(p[1], p[2]) : p \in {q \in Sender \X Sender : q[1] # q[2]}} \cup {Osn(k) : k \in 0..(N-2)} \cup {Reveal}
Pair(kind, p, q) == [kind |-> kind, ends |-> {p, q}]
AcceptsFirst(i) == [n \in 1..(N-1-i) |-> Pair("mesh", i, i+n)] \o [n \in 1..i |-> Pair("mesh", n-1, i)]
MeshLinks(i) == [n \in 1..i |-> Pair("mesh", n-1, i)] \o [n \in 1..(N-1-i) |-> Pair("mesh", i, i+n)]
LateLink(i) == IF i < N-1 THEN Pair("osn", i, SP) ELSE Pair("reveal", i, SP)
Links(p) == IF p = SP
  THEN [n \in 1..N |-> Pair("star", n-1, SP)] \o [n \in 1..N |-> LateLink(n-1)]
  ELSE <<Pair("star", p, SP)>> \o MeshLinks(p) \o <<LateLink(p)>>
Linked(p) == linked[p] = Len(Links(p))
\* A sender opens its last socket after the salt has gone round.
AtLink(p, l) ==
  /\ ~Linked(p) /\ Links(p)[linked[p] + 1] = l
  /\ (p # SP /\ l = LateLink(p)) => stage[p] = "session"
Connect(p, q) ==
  /\ \E l \in {Links(p)[n] : n \in DOMAIN Links(p)} : AtLink(p, l) /\ AtLink(q, l)
  /\ linked' = [linked EXCEPT ![p] = @ + 1, ![q] = @ + 1]
  /\ UNCHANGED <<conf, csv, stage, wire, data>>
-----------------------------------------------------------------------------
\* What a stage reads: a sequence of channels with the kind of message on each.
From(senders, is) == [n \in DOMAIN senders |-> [on |-> Star(senders[n], SP), is |-> is]]
Everyone == [n \in 1..N |-> n-1]
Peers(i) == [n \in 1..(N-1) |-> IF n <= i THEN n-1 ELSE n]
FromPeers(i, peers, is) == [n \in DOMAIN peers |-> [on |-> Mesh(peers[n], i), is |-> is]]
One(ch, is) == <<[on |-> ch, is |-> is]>>
Committers(i) == IF i = 0 THEN Peers(0) ELSE Tail(Peers(i))

SpInbox ==
  [signatures |-> From(Everyone, "signature"), keys |-> From(Everyone, "key"),
   hashes |-> From(Everyone, "set"), seed |-> From(<<0>>, "set"),
   cascade |-> From(<<round>>, "psi"), masked |-> From(Everyone, "masked"),
   round |-> One(Osn(round), "osn"), reveal |-> One(Reveal, "columns"),
   openings |-> From(Everyone, "opening")]
SenderInbox(i) ==
  [salt |-> IF i = 0 THEN <<>> ELSE One(Mesh(0, i), "salt"),
   session |-> One(Star(SP, i), "session"), spsig |-> One(Star(SP, i), "spsig"),
   spkey |-> One(Star(SP, i), "spkey"), hashing |-> One(Star(SP, i), "aesKey"),
   psi |-> One(Star(SP, i), "candSize"), result |-> One(Star(SP, i), "result"),
   peerKeys |-> FromPeers(i, Peers(i), "peerKey"),
   peerCommits |-> FromPeers(i, Committers(i), "commit"),
   opens |-> FromPeers(i, Committers(i), "open"),
   turn |-> IF i = 0 THEN <<>> ELSE One(Mesh(i-1, i), "handoff")]
Over(p) == stage[p] \in {"done", "failed"}
Inbox(p) ==
  LET all == IF p = SP THEN SpInbox ELSE SenderInbox(p)
  IN  IF stage[p] \in DOMAIN all THEN all[stage[p]] ELSE <<>>
Has(m) == wire[m.on] # <<>> /\ Head(wire[m.on]).is = m.is
Arrived(p) == \A n \in DOMAIN Inbox(p) : Has(Inbox(p)[n])
Got(p, n) == Head(wire[Inbox(p)[n].on]).val
At(p, s) == stage[p] = s /\ Arrived(p) /\ (IF s = "salt" THEN linked[p] >= N ELSE Linked(p))
-----------------------------------------------------------------------------
\* A stage ends: its messages are taken, its own go out in order. A send to a party
\* that is gone may throw, and a party that dies may do so half way.
Msg(ch, is, val) == [on |-> ch, is |-> is, val |-> val]
Dest(m) == m.on[3]
Sent(out, ch) == Kept(out, {n \in DOMAIN out : out[n].on = ch})
Dying(p) == conf.fault = <<"dies", p>> /\ Linked(p)
Move(p, out, next) ==
  LET read == {Inbox(p)[n].on : n \in DOMAIN Inbox(p)} IN
  \E sent \in Prefixes(out) :
    /\ Len(sent) < Len(out) => Over(Dest(out[Len(sent) + 1])) \/ Dying(p)
    /\ stage' = [stage EXCEPT ![p] = IF Len(sent) = Len(out) THEN next ELSE "failed"]
    /\ wire' = [ch \in Channel |-> (IF ch \in read THEN Tail(wire[ch]) ELSE wire[ch]) \o Sent(sent, ch)]
    /\ UNCHANGED <<conf, csv, linked>>
ToSenders(is, val) == [n \in 1..N |-> Msg(Star(SP, n-1), is, val)]
When(flag, out) == IF flag THEN out ELSE <<>>

\* A receive from a party that is gone throws, once what it sent is read.
Stop(p) == stage' = [stage EXCEPT ![p] = "failed"] /\ UNCHANGED <<conf, csv, linked, wire, data>>
Missing(n, p) == ~Has(Inbox(p)[n]) /\ \A m \in 1..(n-1) : Has(Inbox(p)[m])
Throw(p) ==
  /\ ~Over(p) /\ Linked(p)
  /\ \/ \E n \in DOMAIN Inbox(p) : Missing(n, p) /\ Over(Inbox(p)[n].on[2])
     \/ stage[p] = "drive" /\ Over(SP)
  /\ Stop(p)
Die(p) == Dying(p) /\ ~Over(p) /\ Stop(p)
-----------------------------------------------------------------------------
\* The provider, runSpRole.
Genuine(p) == conf.fault # <<"forges", p>>
AskKeys == ToSenders("spkey", 0)
Greet ==
  /\ At(SP, "greet")
  /\ Move(SP, ToSenders("session", 0) \o (IF conf.auth THEN ToSenders("spsig", Genuine(SP)) ELSE AskKeys),
          IF conf.auth THEN "signatures" ELSE "keys")
  /\ UNCHANGED data
Signatures ==
  /\ At(SP, "signatures")
  /\ IF \A n \in 1..N : Got(SP, n) THEN Move(SP, AskKeys, "keys") ELSE Move(SP, <<>>, "failed")
  /\ UNCHANGED data
Keys ==
  /\ At(SP, "keys")
  /\ IF conf.vole THEN Move(SP, <<>>, "seed") ELSE Move(SP, ToSenders("aesKey", 0), "hashes")
  /\ UNCHANGED data

\* The intersection is told to the senders before its size is compared with minK.
Tell(common) ==
  /\ cand' = common
  /\ Move(SP, ToSenders("result", common), IF Cardinality(common) < conf.minK THEN "failed" ELSE "masked")

\* RsMpsi3rdPReceiver: an id is common when the files hold it N times in all.
Occurrences(id) == Cardinality(UNION {{<<n, k>> : k \in {j \in DOMAIN Got(SP, n) : Got(SP, n)[j] = id}} : n \in 1..N})
SeenByAll == {id \in UNION {ToSet(Got(SP, n)) : n \in 1..N} : Occurrences(id) = N}
Hashes == At(SP, "hashes") /\ Tell(SeenByAll) /\ UNCHANGED <<rows, claims, bound, share, round, table>>

\* RsMpsiVoleReceiver: sender 0's set, cut down by a two-party intersection with
\* each of the others in turn.
AskPsi(i) == <<Msg(Star(SP, i), "candSize", 0)>>
Seed ==
  /\ At(SP, "seed") /\ cand' = ToSet(Got(SP, 1)) /\ round' = 1
  /\ Move(SP, AskPsi(1), "cascade")
  /\ UNCHANGED <<rows, claims, bound, share, table>>
Cascade ==
  /\ At(SP, "cascade")
  /\ LET matched == cand \cap ToSet(Got(SP, 1)) IN
     IF round = N-1 THEN Tell(matched) /\ round' = 0
     ELSE /\ cand' = matched /\ round' = round + 1
          /\ Move(SP, AskPsi(round + 1), "cascade")
  /\ UNCHANGED <<rows, claims, bound, share, table>>

Height(common) == Max({Cardinality(common), conf.pad})
Masked ==
  /\ At(SP, "masked")
  /\ claims' = [i \in Sender |-> Got(SP, i+1).claim]
  /\ share' = [share EXCEPT ![SP] = [c \in Column |-> Got(SP, c[1]+1).columns[c]]]
  /\ Move(SP, <<>>, "round")
  /\ UNCHANGED <<cand, rows, bound, round, table>>

\* runSp: a round of the cascade, and the reveal.
Round ==
  /\ At(SP, "round")
  /\ share' = [share EXCEPT ![SP] = Got(SP, 1)] /\ round' = round + 1
  /\ Move(SP, <<>>, IF round + 1 = N-1 THEN "reveal" ELSE "round")
  /\ UNCHANGED <<cand, rows, claims, bound, table>>
Revealed ==
  /\ At(SP, "reveal")
  /\ LET shuffled == XorColumns(share[SP], Got(SP, 1)) IN
     IF conf.integrity
     THEN share' = [share EXCEPT ![SP] = shuffled] /\ Move(SP, <<>>, "openings") /\ UNCHANGED table
     ELSE table' = shuffled /\ Move(SP, <<>>, "done") /\ UNCHANGED share
  /\ UNCHANGED <<cand, rows, claims, bound, round>>

\* verifySenderIntegrity and verifySenderRowIntegrity: the opening is what was
\* committed to, and so are the sums over the sender's shuffled columns.
VerifiedColumns(i) ==
  Got(SP, i+1) = claims[i] /\ Sums(share[SP], i, Height(cand)).columns = claims[i].columns
Verified(i) ==
  Got(SP, i+1) = claims[i] /\ Sums(share[SP], i, Height(cand)) = claims[i]
Openings ==
  /\ At(SP, "openings")
  /\ IF \A i \in Sender : Verified(i)
     THEN table' = share[SP] /\ Move(SP, <<>>, "done")
     ELSE UNCHANGED table /\ Move(SP, <<>>, "failed")
  /\ UNCHANGED <<cand, rows, claims, bound, share, round>>
-----------------------------------------------------------------------------
\* A sender, runSenderRole.
Salt(i) ==
  /\ At(i, "salt")
  /\ Move(i, When(i = 0, [j \in 1..(N-1) |-> Msg(Mesh(0, j), "salt", 0)]), "session")
  /\ UNCHANGED data
Session(i) == At(i, "session") /\ Move(i, <<>>, IF conf.auth THEN "spsig" ELSE "spkey") /\ UNCHANGED data
SpSig(i) ==
  /\ At(i, "spsig")
  /\ IF Got(i, 1) THEN Move(i, <<Msg(Star(i, SP), "signature", Genuine(i))>>, "spkey")
                  ELSE Move(i, <<>>, "failed")
  /\ UNCHANGED data
SendSet(i, is) == <<Msg(Star(i, SP), is, csv[i])>>
SpKey(i) ==
  /\ At(i, "spkey")
  /\ Move(i, <<Msg(Star(i, SP), "key", 0)>> \o When(conf.vole /\ i = 0, SendSet(i, "set")),
          IF ~conf.vole THEN "hashing" ELSE IF i = 0 THEN "result" ELSE "psi")
  /\ UNCHANGED data
Hashing(i) == At(i, "hashing") /\ Move(i, SendSet(i, "set"), "result") /\ UNCHANGED data
Psi(i) == At(i, "psi") /\ Move(i, SendSet(i, "psi"), "result") /\ UNCHANGED data

\* c_i: the payloads of the common ids in the order of the file, zero blocks where
\* the file has fewer of them than there are, dummies up to the padded height.
Mine(i, common) == Kept(csv[i], {n \in DOMAIN csv[i] : csv[i][n] \in common})
ContributionUnpadded(i, common) ==
  LET mine == Mine(i, common) IN
  [c \in Own(i) |-> [k \in 1..Cardinality(common) |-> Block("payload", i, mine[k], c)]]
Contribution(i, common) ==
  LET mine == Mine(i, common) IN
  [c \in Own(i) |-> [k \in 1..Height(common) |->
     IF k > Cardinality(common) THEN Block("dummy", i, k, c)
     ELSE IF k <= Len(mine) THEN Block("payload", i, mine[k], c) ELSE {}]]
Mask(i, height) == Fresh("mask", i, height, Own(i))

\* pedersenCommit throws on the sum of no rows.
Result(i) ==
  /\ At(i, "result")
  /\ LET common == Got(i, 1)
         c == Contribution(i, common)
         m == [claim |-> IF conf.integrity THEN Sums(c, i, Height(common)) ELSE <<>>,
               columns |-> XorColumns(c, Mask(i, Height(common)))]
     IN  IF conf.integrity /\ Height(common) = 0
         THEN Move(i, <<>>, "failed") /\ UNCHANGED rows
         ELSE /\ rows' = [rows EXCEPT ![i] = c]
              /\ Move(i, <<Msg(Star(i, SP), "masked", m)>>
                         \o [n \in 1..(N-1) |-> Msg(Mesh(i, Peers(i)[n]), "peerKey", 0)], "peerKeys")
  /\ UNCHANGED <<cand, claims, bound, share, round, table>>
MyHeight(i) == Len(rows[i][<<i, 1>>])

\* Senders other than 0 commit to their masks, to all; then open them, to sender 0.
PeerKeys(i) ==
  /\ At(i, "peerKeys")
  /\ Move(i, When(i > 0, [n \in 1..(N-1) |-> Msg(Mesh(i, Peers(i)[n]), "commit", Mask(i, MyHeight(i)))]),
          "peerCommits")
  /\ UNCHANGED data
Opened(i) == IF conf.fault = <<"reopens", i>> THEN Fresh("other", i, MyHeight(i), Own(i))
                                              ELSE Mask(i, MyHeight(i))
PeerCommits(i) ==
  /\ At(i, "peerCommits")
  /\ bound' = IF i = 0 THEN [n \in 1..(N-1) |-> Got(0, n)] ELSE bound
  /\ Move(i, When(i > 0, <<Msg(Mesh(i, 0), "open", Opened(i))>>), IF i = 0 THEN "opens" ELSE "turn")
  /\ UNCHANGED <<cand, rows, claims, share, round, table>>
Opens ==
  /\ At(0, "opens")
  /\ IF \A n \in 1..(N-1) : Got(0, n) = bound[n]
     THEN /\ share' = [share EXCEPT ![0] = [c \in Column |->
               IF c[1] = 0 THEN Mask(0, MyHeight(0))[c] ELSE Got(0, c[1])[c]]]
          /\ Move(0, <<>>, "drive")
     ELSE UNCHANGED share /\ Move(0, <<>>, "failed")
  /\ UNCHANGED <<cand, rows, claims, bound, round, table>>

\* runSender: take over the masks; drive a round; the last sender reveals them.
ShowSums(i) == When(conf.integrity, <<Msg(Star(i, SP), "opening", Sums(rows[i], i, MyHeight(i)))>>)
Turn(i) ==
  /\ At(i, "turn") /\ i > 0
  /\ share' = [share EXCEPT ![i] = IF i < N-1 THEN Got(i, 1) ELSE <<>>]
  /\ IF i < N-1 THEN Move(i, <<>>, "drive")
     ELSE Move(i, <<Msg(Reveal, "columns", Got(i, 1))>> \o ShowSums(i), "done")
  /\ UNCHANGED <<cand, rows, claims, bound, round, table>>

\* A driver at fault routes some columns by another permutation, or corrupts a block.
Drawn(k) == {Shuffled(MyHeight(k), l) : l \in Seeds(k, MyHeight(k))}
Routing(k) ==
  LET good == {[c \in Column |-> d] : d \in Drawn(k)} IN
  IF conf.fault[1] = "misroutes" /\ conf.fault[2] = k
  THEN {[c \in Column |-> IF c \in conf.fault[3] THEN e ELSE d] : d, e \in Drawn(k)}
  ELSE good
Received(k, delta) ==
  IF conf.fault = <<"garbles", k>>
  THEN {[delta EXCEPT ![c][1] = Xor(@, {<<"noise", k, 1, c[1], c[2]>>})] : c \in Column}
  ELSE {delta}
\* Every column goes through a network of its own. M becomes the masks' other end,
\* R the network's outputs with the driver's own share, permuted alike, folded in.
Networks(k, dest) ==
  [c \in Column |-> RunOsn(Switches(dest[c]), <<k, c[1], c[2]>>, share[SP][c])]
HandedUnpermuted(dest, out, R) == XorColumns(out, R)
Handed(dest, out, R) == XorColumns(out, [c \in Column |-> Permuted(Switches(dest[c]), R[c])])
\* A network of fewer than two rows has no levels: Benes::initialize throws.
Drive(k) ==
  /\ At(k, "drive") /\ stage[SP] = "round" /\ round = k
  /\ IF MyHeight(k) < 2 THEN Move(k, <<>>, "failed") /\ UNCHANGED share
     ELSE \E dest \in Routing(k) :
       LET osn == Networks(k, dest)
           out == [c \in Column |-> osn[c].sender]
           delta == [c \in Column |-> osn[c].receiver] IN
       /\ share' = [share EXCEPT ![k] = <<>>]
       /\ \E got \in Received(k, delta) :
            Move(k, <<Msg(Osn(k), "osn", got),
                      Msg(Mesh(k, k+1), "handoff", Handed(dest, out, share[k]))>>
                    \o ShowSums(k), "done")
  /\ UNCHANGED <<cand, rows, claims, bound, round, table>>
-----------------------------------------------------------------------------
Init ==
  /\ conf \in Confs /\ csv \in Inputs
  /\ linked = [p \in Party |-> 0]
  /\ stage = [p \in Party |-> IF p = SP THEN "greet" ELSE IF conf.salted THEN "salt" ELSE "session"]
  /\ wire = [ch \in Channel |-> <<>>]
  /\ cand = {} /\ rows = [i \in Sender |-> <<>>] /\ claims = <<>> /\ bound = <<>>
  /\ share = [p \in Party |-> <<>>] /\ round = 0 /\ table = NoTable

SpNext == Greet \/ Signatures \/ Keys \/ Hashes \/ Seed \/ Cascade \/ Masked \/ Round \/ Revealed \/ Openings
SenderNext(i) ==
  \/ Salt(i) \/ Session(i) \/ SpSig(i) \/ SpKey(i) \/ Hashing(i) \/ Psi(i) \/ Result(i)
  \/ PeerKeys(i) \/ PeerCommits(i) \/ (i = 0 /\ Opens) \/ Turn(i) \/ Drive(i)
Run == SpNext \/ (\E i \in Sender : SenderNext(i)) \/ (\E p, q \in Party : p < q /\ Connect(p, q))
  \/ \E p \in Party : Throw(p)
Next == Run \/ \E p \in Party : Die(p)
Spec == Init /\ [][Next]_vars
FairSpec == Spec /\ WF_vars(Run)
-----------------------------------------------------------------------------
\* The types of the state: every share and contribution spans the padded height.
Stages == {"greet", "signatures", "keys", "hashes", "seed", "cascade", "masked", "round", "reveal",
  "openings", "salt", "session", "spsig", "spkey", "hashing", "psi", "result", "peerKeys",
  "peerCommits", "opens", "turn", "drive", "done", "failed"}
Spans(f, cols) ==
  f = <<>> \/ (DOMAIN f = cols /\ \A c \in cols : DOMAIN f[c] = 1..Height(cand))
TypeOK ==
  /\ stage \in [Party -> Stages] /\ \A p \in Party : linked[p] \in 0..Len(Links(p))
  /\ DOMAIN wire = Channel /\ \A ch \in Channel : \A n \in DOMAIN wire[ch] : wire[ch][n].on = ch
  /\ round \in 0..(N-1) /\ \A p \in Party : Spans(share[p], Column)
  /\ \A i \in Sender : Spans(rows[i], Own(i))
  /\ table = NoTable \/ Spans(table, Column)

\* "M_k[c] XOR R_k[c] = composed-shuffle-so-far applied to c_c" for one shuffle of
\* all the columns, whenever the provider and the driver of the next round meet.
Joined == [c \in Column |-> rows[c[1]][c]]
Orders(height) == {d \in [1..height -> 1..height] : IsInjective(d)}
CascadeShares ==
  (stage[SP] = "round" /\ stage[round] = "drive" /\ conf.fault[1] \notin {"misroutes", "garbles"}) =>
    \E d \in Orders(Height(cand)) :
      XorColumns(share[SP], share[round]) = Permute(Joined, [c \in Column |-> d])

\* The provider writes one table of the contributions in one secret order (whole
\* senders in orders of their own when a driver routes them so), or none: the
\* promise of IdealMpsa, whatever dies, is corrupted or is refused.
Ideal == INSTANCE IdealMpsa
Implements == Ideal!Spec

\* "each row is N comma-separated hex-encoded 16-byte blocks (one per sender's
\* payload at that intersection row, all permuted by the same secret pi)": the
\* payloads in a row of the table are of one id.
RowsAreOfOneId == table # NoTable =>
  \A k \in 1..Ideal!Height : \A x, y \in UNION {table[c][k] : c \in Column} :
    (x[1] = "payload" /\ y[1] = "payload") => x[3] = y[3]

\* Nobody waits for ever: every process ends, by finishing or by throwing. A session
\* in which nothing goes wrong, with an intersection that the flags allow and the
\* network can route, is refused by nobody.
NothingWrong == conf.fault = <<"none">> /\ Ideal!Height >= 2 /\ Cardinality(Ideal!Common) >= conf.minK
AllEnd == <>(\A p \in Party : Over(p) /\ (NothingWrong => stage[p] # "failed"))
=============================================================================
