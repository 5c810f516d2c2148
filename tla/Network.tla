------------------------------ MODULE Network ------------------------------
(* The permutation network of src/volePSI/osn: Benes routing (benes.cpp), and the
   two sides of an oblivious switch at every place of it (OSNSender.cpp,
   OSNReceiver.cpp), which give the sides shares of the receiver's column in the
   order that the sender chose. A block is a set of atoms and XOR is symmetric
   difference. Sequences start at 1 where the code's vectors start at 0. *)
EXTENDS Integers, Sequences, FiniteSets, SequencesExt, FiniteSetsExt

Xor(a, b) == SymDiff(a, b)
XorPair(x, y) == <<Xor(x[1], y[1]), Xor(x[2], y[2])>>
Swapped(xs, i, j) == [xs EXCEPT ![i] = xs[j], ![j] = xs[i]]
-----------------------------------------------------------------------------
\* init_wj_seeded: a Fisher-Yates shuffle; draws[i] is where position i is swapped to.
Draws(size) == {l \in [2..size -> 1..size] : \A i \in 2..size : l[i] <= i}
Shuffled(size, draws) == FoldLeft(LAMBDA d, i : Swapped(d, i, draws[i]), [i \in 1..size |-> i], SetToSortSeq(2..size, >))
Routings(size) == {Shuffled(size, l) : l \in Draws(size)}

\* Places of switches: a level and an index in it.
TwoTo[n \in Nat] == IF n = 0 THEN 1 ELSE 2 * TwoTo[n - 1]
LogCeil(size) == CHOOSE n \in 0..size : TwoTo[n] >= size /\ \A k \in 0..(n - 1) : TwoTo[k] < size
Levels(size) == 2 * LogCeil(size) - 1
Places(size) == (0..(Levels(size) - 1)) \X (0..(size \div 2 - 1))
\* The one switch of two elements is at the middle level.
MiddleLevel(n, lvl) == IF n = 1 THEN lvl ELSE lvl + 1

\* The other element of a pair, and of a switch's two the one that goes up or down.
Partner(i) == IF i % 2 = 1 THEN i + 1 ELSE i - 1
Chosen(xs, k, b) == xs[2 * k - 1 + b]
\* DFS, gen_benes_route: path[i] is the half input i goes through, 0 the lower one.
\* The two inputs of a pair take different halves, and so do those whose outputs are
\* a pair; an odd last element goes through the upper half at both ends.
Path(perm) ==
  LET size == Len(perm)
      inverse == [i \in 1..size |-> CHOOSE k \in 1..size : perm[k] = i]
      odd == size % 2 = 1
      fixed == IF odd THEN {size, perm[size]} ELSE {}
      across(i) == perm[Partner(inverse[i])]
      step(i) == IF Partner(i) \in fixed THEN i ELSE across(Partner(i))
      lower(start) == LET walk[k \in 0..size] == IF k = 0 THEN start ELSE step(walk[k - 1]) IN {walk[k] : k \in 0..size}
      first == IF odd /\ perm[size] # size THEN lower(across(size)) ELSE {}
      lows == FoldLeft(LAMBDA s, i : IF i \in s \cup fixed \/ Partner(i) \in s THEN s ELSE s \cup lower(i),
                       first, [i \in 1..size |-> i])
  IN [i \in 1..size |-> IF i \in lows THEN 0 ELSE 1]

\* gen_benes_route: the switches that are on, of a network from src to dest with n
\* levels on either side of its middle, placed from lvl and idx on.
RouteThree(lvl, idx, src, dest) ==
  {<<lvl + k, idx>> : k \in
    CASE src[1] = dest[1] -> IF src[2] = dest[2] THEN {} ELSE {1}
      [] src[1] = dest[2] -> IF src[2] = dest[1] THEN {2} ELSE {1, 2}
      [] src[1] = dest[3] -> IF src[2] = dest[1] THEN {0, 1} ELSE {0, 1, 2}}
Route[n \in Nat, lvl \in Nat, idx \in Nat, src \in Seq(Nat), dest \in Seq(Nat)] ==
  LET size == Len(src)
      pairs == size \div 2
      perm == [k \in 1..size |-> CHOOSE i \in 1..size : src[i] = dest[k]]
      path == Path(perm)
      enters == [k \in 1..pairs |-> path[2 * k - 1]]
      leaves == [k \in 1..pairs |-> path[perm[2 * k - 1]]]
      spareIn == IF size % 2 = 1 THEN <<src[size]>> ELSE <<>>
      spareOut == IF size % 2 = 1 THEN <<dest[size]>> ELSE <<>>
  IN CASE size = 2 -> IF src[1] # dest[1] THEN {<<MiddleLevel(n, lvl), idx>>} ELSE {}
       [] size = 3 -> RouteThree(lvl, idx, src, dest)
       [] OTHER ->
            {<<lvl, idx + k - 1>> : k \in {k \in 1..pairs : enters[k] = 1}}
            \cup {<<lvl + 2 * n - 2, idx + k - 1>> : k \in {k \in 1..pairs : leaves[k] = 1}}
            \cup Route[n - 1, lvl + 1, idx, [k \in 1..pairs |-> Chosen(src, k, enters[k])],
                       [k \in 1..pairs |-> Chosen(dest, k, leaves[k])]]
            \cup Route[n - 1, lvl + 1, idx + size \div 4, [k \in 1..pairs |-> Chosen(src, k, 1 - enters[k])] \o spareIn,
                       [k \in 1..pairs |-> Chosen(dest, k, 1 - leaves[k])] \o spareOut]
\* gen_benes_route and return_gen_benes_switches of a whole network.
Switches(dest) == Route[LogCeil(Len(dest)), 0, 0, [i \in 1..Len(dest) |-> i], dest]
-----------------------------------------------------------------------------
\* gen_benes_eval: the switches in the order they act, each on the two elements at
\* its wires. The lower half of a network is on the first wire of each pair, the
\* upper one on the second, and an odd last wire is the upper half's.
Row(lvl, idx, wires) == [k \in 1..(Len(wires) \div 2) |-> [at |-> <<lvl, idx + k - 1>>, on |-> <<wires[2 * k - 1], wires[2 * k]>>]]
Circuit[n \in Nat] == [lvl \in Nat |-> [idx \in Nat |-> [wires \in Seq(Nat) |->
  LET size == Len(wires)
      pairs == size \div 2
      half(b) == [k \in 1..pairs |-> Chosen(wires, k, b)]
      spare == IF size % 2 = 1 THEN <<wires[size]>> ELSE <<>>
      lower == Circuit[n - 1][lvl + 1][idx][half(0)]
      upper == Circuit[n - 1][lvl + 1][idx + size \div 4][half(1) \o spare]
  IN CASE n > 0 /\ size = 2 -> Row(MiddleLevel(n, lvl), idx, wires)
       [] n > 0 /\ size = 3 -> Row(lvl, idx, wires) \o Row(lvl + 1, idx, Tail(wires)) \o Row(lvl + 2, idx, wires)
       [] n > 0 /\ size > 3 -> Row(lvl, idx, wires) \o lower \o upper \o Row(lvl + 2 * n - 2, idx, wires)
       [] OTHER -> <<>>]]]
Gates(size) == Circuit[LogCeil(size)][0][0][[i \in 1..size |-> i]]

Ends(xs, g) == <<xs[g.on[1]], xs[g.on[2]]>>
Put(xs, g, x) == [xs EXCEPT ![g.on[1]] = x[1], ![g.on[2]] = x[2]]
Turned(x, isOn) == IF isOn THEN <<x[2], x[1]>> ELSE x
\* permuteBlocks.
Permuted(switches, column) ==
  FoldLeft(LAMBDA xs, g : Put(xs, g, Turned(Ends(xs, g), g.at \in switches)), column, Gates(Len(column)))
\* gen_benes_masked_evaluate: every switch adds its pads on the way.
MaskedEvaluate(switches, pads, column) ==
  FoldLeft(LAMBDA xs, g : Put(xs, g, Turned(XorPair(Ends(xs, g), pads[g.at]), g.at \in switches)), column, Gates(Len(column)))
\* prepare_correction: what the masks m become behind every switch, and for its
\* other message what the sender must add to it when the switch is on.
Prepare(messages, s, g) ==
  LET m == Ends(s.masks, g)
      w == XorPair(messages[g.at][1], m)
  IN [masks |-> Put(s.masks, g, w),
      corrections |-> [s.corrections EXCEPT ![g.at] = XorPair(XorPair(messages[g.at][2], m), <<w[2], w[1]>>)]]
Unprepared(masks) == [masks |-> masks, corrections |-> [p \in Places(Len(masks)) |-> <<{}, {}>>]]
PrepareCorrection(messages, masks) ==
  FoldLeft(LAMBDA s, g : Prepare(messages, s, g), Unprepared(masks), Gates(Len(masks)))
-----------------------------------------------------------------------------
\* The oblivious transfers: a block r of a message makes the pair <<r, AES(r)>>, and
\* the sender receives the one that its switch chooses.
Message(fresh, p, b) == <<{<<"ot">> \o fresh \o <<p[1], p[2], b>>}, {<<"aes">> \o fresh \o <<p[1], p[2], b>>}>>
Messages(fresh, size) == [p \in Places(size) |-> <<Message(fresh, p, 0), Message(fresh, p, 1)>>]
Transferred(messages, switches) == [p \in DOMAIN messages |-> messages[p][IF p \in switches THEN 2 ELSE 1]]
\* gen_benes_server_osn: a switch that is on has its message corrected.
Corrected(received, corrections, switches) ==
  [p \in DOMAIN received |-> IF p \in switches THEN XorPair(corrections[p], received[p]) ELSE received[p]]

\* run_osn of both sides: the receiver's input under masks goes to the sender, who
\* walks it through the network; the receiver is left with the masks' other end.
InputMasks(fresh, size) == [i \in 1..size |-> {<<"in">> \o fresh \o <<i>>}]
RunOsn(switches, fresh, input) ==
  LET size == Len(input)
      masks == InputMasks(fresh, size)
      messages == Messages(fresh, size)
      prepared == PrepareCorrection(messages, masks)
      pads == Corrected(Transferred(messages, switches), prepared.corrections, switches)
  IN [sender |-> MaskedEvaluate(switches, pads, [i \in 1..size |-> Xor(input[i], masks[i])]),
      receiver |-> prepared.masks]
=============================================================================
