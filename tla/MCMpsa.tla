------------------------------ MODULE MCMpsa ------------------------------
(* Three senders with payloads of two blocks: the flags of the driver, one at a
   time and together, with every fault the driver has an answer to, over files
   whose common ids are in one order, in different orders, too few or none. *)
EXTENDS Mpsa

None == <<"none">>
Plain == [auth |-> FALSE, salted |-> TRUE, vole |-> FALSE, integrity |-> TRUE, pad |-> 0, minK |-> 0, fault |-> None]
Bare == [Plain EXCEPT !.salted = FALSE, !.integrity = FALSE]
Signed == [Plain EXCEPT !.auth = TRUE]
Vole == [Plain EXCEPT !.vole = TRUE]

MCConfs ==
  {Plain, Bare, Signed, Vole, [Plain EXCEPT !.minK = 2], [Vole EXCEPT !.minK = 2], [Plain EXCEPT !.pad = 3],
   [Bare EXCEPT !.pad = 2], [Bare EXCEPT !.pad = 5]}
  \cup {[Signed EXCEPT !.fault = <<"forges", p>>] : p \in Party}
  \cup {[Signed EXCEPT !.fault = <<"dies", p>>] : p \in Party}
  \cup {[Plain EXCEPT !.fault = <<"reopens", i>>] : i \in 1..2}
  \cup {[Plain EXCEPT !.fault = <<"garbles", k>>] : k \in 0..1}
  \cup {[Plain EXCEPT !.fault = <<"misroutes", k, cols>>] : k \in 0..1, cols \in {{<<1, 1>>}, {1} \X {1, 2}}}

\* Every shuffle of up to three rows, and of more rows one in each round.
MCSeeds(k, height) == IF height <= 3 THEN Draws(height) ELSE {[i \in 2..height |-> 1 + ((i + k) % 2)]}

\* For every shuffle of up to six rows, the two sides of its network are left with
\* shares of the column in that order (gen_benes_route, run_osn, permuteBlocks).
ASSUME NetworkShuffles ==
  \A size \in 2..6 : \A dest \in Routings(size) :
    LET column == [i \in 1..size |-> {<<"row", i>>}]
        switches == Switches(dest)
        osn == RunOsn(switches, <<"round">>, column)
    IN \A k \in 1..size : Permuted(switches, column)[k] = column[dest[k]] /\ Xor(osn.sender[k], osn.receiver[k]) = column[dest[k]]

\* Two ids in all three files, in one order and in three; one; none.
MCInputs ==
  {<<(<<1, 2>>), (<<1, 3, 2>>), (<<1, 2>>)>>, <<(<<1, 2, 3>>), (<<2, 1>>), (<<3, 2, 1>>)>>,
   <<(<<1, 2>>), (<<2>>), (<<2, 3>>)>>, <<(<<1>>), (<<2>>), (<<1, 2>>)>>}
Files == {[i \in 0..2 |-> f[i+1]] : f \in MCInputs}

\* The plain flags, for a run over the same files.
PlainOnly == {Plain}
=============================================================================
