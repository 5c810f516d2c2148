------------------------------ MODULE IdealOprf ------------------------------
(* What a session of src/volePSI/MpsvsTopology.cpp promises its clients: one
   secret key for the life of the session, and for every query either the value
   of that key's function at the id asked for or nothing, at most Cap times per
   client. *)
EXTENDS Integers, Sequences

CONSTANTS Q, Client, Id, Cap

VARIABLES
  key,     \* the product of the two servers' shares, 0 before the key exists
  asked,   \* per client: queries metered
  rows     \* per client: the ids it has keys for, with the keys

vars == <<key, asked, rows>>

F(k, id) == (k * id) % Q

Init == key = 0 /\ asked = [c \in Client |-> 0] /\ rows = [c \in Client |-> <<>>]

MakeKey == key = 0 /\ key' \in 1..(Q-1) /\ UNCHANGED <<asked, rows>>
Ask(c) ==
  /\ key # 0 /\ (Cap > 0 => asked[c] < Cap)
  /\ asked' = [asked EXCEPT ![c] = @ + 1] /\ UNCHANGED <<key, rows>>
Answer(c) ==
  /\ Len(rows[c]) < asked[c]
  /\ \E id \in Id : rows' = [rows EXCEPT ![c] = Append(@, [id |-> id, key |-> F(key, id)])]
  /\ UNCHANGED <<key, asked>>

Next == MakeKey \/ \E c \in Client : Ask(c) \/ Answer(c)
Spec == Init /\ [][Next]_vars
=============================================================================
