----------------------------- MODULE IdealOira -----------------------------
(* What a session of counting and summing common ids promises, said of the sets and
   the values alone: every party with a budget pays for the session from it, none
   pays from an exhausted one, and the one result is noise around what is true. What
   is true is in the result too, which MpOira.h has "for testing". *)
EXTENDS Integers, FiniteSets, FiniteSetsExt

CONSTANTS
  N, Degree,    \* parties, bits of a word
  NoResult      \* a model value: nothing is published

VARIABLES
  conf,         \* sets, values, scopes and their room, arguments the code refuses
  charged,      \* who has paid
  result        \* what is published

Party == 0..(N - 1)
Sender == Party \ {0}
Scope(p) == conf.scope[p]
Common == {id \in conf.set[0] : \A q \in Sender : id \in conf.set[q]}
\* Every common id counts with the mean of the senders' values, whose sum has wrapped.
Sum == (MapThenSumSet(LAMBDA q : MapThenSumSet(LAMBDA id : conf.value[q][id], Common), Sender) % 2^Degree) \div (N - 1)
\* A noised sum that a signed word does not hold is one of its ends.
SignedMin == -(2^(Degree - 1))
SignedMax == 2^(Degree - 1) - 1
Clamped(x) == IF x < SignedMin THEN {SignedMin} ELSE IF x > SignedMax THEN {SignedMin, SignedMax} ELSE {x}

Charge(p) ==
  /\ p \notin charged /\ Scope(p) # "none" /\ conf.bad[p] # "args"
  /\ Cardinality({q \in charged : Scope(q) = Scope(p)}) < conf.room[Scope(p)]
  /\ charged' = charged \cup {p}
  /\ UNCHANGED <<conf, result>>

Agreed == \A p \in Party : conf.bad[p] # "args" /\ (Scope(p) # "none" => p \in charged)
\* A sender with the wrong number of values leaves the sum to wait for it.
Possible == \A q \in Sender : conf.bad[q] # "values"
Publish(cardNoise, sumNoise) ==
  LET count == Max({0, Cardinality(Common) + cardNoise}) IN
  /\ result = NoResult /\ Agreed /\ Possible
  /\ \E noised \in Clamped(Sum + sumNoise) :
       result' = [released |-> count >= conf.kAnon, noisyCardinality |-> count,
                  noisyAggregate |-> IF count >= conf.kAnon THEN noised ELSE 0,
                  trueCardinality |-> Cardinality(Common), trueAggregate |-> Sum]
  /\ UNCHANGED <<conf, charged>>

Init == charged = {} /\ result = NoResult
Next == (\E p \in Party : Charge(p)) \/ \E cardNoise, sumNoise \in conf.noise : Publish(cardNoise, sumNoise)
Spec == Init /\ [][Next]_<<conf, charged, result>>
=============================================================================
