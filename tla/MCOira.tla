------------------------------- MODULE MCOira -------------------------------
(* Sessions of three parties with two ids each, in three bins of words of GF(8).
   Randomness is a fixed formula; seeds under which a bin seems common that is not,
   as 64 bits do with a chance of 2^-64, are left out. *)
EXTENDS OiraSession

Streams == <<"psiD", "psiB", "psiC", "psics1D", "psics1B", "psics1C", "psics2D", "psics2B", "psics2C", "a", "factor", "c",
  "psic", "psica", "psicp", "psicb", "psics1", "psics1a", "psics1p", "psics1b", "psics2", "psics2a", "psics2p", "psics2b",
  "PSIlabel", "PSIjunk", "PSICS1label", "PSICS1junk", "PSICS2label", "PSICS2junk">>
MCDraw(s, what, p, i) ==
  LET stream == CHOOSE n \in DOMAIN Streams : Streams[n] = what
  IN Word(((s + 2) * (3 * stream + 5 * p + 1) * (i + 2)) % 97)
One == {0}   Two == {1}   Three == {0, 1}   Six == {1, 2}
MCHashTo == [id \in {One, Two, Three, Six} |->
  CASE id = One -> <<1, 2, 3>> [] id = Two -> <<2, 3, 1>> [] id = Three -> <<1, 3, 2>> [] OTHER -> <<3, 3, 1>>]

\* The i-th sender's value of an id; with three parties the sums wrap.
Values == [q \in Sender |-> [id \in DOMAIN MCHashTo |-> (5 * q + Number(id)) % 8]]
NoScope == [p \in Party |-> None]
Fine == [p \in Party |-> "no"]
Room(n) == [s \in {"own", "theirs"} |-> n]
Sets(a, b, c) == [p \in Party |-> <<a, b, c>>[p + 1]]
Base(sets, table, seed) ==
  [seed |-> seed, set |-> sets, value |-> Values, table |-> table, scope |-> NoScope, room |-> Room(1),
   bad |-> Fine, kAnon |-> 1, noise |-> {0}]
Same == Sets({One, Two}, {One, Two}, {One, Two})
OneCommon == Sets({One, Two}, {Two, Three}, {Two, Six})
NoneCommon == Sets({One, Two}, {Two, Three}, {One, Six})

\* Every table of one example, with every seed without such a bin.
Sessions(sets) == {Base(sets, table, s) : table \in Cuckoos(sets[0]), s \in 0..20}
Sound == {c \in Sessions(OneCommon) : NoAccident(c)}
Plain == CHOOSE c \in Sound : TRUE
Counted == Sound \cup {CHOOSE c \in Sessions(sets) : NoAccident(c) : sets \in {Same, NoneCommon}}
\* Noise that takes the sum beyond either end of a signed word, too.
Noisy == {[Plain EXCEPT !.noise = {-6, 0, 3}, !.kAnon = k] : k \in {0, 2}}
\* Parties with a budget: each its own, two of one scope, a scope without room.
Scoped(scopes, n) == [Plain EXCEPT !.scope = [p \in Party |-> scopes[p + 1]], !.room = Room(n)]
Metered == {Scoped(<<"own", "theirs", None>>, 1), Scoped(<<"own", "theirs", "theirs">>, 1),
            Scoped(<<"own", "theirs", "theirs">>, 2), Scoped(<<None, None, "theirs">>, 0)}
\* Arguments that are refused before the count, or between it and the sum.
BadFor(p, why) == [Scoped(<<"own", "theirs", None>>, 1) EXCEPT !.bad = [Fine EXCEPT ![p] = why]]
Refusing == {BadFor(p, "args") : p \in Party} \cup {BadFor(q, "values") : q \in Sender}
\* Party 0 passes values it is said to ignore.
PartyZeroValues == {BadFor(0, "values")}
MCConfs == Counted \cup Noisy \cup Metered \cup Refusing

\* What the refinement asks of them.
ASSUME AllPromised == \A c \in MCConfs : Promised(c)
=============================================================================
