--------------------------- MODULE ReleaseProofs ---------------------------
(* Proofs about the threads of a session of Release, the log they share and the
   budget they charge: for any files, cells, draws and faults, and in whatever order
   the threads run, the log is a chain and says of every abandoned cell, once, that
   it was (Trail); what is settled stays (SettledForGood), is charged once
   (Charges), and is not released when its count was moved (MovedCounts). On the way
   stands what the MAC of AuthShares is worth, for rings of any width: how few keys
   let a moved share pass (FewKeysPass). *)
EXTENDS ReleaseProperties, FiniteSetTheorems, WellFoundedInduction, TLAPS

CONSTANTS ValueBits, StatBits   \* of the rings the MAC is looked at in; Release has its own
Sharing == INSTANCE AuthShares

Fields == {"num", "den", "n"}

\* The links that have been current by the time there are n entries.
LinksTo(l, n) == {<<>>} \cup {l[j].link : j \in 1..n}
IsChain(l) ==
  \A i \in DOMAIN l : /\ l[i].prev = IF i = 1 THEN <<>> ELSE l[i - 1].link
                      /\ l[i].link = Link(l[i].cell, l[i].prev)
IsSequence(l) == l \in Seq({l[i] : i \in DOMAIN l})

\* Every thread is at some point of one cell's release, and has a cell to release.
Threads ==
  /\ DOMAIN at = Cell /\ DOMAIN report = Cell
  /\ seen = [c \in Cell |-> seen[c]] /\ out = [c \in Cell |-> out[c]]
  /\ cells # <<>> => DOMAIN cells = Cell /\ \A c \in Cell : DOMAIN cells[c] = Fields

\* What a thread read of the log is no later than the log is now.
Reads == \A c \in Cell :
  /\ at[c] = "open" => seen[c] \in LinksTo(log, Len(log))
  /\ at[c] = "noise" => seen[c] \in 0..Len(log)

\* A cell with an entry in the log has come to its end, abandoned.
Entries ==
  /\ \A i \in DOMAIN log : /\ log[i].cell \in Cell /\ at[log[i].cell] = "end" /\ out[log[i].cell] = Abandoned
                           /\ report[log[i].cell] \in {Link(log[i].cell, prev) : prev \in LinksTo(log, i - 1)}
  /\ \A i, j \in DOMAIN log : i # j => log[i].cell # log[j].cell
  /\ \A c \in Cell : out[c] = Abandoned => \E i \in DOMAIN log : log[i].cell = c

TInv ==
  /\ Threads /\ IsSequence(log) /\ IsChain(log) /\ Reads /\ Entries
  /\ uncommitted # {} => log # <<>>
-----------------------------------------------------------------------------
(* An entry more. *)

LEMMA Grown ==
  ASSUME NEW l, IsSequence(l), NEW e
  PROVE /\ IsSequence(Append(l, e)) /\ Len(Append(l, e)) = Len(l) + 1 /\ Len(l) \in Nat
        /\ DOMAIN Append(l, e) = 1..(Len(l) + 1) /\ DOMAIN l = 1..Len(l)
        /\ \A i \in DOMAIN l : Append(l, e)[i] = l[i]
        /\ Append(l, e)[Len(l) + 1] = e
<1> DEFINE S == {l[i] : i \in DOMAIN l}
           m == Append(l, e)
<1>1. l \in Seq(S \cup {e}) /\ Len(l) \in Nat /\ DOMAIN l = 1..Len(l)
  BY DEF IsSequence
<1>2. m \in Seq(S \cup {e}) /\ Len(m) = Len(l) + 1 /\ m[Len(l) + 1] = e /\ DOMAIN m = 1..(Len(l) + 1)
  BY <1>1
<1>3. \A i \in DOMAIN l : m[i] = l[i]
  BY <1>1
<1>4. m \in Seq({m[i] : i \in DOMAIN m})
  BY <1>2
<1> QED BY <1>1, <1>2, <1>3, <1>4 DEF IsSequence

LEMMA LinksGrow ==
  ASSUME NEW l, IsSequence(l), NEW e
  PROVE /\ \A n \in 0..Len(l) : LinksTo(Append(l, e), n) = LinksTo(l, n)
        /\ LinksTo(l, Len(l)) \subseteq LinksTo(Append(l, e), Len(Append(l, e)))
<1>1. /\ Len(Append(l, e)) = Len(l) + 1 /\ Len(l) \in Nat /\ DOMAIN l = 1..Len(l)
      /\ \A i \in DOMAIN l : Append(l, e)[i] = l[i]
  BY Grown
<1>2. ASSUME NEW n \in 0..Len(l) PROVE LinksTo(Append(l, e), n) = LinksTo(l, n)
  <2>1. \A j \in 1..n : Append(l, e)[j] = l[j]
    BY <1>1
  <2> QED BY <2>1 DEF LinksTo
<1>3. LinksTo(Append(l, e), Len(l)) \subseteq LinksTo(Append(l, e), Len(l) + 1)
  BY <1>1 DEF LinksTo
<1> QED BY <1>1, <1>2, <1>3

LEMMA ChainGrows ==
  ASSUME IsSequence(log), IsChain(log), NEW c
  PROVE IsChain(Appended(c))
<1> DEFINE e == [cell |-> c, prev |-> CurrentLink, link |-> Link(c, CurrentLink)]
           m == Append(log, e)
<1>1. /\ DOMAIN m = 1..(Len(log) + 1) /\ DOMAIN log = 1..Len(log) /\ Len(log) \in Nat
      /\ \A i \in DOMAIN log : m[i] = log[i]
      /\ m[Len(log) + 1] = e
  BY Grown
<1>2. Appended(c) = m
  BY DEF Appended
<1>3. CurrentLink = IF Len(log) = 0 THEN <<>> ELSE log[Len(log)].link
  BY DEF CurrentLink, Last, IsSequence
<1>4. e.prev = CurrentLink /\ e.link = Link(c, CurrentLink) /\ e.cell = c
  OBVIOUS
<1> HIDE DEF e, m
<1>5. ASSUME NEW i \in DOMAIN m
      PROVE m[i].prev = (IF i = 1 THEN <<>> ELSE m[i - 1].link) /\ m[i].link = Link(m[i].cell, m[i].prev)
  <2>1. CASE i \in DOMAIN log
    <3>1. m[i] = log[i] /\ (i # 1 => m[i - 1] = log[i - 1])
      BY <1>1, <2>1
    <3> QED BY <2>1, <3>1 DEF IsChain
  <2>2. CASE i = Len(log) + 1
    <3>1. i # 1 => m[i - 1] = log[Len(log)]
      BY <1>1, <2>2
    <3>2. i = 1 <=> Len(log) = 0
      BY <1>1, <2>2
    <3> QED BY <1>1, <1>3, <1>4, <2>2, <3>1, <3>2
  <2> QED BY <1>1, <1>5, <2>1, <2>2
<1> QED BY <1>2, <1>5 DEF IsChain
-----------------------------------------------------------------------------
(* The steps. *)

LEMMA TrailInit == Init => TInv
<1> SUFFICES ASSUME Init PROVE TInv
  OBVIOUS
<1>1. log = <<>> /\ cells = <<>> /\ uncommitted = {} /\ DOMAIN log = {} /\ Len(log) = 0
  BY DEF Init
<1>2. /\ at = [c \in Cell |-> "start"] /\ out = [c \in Cell |-> Pending]
      /\ seen = [c \in Cell |-> <<>>] /\ report = [c \in Cell |-> <<>>]
  BY DEF Init
<1>3. Threads
  BY <1>1, <1>2 DEF Threads
<1>4. IsSequence(log) /\ IsChain(log)
  BY <1>1 DEF IsSequence, IsChain
<1>5. Reads
  BY <1>2 DEF Reads
<1>6. Entries
  BY <1>1, <1>2, PendingAssumption DEF Entries
<1> QED BY <1>1, <1>3, <1>4, <1>5, <1>6 DEF TInv

\* A step that leaves the threads and the log alone.
LEMMA TrailUnread ==
  ASSUME TInv, UNCHANGED <<conf, at, seen, report, uncommitted, log, out>>,
         cells' # <<>> => DOMAIN cells' = Cell /\ \A c \in Cell : DOMAIN cells'[c] = Fields
  PROVE TInv'
<1>1. Cell' = Cell
  BY DEF Cell
<1>2. Threads'
  BY <1>1 DEF Threads, TInv
<1>3. Reads' /\ Entries'
  BY <1>1 DEF Reads, Entries, TInv
<1> QED BY <1>2, <1>3 DEF TInv

\* A step of a thread that adds no entry: it goes on from a place that is not the
\* end, and what it has read, if anything, is current.
LEMMA TrailGoesOn ==
  ASSUME TInv, NEW c \in Cell, NEW there, UNCHANGED <<conf, log, report>>, at[c] # "end",
         at' = [at EXCEPT ![c] = there],
         there = "open" => seen'[c] = CurrentLink, there = "noise" => seen'[c] = Len(log),
         \E x : seen' = [seen EXCEPT ![c] = x],
         \E x : out' = [out EXCEPT ![c] = x] /\ x # Abandoned,
         cells' # <<>> => DOMAIN cells' = Cell /\ \A d \in Cell : DOMAIN cells'[d] = Fields,
         uncommitted' # {} => log # <<>>
  PROVE TInv'
<1>1. Cell' = Cell
  BY DEF Cell
<1>2. DOMAIN at = Cell /\ DOMAIN seen = Cell /\ DOMAIN report = Cell /\ DOMAIN out = Cell
  BY DEF TInv, Threads
<1>3. /\ DOMAIN at' = Cell /\ at'[c] = there /\ \A d \in Cell : d # c => at'[d] = at[d]
      /\ DOMAIN seen' = Cell /\ \A d \in Cell : d # c => seen'[d] = seen[d]
      /\ DOMAIN out' = Cell /\ out'[c] # Abandoned /\ \A d \in Cell : d # c => out'[d] = out[d]
  BY <1>2
<1>4. Threads'
  BY <1>1, <1>2, <1>3 DEF Threads
<1>5. CurrentLink \in LinksTo(log, Len(log)) /\ Len(log) \in 0..Len(log)
  <2>1. Len(log) \in Nat /\ (log = <<>> \/ Len(log) \in 1..Len(log))
    BY DEF TInv, IsSequence
  <2> QED BY <2>1 DEF CurrentLink, LinksTo, Last
<1>6. Reads'
  BY <1>1, <1>3, <1>5 DEF TInv, Reads
<1>7. \A i \in DOMAIN log : log[i].cell \in Cell /\ log[i].cell # c
  BY DEF TInv, Entries
<1>8. Entries'
  <2>1. \A i \in DOMAIN log : at'[log[i].cell] = "end" /\ out'[log[i].cell] = Abandoned
    BY <1>3, <1>7 DEF TInv, Entries
  <2>2. \A d \in Cell : out'[d] = Abandoned => \E i \in DOMAIN log : log[i].cell = d
    BY <1>3 DEF TInv, Entries
  <2> QED BY <1>1, <2>1, <2>2 DEF TInv, Entries
<1> QED BY <1>4, <1>6, <1>8 DEF TInv

\* A thread whose opening failed appends its entry, whatever was appended since it read.
LEMMA TrailGrows ==
  ASSUME TInv, NEW c \in Cell, OpenFails(c)
  PROVE TInv'
<1> DEFINE e == [cell |-> c, prev |-> CurrentLink, link |-> Link(c, CurrentLink)]
<1>1. /\ at[c] = "open" /\ at' = [at EXCEPT ![c] = "end"] /\ log' = Append(log, e)
      /\ report' = [report EXCEPT ![c] = Link(c, seen[c])] /\ out' = [out EXCEPT ![c] = Abandoned]
      /\ UNCHANGED <<conf, seen, uncommitted, cells>>
  BY DEF OpenFails, Goto, Settle, Appended, SessionUnchanged
<1>2. Cell' = Cell
  BY <1>1 DEF Cell
<1>3. DOMAIN at = Cell /\ DOMAIN seen = Cell /\ DOMAIN report = Cell /\ DOMAIN out = Cell
  BY DEF TInv, Threads
<1>4. /\ DOMAIN at' = Cell /\ at'[c] = "end" /\ \A d \in Cell : d # c => at'[d] = at[d]
      /\ DOMAIN out' = Cell /\ out'[c] = Abandoned /\ \A d \in Cell : d # c => out'[d] = out[d]
      /\ DOMAIN report' = Cell /\ report'[c] = Link(c, seen[c]) /\ \A d \in Cell : d # c => report'[d] = report[d]
  BY <1>1, <1>3
<1>5. IsSequence(log) /\ IsChain(log)
  BY DEF TInv
<1>6. /\ IsSequence(log') /\ Len(log') = Len(log) + 1 /\ Len(log) \in Nat
      /\ DOMAIN log' = 1..(Len(log) + 1) /\ DOMAIN log = 1..Len(log)
      /\ \A i \in DOMAIN log : log'[i] = log[i]
      /\ log'[Len(log) + 1] = e
  BY <1>1, <1>5, Grown
<1>7. /\ \A n \in 0..Len(log) : LinksTo(log', n) = LinksTo(log, n)
      /\ LinksTo(log, Len(log)) \subseteq LinksTo(log', Len(log'))
  BY <1>1, <1>5, LinksGrow
<1>8. IsChain(log')
  BY <1>1, <1>5, ChainGrows DEF Appended
<1>9. e.cell = c
  OBVIOUS
<1> HIDE DEF e
<1>10. Threads'
  BY <1>1, <1>2, <1>3, <1>4 DEF Threads, TInv
<1>11. Reads'
  BY <1>1, <1>2, <1>4, <1>6, <1>7 DEF Reads, TInv
<1>12. \A i \in DOMAIN log : log[i].cell \in Cell /\ log[i].cell # c
  BY <1>1 DEF TInv, Entries
<1>13. ASSUME NEW i \in DOMAIN log'
       PROVE /\ log'[i].cell \in Cell /\ at'[log'[i].cell] = "end" /\ out'[log'[i].cell] = Abandoned
             /\ report'[log'[i].cell] \in {Link(log'[i].cell, prev) : prev \in LinksTo(log', i - 1)}
  <2>1. CASE i \in DOMAIN log
    <3>1. log'[i] = log[i] /\ LinksTo(log', i - 1) = LinksTo(log, i - 1)
      BY <1>6, <1>7, <2>1
    <3>2. /\ at[log[i].cell] = "end" /\ out[log[i].cell] = Abandoned
          /\ report[log[i].cell] \in {Link(log[i].cell, prev) : prev \in LinksTo(log, i - 1)}
      BY <2>1 DEF TInv, Entries
    <3>3. log[i].cell \in Cell /\ log[i].cell # c
      BY <1>12, <2>1
    <3> QED BY <1>4, <3>1, <3>2, <3>3
  <2>2. CASE i = Len(log) + 1
    <3>1. log'[i].cell = c /\ LinksTo(log', i - 1) = LinksTo(log, Len(log))
      BY <1>6, <1>7, <1>9, <2>2
    <3>2. seen[c] \in LinksTo(log, Len(log))
      BY <1>1 DEF TInv, Reads
    <3> QED BY <1>4, <3>1, <3>2
  <2> QED BY <1>6, <2>1, <2>2
<1>14. ASSUME NEW i \in DOMAIN log', NEW j \in DOMAIN log', i # j PROVE log'[i].cell # log'[j].cell
  <2>1. i \in DOMAIN log \/ i = Len(log) + 1
    BY <1>6
  <2>2. j \in DOMAIN log \/ j = Len(log) + 1
    BY <1>6
  <2>3. CASE i \in DOMAIN log /\ j \in DOMAIN log
    BY <1>6, <1>14, <2>3 DEF TInv, Entries
  <2> QED BY <1>6, <1>9, <1>12, <1>14, <2>1, <2>2, <2>3
<1>15. ASSUME NEW d \in Cell, out'[d] = Abandoned PROVE \E i \in DOMAIN log' : log'[i].cell = d
  <2>1. CASE d = c
    BY <1>6, <1>9, <2>1
  <2>2. CASE d # c
    <3>1. PICK i \in DOMAIN log : log[i].cell = d
      BY <1>4, <1>15, <2>2 DEF TInv, Entries
    <3> QED BY <1>6, <3>1
  <2> QED BY <2>1, <2>2
<1>16. Entries'
  BY <1>2, <1>13, <1>14, <1>15 DEF Entries
<1>17. log' # <<>>
  BY <1>6
<1> QED BY <1>6, <1>8, <1>10, <1>11, <1>16, <1>17 DEF TInv

\* No release looks like an abandoned one.
LEMMA Released ==
  /\ \A cell, xi, num, den, h1, h2 : NoisyThreshold(cell, xi, num, den, h1, h2) # Abandoned
  /\ \A cell : DOMAIN cell = Fields => OpenAndClamp(cell) # Abandoned
<1>1. ASSUME NEW cell, NEW xi, NEW num, NEW den, NEW h1, NEW h2
      PROVE NoisyThreshold(cell, xi, num, den, h1, h2) # Abandoned
  <2>1. "count" \in DOMAIN NoisyThreshold(cell, xi, num, den, h1, h2)
    BY DEF NoisyThreshold
  <2> QED BY <2>1 DEF Abandoned
<1>2. ASSUME NEW cell, DOMAIN cell = Fields PROVE OpenAndClamp(cell) # Abandoned
  <2>1. DOMAIN OpenAndClamp(cell) = Fields
    BY <1>2 DEF OpenAndClamp
  <2>2. DOMAIN Abandoned = {"abandoned"}
    BY DEF Abandoned
  <2> QED BY <2>1, <2>2 DEF Fields
<1> QED BY <1>1, <1>2

LEMMA TrailNext == TInv /\ [Next]_vars => TInv'
<1> SUFFICES ASSUME TInv, [Next]_vars PROVE TInv'
  OBVIOUS
<1>1. /\ DOMAIN at = Cell /\ DOMAIN seen = Cell /\ DOMAIN out = Cell
      /\ cells # <<>> => DOMAIN cells = Cell /\ \A c \in Cell : DOMAIN cells[c] = Fields
  BY DEF TInv, Threads
<1>2. CASE Prepared \/ RunFPsa \/ Measure \/ RankAll \/ Compose \/ PutForward \/ UNCHANGED vars
  <2>1. UNCHANGED <<conf, at, seen, report, uncommitted, log, out, cells>>
    BY <1>2 DEF Prepared, Refuse, PackBins, NewNonce, RunFPsa, Measure, RankAll, Compose, PutForward, vars, threads
  <2> QED BY <1>1, <2>1, TrailUnread
<1>3. CASE Aggregate
  <2>1. /\ UNCHANGED <<conf, at, seen, report, uncommitted, log, out>>
        /\ cells' = [c \in Cell |-> ShareCell(AggregateHistogramsWire(rows, c[1])[c[2]], conf.mask)]
    BY <1>3 DEF Aggregate
  <2>2. DOMAIN cells' = Cell /\ \A c \in Cell : DOMAIN cells'[c] = Fields
    BY <2>1 DEF ShareCell, Fields
  <2> QED BY <2>1, <2>2, TrailUnread
<1>4. ASSUME NEW c \in Cell, at[c] # "end"
      PROVE /\ seen = [seen EXCEPT ![c] = seen[c]]
            /\ out[c] # Abandoned /\ out = [out EXCEPT ![c] = out[c]]
            /\ uncommitted # {} => log # <<>>
  <2>1. out[c] # Abandoned
    BY <1>4 DEF TInv, Entries
  <2>2. uncommitted # {} => log # <<>>
    BY DEF TInv
  <2>3. seen = [d \in Cell |-> seen[d]] /\ out = [d \in Cell |-> out[d]]
    BY DEF TInv, Threads
  <2>4. seen = [seen EXCEPT ![c] = seen[c]] /\ out = [out EXCEPT ![c] = out[c]]
    BY <2>3
  <2> QED BY <2>1, <2>2, <2>4
<1>5. ASSUME NEW c \in Cell, ReadLink(c) PROVE TInv'
  <2>1. /\ at[c] # "end" /\ at' = [at EXCEPT ![c] = "open"] /\ seen' = [seen EXCEPT ![c] = CurrentLink]
        /\ seen'[c] = CurrentLink /\ UNCHANGED <<conf, report, uncommitted, log, out, cells>>
    BY <1>1, <1>5 DEF ReadLink, Goto, SessionUnchanged
  <2>2. out' = [out EXCEPT ![c] = out[c]] /\ out[c] # Abandoned
    BY <1>4, <2>1
  <2> QED BY <1>1, <1>4, <2>1, <2>2, TrailGoesOn
<1>6. ASSUME NEW c \in Cell, OpenHolds(c) PROVE TInv'
  <2>1. /\ at[c] # "end" /\ at' = [at EXCEPT ![c] = "release"]
        /\ UNCHANGED <<conf, seen, report, uncommitted, log, out, cells>>
    BY <1>6 DEF OpenHolds, Goto, SessionUnchanged
  <2>2. (\E x : seen' = [seen EXCEPT ![c] = x]) /\ \E x : out' = [out EXCEPT ![c] = x] /\ x # Abandoned
    BY <1>4, <2>1
  <2> QED BY <1>1, <1>4, <2>1, <2>2, TrailGoesOn
<1>7. ASSUME NEW c \in Cell, NoisyThresholdRelease(c) PROVE TInv'
  <2>1. /\ at[c] # "end" /\ at' = [at EXCEPT ![c] = "end"]
        /\ UNCHANGED <<conf, seen, report, uncommitted, log, cells>>
    BY <1>7 DEF NoisyThresholdRelease, Goto, SessionUnchanged
  <2>2. \E x : out' = [out EXCEPT ![c] = x] /\ x # Abandoned
    <3> DEFINE r(xi, x, y, h1, h2) == NoisyThreshold(cells[c], xi, x.num, y.den, h1, h2)
    <3>1. \E xi \in Xi, x, y \in Eta, h1, h2 \in HistNoise : Settle(c, r(xi, x, y, h1, h2), r(xi, x, y, h1, h2).spent)
      BY <1>7, Zenon DEF NoisyThresholdRelease
    <3>2. PICK xi \in Xi, x \in Eta, y \in Eta, h1 \in HistNoise, h2 \in HistNoise :
            Settle(c, r(xi, x, y, h1, h2), r(xi, x, y, h1, h2).spent)
      BY <3>1, Zenon
    <3>3. out' = [out EXCEPT ![c] = r(xi, x, y, h1, h2)]
      BY <3>2, Zenon DEF Settle
    <3>4. r(xi, x, y, h1, h2) # Abandoned
      BY Released, Zenon
    <3> QED BY <3>3, <3>4
  <2> QED BY <1>1, <1>4, <2>1, <2>2, TrailGoesOn
<1>8. ASSUME NEW c \in Cell, CoverAndGate(c) PROVE TInv'
  <2>1. /\ at[c] # "end" /\ at' = [at EXCEPT ![c] = "noise"] /\ seen' = [seen EXCEPT ![c] = Len(log)]
        /\ seen'[c] = Len(log) /\ cells # <<>> /\ UNCHANGED <<conf, report, uncommitted, log, out>>
    BY <1>1, <1>8 DEF CoverAndGate, Goto, SessionUnchanged
  <2>2. PICK k1, k2 \in CoverDraws : cells' = [cells EXCEPT ![c] = ApplyKAnonGate(AddCoverFirms(cells[c], k1, k2), conf.mask)]
    BY <1>8 DEF CoverAndGate
  <2>3. DOMAIN ApplyKAnonGate(AddCoverFirms(cells[c], k1, k2), conf.mask) = DOMAIN cells[c]
    BY DEF ApplyKAnonGate, AddCoverFirms
  <2>4. DOMAIN cells' = Cell /\ \A d \in Cell : DOMAIN cells'[d] = Fields
    BY <1>1, <2>1, <2>2, <2>3
  <2> QED BY <1>4, <2>1, <2>4, TrailGoesOn
<1>9. ASSUME NEW c \in Cell, JointNoiseAdded(c) PROVE TInv'
  <2>1. /\ at[c] = "noise" /\ at' = [at EXCEPT ![c] = "open noised"] /\ cells # <<>>
        /\ uncommitted' = IF Len(log) = seen[c] THEN uncommitted ELSE uncommitted \cup {c}
        /\ UNCHANGED <<conf, seen, report, log, out>>
    BY <1>9 DEF JointNoiseAdded, Goto, SessionUnchanged
  <2>2. PICK c1, c2 : cells' = [cells EXCEPT ![c] = AddJointNoise(cells[c], c1, c2)]
    BY <1>9 DEF JointNoiseAdded
  <2>3. DOMAIN cells' = Cell /\ \A d \in Cell : DOMAIN cells'[d] = Fields
    BY <1>1, <2>1, <2>2 DEF AddJointNoise
  <2>4. uncommitted' # {} => log # <<>>
    <3>1. seen[c] \in 0..Len(log)
      BY <2>1 DEF TInv, Reads
    <3>2. log = <<>> => Len(log) = 0
      OBVIOUS
    <3>3. Len(log) # seen[c] => log # <<>>
      BY <3>1, <3>2
    <3>4. uncommitted # {} => log # <<>>
      BY DEF TInv
    <3> QED BY <2>1, <3>3, <3>4
  <2> QED BY <1>4, <2>1, <2>3, <2>4, TrailGoesOn
<1>10. ASSUME NEW c \in Cell, OpenNoised(c) PROVE TInv'
  <2>1. /\ at[c] = "open noised" /\ at' = [at EXCEPT ![c] = "end"] /\ cells # <<>>
        /\ out' = [out EXCEPT ![c] = OpenAndClamp(cells[c])]
        /\ UNCHANGED <<conf, seen, report, uncommitted, log, cells>>
    BY <1>10 DEF OpenNoised, Goto, Settle, SessionUnchanged
  <2>2. OpenAndClamp(cells[c]) # Abandoned
    BY <1>1, <2>1, Released
  <2> QED BY <1>1, <1>4, <2>1, <2>2, TrailGoesOn
<1>11. ASSUME NEW c \in Cell, Thread(c) PROVE TInv'
  BY <1>5, <1>6, <1>7, <1>8, <1>9, <1>10, <1>11, TrailGrows DEF Thread
<1> QED BY <1>2, <1>3, <1>11 DEF Next

\* The log that the threads share is a chain from its first entry, with one entry
\* for each abandoned cell, whatever the order the threads read, failed and
\* appended in; a report hangs on a link that was current when its thread began,
\* and a release is called uncommitted only after another cell was abandoned.
THEOREM Trail == Spec => []AuditTrail
<1>1. TInv => AuditTrail
  <2> SUFFICES ASSUME TInv PROVE AuditTrail
    OBVIOUS
  <2>1. {c \in Cell : out[c] = Abandoned} = {log[i].cell : i \in DOMAIN log}
    BY DEF TInv, Entries
  <2> QED BY <2>1, Zenon DEF AuditTrail, TInv, IsChain, Entries, LinksTo
<1> QED BY <1>1, TrailInit, TrailNext, PTL DEF Spec
-----------------------------------------------------------------------------
(* Powers of 2, and remainders. *)

\* The subsets of n elements are counted by the power, which is how a power is known.
LEMMA Subsets ==
  ASSUME NEW n \in Nat
  PROVE IsFiniteSet(SUBSET (1..n)) /\ Cardinality(SUBSET (1..n)) = 2^n
<1>1. IsFiniteSet(1..n) /\ Cardinality(1..n) = n
  BY FS_Interval
<1> DEFINE S == 1..n
<1> HIDE DEF S
<1>2. IsFiniteSet(S) /\ Cardinality(S) = n
  BY <1>1 DEF S
<1>3. IsFiniteSet(SUBSET S) /\ Cardinality(SUBSET S) = 2^Cardinality(S)
  BY <1>2, FS_SUBSET
<1> QED BY <1>2, <1>3 DEF S

\* A power of 2 is a positive number.
LEMMA PowerPositive == ASSUME NEW n \in Nat PROVE 2^n \in Nat /\ 2^n > 0
<1> DEFINE X == SUBSET (1..n)
<1>1. X # {}
  OBVIOUS
<1>2. IsFiniteSet(X) /\ Cardinality(X) = 2^n
  BY Subsets
<1> HIDE DEF X
<1>3. Cardinality(X) \in Nat /\ Cardinality(X) # 0
  BY <1>1, <1>2, FS_CardinalityType, FS_EmptySet
<1> QED BY <1>2, <1>3

\* A set of numbers up to n + 1 has n + 1 or it has not.
LEMMA PowerDoubles == ASSUME NEW n \in Nat PROVE 2^(n + 1) = 2 * 2^n
<1> DEFINE S == 1..n
           T == 1..(n + 1)
           X == SUBSET S
           Y == {A \cup {n + 1} : A \in X}
           f == [A \in X |-> A \cup {n + 1}]
<1>1. /\ IsFiniteSet(X) /\ Cardinality(X) = 2^n
      /\ IsFiniteSet(SUBSET T) /\ Cardinality(SUBSET T) = 2^(n + 1)
  BY Subsets
<1>2. SUBSET T = X \cup Y
  <2>1. T = S \cup {n + 1} /\ n + 1 \notin S
    OBVIOUS
  <2>2. ASSUME NEW A \in SUBSET T PROVE A \in X \cup Y
    <3>1. A \ {n + 1} \in X
      BY <2>1
    <3>2. n + 1 \in A => A = (A \ {n + 1}) \cup {n + 1}
      OBVIOUS
    <3>3. n + 1 \notin A => A = A \ {n + 1}
      OBVIOUS
    <3> HIDE DEF X
    <3> QED BY <3>1, <3>2, <3>3
  <2>3. ASSUME NEW A \in X PROVE A \in SUBSET T /\ A \cup {n + 1} \in SUBSET T
    BY <2>1
  <2> HIDE DEF X, T
  <2>4. X \cup Y \subseteq SUBSET T
    BY <2>3
  <2> QED BY <2>2, <2>4
<1>3. X \cap Y = {}
  OBVIOUS
<1>4. f \in Bijection(X, Y)
  <2>1. f \in [X -> Y]
    OBVIOUS
  <2>2. ASSUME NEW A \in X, NEW B \in X, f[A] = f[B] PROVE A = B
    <3>1. n + 1 \notin A /\ n + 1 \notin B
      OBVIOUS
    <3>2. A \cup {n + 1} = B \cup {n + 1}
      BY <2>2
    <3> QED BY <3>1, <3>2
  <2>3. \A b \in Y : \E A \in X : f[A] = b
    OBVIOUS
  <2> HIDE DEF f, X, Y
  <2> QED BY <2>1, <2>2, <2>3 DEF Bijection, Injection, Surjection, IsInjective
<1> HIDE DEF X, Y, f, T
<1>5. IsFiniteSet(Y) /\ Cardinality(Y) = Cardinality(X)
  BY <1>1, <1>4, FS_Bijection DEF ExistsBijection
<1>6. Cardinality(X \cup Y) = Cardinality(X) + Cardinality(Y) - Cardinality(X \cap Y)
  BY <1>1, <1>5, FS_Union
<1>7. Cardinality(X \cap Y) = 0
  BY <1>3, FS_EmptySet
<1>8. Cardinality(X) + Cardinality(X) - 0 = 2 * Cardinality(X)
  BY <1>1, PowerPositive
<1> QED BY <1>1, <1>2, <1>5, <1>6, <1>7, <1>8
(* Induction, from the well-foundedness of < on the natural numbers. *)

LessThan == {p \in Nat \X Nat : p[1] < p[2]}

\* < on the natural numbers has no endless descent.
LEMMA LessThanWellFounded == IsWellFoundedOn(LessThan, Nat)
<1>1. LessThan = OpToRel(<, Nat)
  BY DEF LessThan, OpToRel
<1> QED BY <1>1, NatLessThanWellFounded

\* Every set of natural numbers that is not empty has a least member.
LEMMA Least == ASSUME NEW T \in SUBSET Nat, T # {} PROVE \E x \in T : \A y \in T : x <= y
<1>1. PICK x \in T : \A y \in T : <<y, x>> \notin LessThan
  BY LessThanWellFounded, WFMin
<1>2. ASSUME NEW y \in T PROVE x <= y
  <2>1. <<y, x>> \in Nat \X Nat /\ <<y, x>> \notin LessThan
    BY <1>1
  <2>2. ~(y < x)
    BY <2>1 DEF LessThan
  <2> QED BY <2>2
<1> QED BY <1>2

\* What holds of 0, and of n + 1 when of n, holds of all.
LEMMA Induct == ASSUME NEW S, 0 \in S, \A n \in Nat : n \in S => n + 1 \in S PROVE Nat \subseteq S
<1> DEFINE T == Nat \ S
<1> SUFFICES ASSUME T # {} PROVE FALSE
  OBVIOUS
<1>1. PICK x \in T : \A y \in T : x <= y
  BY Least
<1>2. x \in Nat /\ x # 0 /\ x - 1 \in Nat /\ x - 1 \notin T
  BY <1>1
<1> QED BY <1>2

-----------------------------------------------------------------------------
(* Divisibility by powers of 2, and sameness up to a multiple. *)

Divides(m, a) == \E k \in Int : a = m * k
Same(m, a, b) == \E k \in Int : a = b + m * k

\* The quotient and the rest, and the rest of what is written as a quotient and a rest.
LEMMA Quotient ==
  ASSUME NEW a \in Int, NEW q \in Int, q > 0
  PROVE a \div q \in Int /\ a % q \in 0..(q-1) /\ a = q * (a \div q) + (a % q)
  OBVIOUS

LEMMA Remainder ==
  ASSUME NEW q \in Int, q > 0, NEW m \in Int, NEW n \in 0..(q-1)
  PROVE (q * m + n) % q = n
  OBVIOUS

\* Dividing is leaving no rest.
LEMMA DividesIsNoRest ==
  ASSUME NEW a \in Int, NEW m \in Int, m > 0
  PROVE Divides(m, a) <=> a % m = 0
<1>1. ASSUME NEW k \in Int, a = m * k PROVE a % m = 0
  <2>1. (m * k + 0) % m = 0
    BY Remainder
  <2> QED BY <1>1, <2>1
<1>2. ASSUME a % m = 0 PROVE \E k \in Int : a = m * k
  BY <1>2, Quotient
<1> QED BY <1>1, <1>2 DEF Divides

\* Equal rests are those of numbers whose difference is divided.
LEMMA EqualRests ==
  ASSUME NEW a \in Int, NEW b \in Int, NEW m \in Int, m > 0
  PROVE a % m = b % m <=> Divides(m, a - b)
<1> DEFINE i == a \div m
           j == b \div m
<1>1. i \in Int /\ a % m \in 0..(m - 1) /\ a = m * i + (a % m)
  BY Quotient
<1>2. j \in Int /\ b % m \in 0..(m - 1) /\ b = m * j + (b % m)
  BY Quotient
<1> HIDE DEF i, j
<1>3. ASSUME a % m = b % m PROVE Divides(m, a - b)
  <2>1. a - b = m * (i - j) /\ i - j \in Int
    BY <1>1, <1>2, <1>3
  <2> QED BY <2>1 DEF Divides
<1>4. ASSUME NEW k \in Int, a - b = m * k PROVE a % m = b % m
  <2>1. a = m * (j + k) + (b % m) /\ j + k \in Int
    BY <1>2, <1>4
  <2>2. (m * (j + k) + (b % m)) % m = b % m
    BY <1>2, <2>1, Remainder
  <2> QED BY <2>1, <2>2
<1> QED BY <1>3, <1>4 DEF Divides

\* A number and its rest, sums, differences and products of the same numbers are the same.
LEMMA SameRest == ASSUME NEW m \in Int, m > 0, NEW a \in Int PROVE a % m \in Int /\ Same(m, a % m, a)
<1>1. a \div m \in Int /\ a % m \in Int /\ a = m * (a \div m) + (a % m)
  BY Quotient
<1>2. a % m = a + m * (-(a \div m)) /\ -(a \div m) \in Int
  BY <1>1
<1> QED BY <1>1, <1>2 DEF Same

LEMMA SameSum ==
  ASSUME NEW m \in Int, NEW a \in Int, NEW b \in Int, NEW c \in Int, NEW d \in Int, Same(m, a, b), Same(m, c, d)
  PROVE Same(m, a + c, b + d) /\ Same(m, a - c, b - d)
<1>1. PICK k \in Int : a = b + m * k
  BY DEF Same
<1>2. PICK l \in Int : c = d + m * l
  BY DEF Same
<1>3. a + c = (b + d) + m * (k + l) /\ k + l \in Int
  BY <1>1, <1>2
<1>4. a - c = (b - d) + m * (k - l) /\ k - l \in Int
  BY <1>1, <1>2
<1> QED BY <1>3, <1>4, Zenon DEF Same

LEMMA SameProduct ==
  ASSUME NEW m \in Int, NEW a \in Int, NEW b \in Int, NEW c \in Int, Same(m, a, b)
  PROVE Same(m, c * a, c * b) /\ Same(m, a * c, b * c)
<1>1. PICK k \in Int : a = b + m * k
  BY DEF Same
<1>2. c * a = c * b + m * (c * k) /\ a * c = b * c + m * (c * k) /\ c * k \in Int
  BY <1>1
<1> QED BY <1>2 DEF Same

LEMMA SameThrough ==
  ASSUME NEW m \in Int, NEW a \in Int, NEW b \in Int, NEW c \in Int, Same(m, a, b), Same(m, b, c)
  PROVE Same(m, a, c)
<1>1. PICK k \in Int : a = b + m * k
  BY DEF Same
<1>2. PICK l \in Int : b = c + m * l
  BY DEF Same
<1>3. a = c + m * (k + l) /\ k + l \in Int
  BY <1>1, <1>2
<1> QED BY <1>3, Zenon DEF Same

LEMMA SameItself == ASSUME NEW m \in Int, NEW a \in Int PROVE Same(m, a, a)
<1>1. a = a + m * 0
  OBVIOUS
<1> QED BY <1>1 DEF Same

LEMMA SameDivides ==
  ASSUME NEW m \in Int, NEW a \in Int, NEW b \in Int, Same(m, a, b)
  PROVE Divides(m, a) <=> Divides(m, b)
<1>1. PICK k \in Int : a = b + m * k
  BY DEF Same
<1>2. ASSUME NEW l \in Int, a = m * l PROVE Divides(m, b)
  <2>1. b = m * (l - k)
    BY <1>1, <1>2
  <2> QED BY <2>1 DEF Divides
<1>3. ASSUME NEW l \in Int, b = m * l PROVE Divides(m, a)
  <2>1. a = m * (l + k)
    BY <1>1, <1>3
  <2> QED BY <2>1 DEF Divides
<1> QED BY <1>2, <1>3 DEF Divides
-----------------------------------------------------------------------------
\* What a power of 2 divides, so does a lower one.
LEMMA LowerPower ==
  ASSUME NEW n \in Nat, NEW a \in Int
  PROVE \A v \in Nat : Divides(2^(n + v), a) => Divides(2^n, a)
<1> DEFINE S == {v \in Nat : Divides(2^(n + v), a) => Divides(2^n, a)}
<1>1. 0 \in S
  BY n + 0 = n
<1>2. ASSUME NEW v \in Nat, v \in S PROVE v + 1 \in S
  <2> SUFFICES ASSUME Divides(2^(n + (v + 1)), a) PROVE Divides(2^n, a)
    OBVIOUS
  <2>1. n + (v + 1) = (n + v) + 1 /\ n + v \in Nat
    OBVIOUS
  <2>2. 2^(n + (v + 1)) = 2 * 2^(n + v) /\ 2^(n + v) \in Nat
    BY <2>1, PowerDoubles, PowerPositive
  <2>3. PICK k \in Int : a = 2^(n + (v + 1)) * k
    BY DEF Divides
  <2>4. a = 2^(n + v) * (2 * k) /\ 2 * k \in Int
    BY <2>2, <2>3
  <2>5. Divides(2^(n + v), a)
    BY <2>4, Zenon DEF Divides
  <2> QED BY <1>2, <2>5
<1> HIDE DEF S
<1>3. Nat \subseteq S
  BY <1>1, <1>2, Induct
<1> QED BY <1>3 DEF S

\* A number is even or odd.
LEMMA Parity == ASSUME NEW d \in Int PROVE \E c \in Int : d = 2 * c \/ d = 2 * c + 1
  BY d \div 2 \in Int, d % 2 \in 0..1, d = 2 * (d \div 2) + (d % 2)

\* An odd factor has no part in it.
LEMMA OddFactor ==
  ASSUME NEW d \in Int, NEW c \in Int, d = 2 * c + 1
  PROVE \A n \in Nat : \A a \in Int : Divides(2^n, a * d) => Divides(2^n, a)
<1> DEFINE S == {n \in Nat : \A a \in Int : Divides(2^n, a * d) => Divides(2^n, a)}
<1>1. 0 \in S
  <2>1. 2^0 = 1
    OBVIOUS
  <2>2. \A a \in Int : a = 1 * a
    OBVIOUS
  <2> QED BY <2>1, <2>2 DEF Divides
<1>2. ASSUME NEW n \in Nat, n \in S PROVE n + 1 \in S
  <2> SUFFICES ASSUME NEW a \in Int, Divides(2^(n + 1), a * d) PROVE Divides(2^(n + 1), a)
    OBVIOUS
  <2> DEFINE p == 2^n
  <2>1. 2^(n + 1) = 2 * p /\ p \in Int
    BY PowerDoubles, PowerPositive
  <2>2. PICK k \in Int : a * d = (2 * p) * k
    BY <2>1 DEF Divides
  <2> HIDE DEF p
  <2>3. a = 2 * (p * k - a * c) /\ p * k \in Int /\ a * c \in Int
    <3>1. a * d = 2 * (a * c) + a /\ p * k \in Int /\ a * c \in Int /\ (2 * p) * k = 2 * (p * k)
      BY <2>1
    <3> QED BY <2>2, <3>1
  <2>4. PICK b \in Int : a = 2 * b
    BY <2>3, p * k - a * c \in Int
  <2>5. b * d = p * k
    <3>1. a * d = 2 * (b * d) /\ (2 * p) * k = 2 * (p * k) /\ b * d \in Int /\ p * k \in Int
      BY <2>1, <2>4
    <3> QED BY <2>2, <3>1
  <2>6. Divides(p, b * d)
    BY <2>5 DEF Divides
  <2>7. Divides(p, b)
    BY <1>2, <2>6 DEF p
  <2>8. PICK j \in Int : b = p * j
    BY <2>7 DEF Divides
  <2>9. a = (2 * p) * j
    BY <2>1, <2>4, <2>8
  <2> QED BY <2>1, <2>9 DEF Divides
<1> HIDE DEF S
<1>3. Nat \subseteq S
  BY <1>1, <1>2, Induct
<1> QED BY <1>3 DEF S

\* A product divided by v + s powers of 2 has v of them in one factor, or more
\* than s in the other.
LEMMA SharedPowers ==
  ASSUME NEW s \in Nat
  PROVE \A v \in Nat : \A a, d \in Int : Divides(2^(v + s), a * d) => Divides(2^(s + 1), a) \/ Divides(2^v, d)
<1> DEFINE S == {v \in Nat : \A a, d \in Int : Divides(2^(v + s), a * d) => Divides(2^(s + 1), a) \/ Divides(2^v, d)}
<1>1. 0 \in S
  <2>1. 2^0 = 1
    OBVIOUS
  <2>2. \A d \in Int : d = 1 * d
    OBVIOUS
  <2> QED BY <2>1, <2>2 DEF Divides
<1>2. ASSUME NEW v \in Nat, v \in S PROVE v + 1 \in S
  <2> SUFFICES ASSUME NEW a \in Int, NEW d \in Int, Divides(2^((v + 1) + s), a * d)
               PROVE Divides(2^(s + 1), a) \/ Divides(2^(v + 1), d)
    OBVIOUS
  <2>1. (v + 1) + s = (v + s) + 1 /\ v + s \in Nat /\ (v + 1) + s = (s + 1) + v /\ (v + 1) + s \in Nat /\ s + 1 \in Nat
    OBVIOUS
  <2>2. PICK c \in Int : d = 2 * c \/ d = 2 * c + 1
    BY Parity
  <2>3. CASE d = 2 * c + 1
    <3>1. Divides(2^((v + 1) + s), a)
      BY <2>1, <2>3, OddFactor
    <3> QED BY <2>1, <3>1, LowerPower
  <2>4. CASE d = 2 * c
    <3> DEFINE p == 2^(v + s)
    <3>1. 2^((v + 1) + s) = 2 * p /\ p \in Int
      BY <2>1, PowerDoubles, PowerPositive
    <3>2. PICK k \in Int : a * d = (2 * p) * k
      BY <3>1 DEF Divides
    <3> HIDE DEF p
    <3>3. a * c = p * k
      <4>1. a * d = 2 * (a * c) /\ (2 * p) * k = 2 * (p * k) /\ a * c \in Int /\ p * k \in Int
        BY <2>4, <3>1
      <4> QED BY <3>2, <4>1
    <3>4. Divides(p, a * c)
      BY <3>3 DEF Divides
    <3>5. Divides(2^(s + 1), a) \/ Divides(2^v, c)
      BY <1>2, <3>4 DEF p
    <3>6. ASSUME Divides(2^v, c) PROVE Divides(2^(v + 1), d)
      <4>1. PICK j \in Int : c = 2^v * j
        BY <3>6 DEF Divides
      <4>2. 2^(v + 1) = 2 * 2^v /\ 2^v \in Int
        BY PowerDoubles, PowerPositive
      <4>3. d = 2^(v + 1) * j
        BY <2>4, <4>1, <4>2
      <4> QED BY <4>3 DEF Divides
    <3> QED BY <3>5, <3>6
  <2> QED BY <2>2, <2>3, <2>4
<1> HIDE DEF S
<1>3. Nat \subseteq S
  BY <1>1, <1>2, Induct
<1> QED BY <1>3 DEF S

\* A power of a sum is a product.
LEMMA PowerAdds == ASSUME NEW n \in Nat PROVE \A v \in Nat : 2^(v + n) = 2^v * 2^n
<1> DEFINE S == {v \in Nat : 2^(v + n) = 2^v * 2^n}
<1>1. 0 \in S
  <2>1. 2^0 = 1 /\ 0 + n = n /\ 2^n \in Nat
    BY PowerPositive
  <2> QED BY <2>1
<1>2. ASSUME NEW v \in Nat, v \in S PROVE v + 1 \in S
  <2>1. (v + 1) + n = (v + n) + 1 /\ v + n \in Nat
    OBVIOUS
  <2>2. 2^((v + 1) + n) = 2 * 2^(v + n) /\ 2^(v + 1) = 2 * 2^v /\ 2^v \in Nat /\ 2^n \in Nat
    BY <2>1, PowerDoubles, PowerPositive
  <2>3. 2^(v + n) = 2^v * 2^n
    BY <1>2
  <2>4. 2 * (2^v * 2^n) = (2 * 2^v) * 2^n
    BY <2>2
  <2> QED BY <2>2, <2>3, <2>4
<1> HIDE DEF S
<1>3. Nat \subseteq S
  BY <1>1, <1>2, Induct
<1> QED BY <1>3 DEF S
-----------------------------------------------------------------------------
(* Authenticated shares of values of ValueBits, in a ring of StatBits more. *)

RingSize == 2^(ValueBits + StatBits)
Widths == ValueBits \in Nat \ {0} /\ StatBits \in Nat
\* A value x, shared and authenticated, of which a party moved its share by delta.
MovedShares(x, key, mask, macMask, party, delta) == Sharing!Tampered(Sharing!AuthShare(x, key, mask, macMask), party, delta)

\* Taking a number into the ring keeps it the same, up to the size of the ring.
LEMMA RingSizePositive == ASSUME Widths PROVE RingSize \in Int /\ RingSize > 0
<1>1. ValueBits + StatBits \in Nat
  BY DEF Widths
<1> QED BY <1>1, PowerPositive DEF RingSize

LEMMA ModIs == ASSUME NEW x PROVE Sharing!Mod(x) = x % RingSize
  BY DEF Sharing!Mod, RingSize

LEMMA ModSame == ASSUME Widths, NEW x \in Int PROVE Sharing!Mod(x) \in Int /\ Same(RingSize, Sharing!Mod(x), x)
  BY RingSizePositive, ModIs, SameRest

\* A sharing joins to the value, mask or no mask.
LEMMA Joins ==
  ASSUME Widths, NEW x \in Int, NEW mask \in Int
  PROVE /\ Sharing!ShareOf(x, mask)[1] \in Int /\ Sharing!ShareOf(x, mask)[2] \in Int
        /\ Same(RingSize, Sharing!ShareOf(x, mask)[1] + Sharing!ShareOf(x, mask)[2], x)
<1> DEFINE a == Sharing!Mod(x - mask)
           b == Sharing!Mod(mask)
<1>1. Sharing!ShareOf(x, mask)[1] = a /\ Sharing!ShareOf(x, mask)[2] = b
  BY DEF Sharing!ShareOf
<1>2. a \in Int /\ Same(RingSize, a, x - mask)
  BY x - mask \in Int, ModSame
<1>3. b \in Int /\ Same(RingSize, b, mask)
  BY ModSame
<1> HIDE DEF a, b
<1>4. Same(RingSize, a + b, (x - mask) + mask)
  BY <1>2, <1>3, RingSizePositive, x - mask \in Int, SameSum
<1>5. (x - mask) + mask = x
  OBVIOUS
<1> QED BY <1>1, <1>2, <1>3, <1>4, <1>5

\* What a moved share makes of the value and of the MAC.
LEMMA MovedJoins ==
  ASSUME Widths, NEW x \in Int, NEW key \in [1..2 -> Int], NEW mask \in Int, NEW macMask \in Int,
         NEW party \in 1..2, NEW delta \in Int
  PROVE LET m == MovedShares(x, key, mask, macMask, party, delta) IN
        /\ Sharing!Joined(m.value) \in Int /\ Same(RingSize, Sharing!Joined(m.value), x + delta)
        /\ m.mac[1] \in Int /\ m.mac[2] \in Int
        /\ Same(RingSize, m.mac[1] + m.mac[2], Sharing!Joined(key) * x)
<1> DEFINE A == Sharing!Joined(key)
           s == Sharing!ShareOf(x, mask)
           t == Sharing!ShareOf(Sharing!Mod(A * x), macMask)
           m == MovedShares(x, key, mask, macMask, party, delta)
           N == RingSize
<1>1. A \in Int
  BY ModSame, key[1] + key[2] \in Int DEF Sharing!Joined
<1>2. /\ m.mac = t
      /\ m.value = [s EXCEPT ![party] = Sharing!Mod(s[party] + delta)]
  BY DEF MovedShares, Sharing!Tampered, Sharing!AuthShare
<1>3. DOMAIN s = 1..2
  BY DEF Sharing!ShareOf
<1>4. N \in Int
  BY RingSizePositive
<1>5. s[1] \in Int /\ s[2] \in Int /\ Same(N, s[1] + s[2], x)
  BY Joins
<1>6. A * x \in Int /\ Sharing!Mod(A * x) \in Int /\ Same(N, Sharing!Mod(A * x), A * x)
  BY <1>1, A * x \in Int, ModSame
<1>7. t[1] \in Int /\ t[2] \in Int /\ Same(N, t[1] + t[2], Sharing!Mod(A * x))
  BY <1>6, Joins
<1> HIDE DEF A, s, t, N, m
<1>8. Same(N, t[1] + t[2], A * x)
  BY <1>4, <1>6, <1>7, t[1] + t[2] \in Int, SameThrough
<1>9. Same(N, m.value[1] + m.value[2], x + delta) /\ m.value[1] \in Int /\ m.value[2] \in Int
  <2> DEFINE u == Sharing!Mod(s[party] + delta)
  <2>1. s[party] + delta \in Int
    BY <1>5
  <2>2. u \in Int /\ Same(N, u, s[party] + delta)
    BY <2>1, ModSame DEF N
  <2>3. Same(N, s[1], s[1]) /\ Same(N, s[2], s[2]) /\ Same(N, delta, delta)
    BY <1>4, <1>5, SameItself
  <2>4. Same(N, (s[1] + s[2]) + delta, x + delta)
    BY <1>4, <1>5, <2>3, s[1] + s[2] \in Int, SameSum
  <2> HIDE DEF u
  <2>5. CASE party = 1
    <3>1. m.value[1] = u /\ m.value[2] = s[2]
      BY <1>2, <1>3, <2>5 DEF u
    <3>2. Same(N, u + s[2], (s[1] + delta) + s[2])
      BY <1>4, <1>5, <2>1, <2>2, <2>3, <2>5, SameSum
    <3>3. (s[1] + delta) + s[2] = (s[1] + s[2]) + delta
      BY <1>5
    <3>4. Same(N, u + s[2], x + delta)
      BY <1>4, <1>5, <2>2, <2>4, <3>2, <3>3, u + s[2] \in Int, (s[1] + s[2]) + delta \in Int, SameThrough
    <3> QED BY <1>5, <2>2, <3>1, <3>4
  <2>6. CASE party = 2
    <3>1. m.value[2] = u /\ m.value[1] = s[1]
      BY <1>2, <1>3, <2>6 DEF u
    <3>2. Same(N, s[1] + u, s[1] + (s[2] + delta))
      BY <1>4, <1>5, <2>1, <2>2, <2>3, <2>6, SameSum
    <3>3. s[1] + (s[2] + delta) = (s[1] + s[2]) + delta
      BY <1>5
    <3>4. Same(N, s[1] + u, x + delta)
      BY <1>4, <1>5, <2>2, <2>4, <3>2, <3>3, s[1] + u \in Int, (s[1] + s[2]) + delta \in Int, SameThrough
    <3> QED BY <1>5, <2>2, <3>1, <3>4
  <2> QED BY <2>5, <2>6
<1>10. Sharing!Joined(m.value) \in Int /\ Same(N, Sharing!Joined(m.value), m.value[1] + m.value[2])
  BY <1>9, m.value[1] + m.value[2] \in Int, ModSame DEF Sharing!Joined, N
<1>11. Same(N, Sharing!Joined(m.value), x + delta)
  BY <1>4, <1>9, <1>10, m.value[1] + m.value[2] \in Int, SameThrough
<1> QED BY <1>2, <1>7, <1>8, <1>10, <1>11 DEF A, t, N, m

\* A moved value opens if the key's multiple of what it was moved by is made up for.
LEMMA OpensIf ==
  ASSUME Widths, NEW x \in Int, NEW key \in [1..2 -> Int], NEW mask \in Int, NEW macMask \in Int,
         NEW party \in 1..2, NEW delta \in Int, NEW shift \in Int
  PROVE Sharing!OpensShifted(MovedShares(x, key, mask, macMask, party, delta), key, shift)
        <=> Divides(RingSize, Sharing!Joined(key) * delta + shift)
<1> DEFINE A == Sharing!Joined(key)
           m == MovedShares(x, key, mask, macMask, party, delta)
           X == Sharing!Joined(m.value)
           N == RingSize
           s1 == Sharing!Mod(key[1] * X - m.mac[1])
           s2 == Sharing!Mod(key[2] * X - m.mac[2])
           s3 == Sharing!Mod(s1 + shift)
<1>1. /\ X \in Int /\ Same(N, X, x + delta) /\ m.mac[1] \in Int /\ m.mac[2] \in Int
      /\ Same(N, m.mac[1] + m.mac[2], A * x)
  BY MovedJoins
<1>2. key[1] \in Int /\ key[2] \in Int /\ A \in Int /\ Same(N, A, key[1] + key[2])
  BY ModSame, key[1] + key[2] \in Int DEF Sharing!Joined
<1>3. N \in Int /\ N > 0
  BY RingSizePositive
<1>4. Sharing!OpensShifted(m, key, shift) <=> Sharing!Mod(s3 + s2) = 0
  BY DEF Sharing!OpensShifted, Sharing!SigmaCommit, Sharing!Sigma, Sharing!RevealHolds, Sharing!SigmasAddUp
<1> HIDE DEF m, X, A, N
<1>5. key[1] * X \in Int /\ key[2] * X \in Int /\ A * x \in Int /\ A * delta \in Int /\ A * X \in Int
  BY <1>1, <1>2
<1>6. s1 \in Int /\ Same(N, s1, key[1] * X - m.mac[1])
  BY <1>1, <1>5, key[1] * X - m.mac[1] \in Int, ModSame DEF N
<1>7. s2 \in Int /\ Same(N, s2, key[2] * X - m.mac[2])
  BY <1>1, <1>5, key[2] * X - m.mac[2] \in Int, ModSame DEF N
<1>8. s3 \in Int /\ Same(N, s3, s1 + shift)
  BY <1>6, s1 + shift \in Int, ModSame DEF N
<1> HIDE DEF s1, s2, s3
<1> DEFINE k1 == key[1] * X
           k2 == key[2] * X
           m1 == m.mac[1]
           m2 == m.mac[2]
<1>9. k1 \in Int /\ k2 \in Int /\ m1 \in Int /\ m2 \in Int
  BY <1>1, <1>5
<1>10. Same(N, s3, (k1 - m1) + shift)
  <2>1. Same(N, s1 + shift, (k1 - m1) + shift)
    BY <1>3, <1>6, <1>9, key[1] * X - m.mac[1] \in Int, SameItself, SameSum
  <2> QED BY <1>3, <1>6, <1>8, <1>9, <2>1, s1 + shift \in Int, (k1 - m1) + shift \in Int, SameThrough
<1>11. Same(N, s3 + s2, ((k1 - m1) + shift) + (k2 - m2))
  BY <1>3, <1>7, <1>8, <1>9, <1>10, (k1 - m1) + shift \in Int, k2 - m2 \in Int, SameSum
<1>12. ((k1 - m1) + shift) + (k2 - m2) = ((k1 + k2) - (m1 + m2)) + shift
  BY <1>9
<1>13. Same(N, k1 + k2, A * X)
  <2>1. Same(N, A * X, (key[1] + key[2]) * X)
    BY <1>1, <1>2, <1>3, key[1] + key[2] \in Int, SameProduct
  <2>2. (key[1] + key[2]) * X = k1 + k2
    BY <1>1, <1>2
  <2>3. PICK k \in Int : A * X = (k1 + k2) + N * k
    BY <2>1, <2>2 DEF Same
  <2>4. k1 + k2 = A * X + N * (-k) /\ -k \in Int
    BY <1>3, <1>5, <1>9, <2>3
  <2> QED BY <2>4 DEF Same
<1>14. Same(N, A * X, A * (x + delta))
  BY <1>1, <1>2, <1>3, x + delta \in Int, SameProduct
<1>22. x + delta \in Int /\ A * (x + delta) \in Int /\ k1 + k2 \in Int
  <2>1. x + delta \in Int
    OBVIOUS
  <2> QED BY <1>2, <1>9, <2>1
<1>15. Same(N, k1 + k2, A * (x + delta))
  BY <1>3, <1>5, <1>13, <1>14, <1>22, SameThrough
<1>16. Same(N, (k1 + k2) - (m1 + m2), A * (x + delta) - A * x)
  BY <1>1, <1>3, <1>5, <1>9, <1>15, <1>22, m1 + m2 \in Int, SameSum
<1>17. A * (x + delta) - A * x = A * delta
  BY <1>2
<1>18. Same(N, ((k1 + k2) - (m1 + m2)) + shift, A * delta + shift)
  BY <1>3, <1>5, <1>9, <1>16, <1>17, (k1 + k2) - (m1 + m2) \in Int, SameItself, SameSum
<1> HIDE DEF k1, k2, m1, m2
<1>19. Same(N, s3 + s2, A * delta + shift)
  BY <1>3, <1>5, <1>7, <1>8, <1>9, <1>11, <1>12, <1>18, s3 + s2 \in Int, ((k1 + k2) - (m1 + m2)) + shift \in Int,
     A * delta + shift \in Int, SameThrough
<1>20. Divides(N, s3 + s2) <=> Divides(N, A * delta + shift)
  BY <1>3, <1>5, <1>7, <1>8, <1>19, s3 + s2 \in Int, A * delta + shift \in Int, SameDivides
<1>21. Sharing!Mod(s3 + s2) = 0 <=> Divides(N, s3 + s2)
  BY <1>3, <1>7, <1>8, s3 + s2 \in Int, ModIs, DividesIsNoRest DEF N
<1> QED BY <1>4, <1>20, <1>21 DEF m, A, N

\* Two keys under which the same move passes agree in StatBits + 1 bits.
LEMMA KeysAgree ==
  ASSUME Widths, NEW delta \in 1..(2^ValueBits - 1), NEW shift \in Int, NEW a \in Int, NEW b \in Int,
         Divides(RingSize, a * delta + shift), Divides(RingSize, b * delta + shift)
  PROVE Divides(2^(StatBits + 1), a - b)
<1>1. ValueBits \in Nat /\ StatBits \in Nat /\ RingSize \in Int /\ 2^ValueBits \in Int
  BY PowerPositive, RingSizePositive DEF Widths
<1>2. PICK k \in Int : a * delta + shift = RingSize * k
  BY DEF Divides
<1>3. PICK l \in Int : b * delta + shift = RingSize * l
  BY DEF Divides
<1>4. (a - b) * delta = RingSize * (k - l) /\ k - l \in Int
  <2>1. (a - b) * delta = (a * delta + shift) - (b * delta + shift)
    BY <1>1
  <2>2. RingSize * k - RingSize * l = RingSize * (k - l)
    BY <1>1
  <2> QED BY <1>2, <1>3, <2>1, <2>2
<1>5. Divides(2^(ValueBits + StatBits), (a - b) * delta)
  BY <1>4 DEF Divides, RingSize
<1>6. a - b \in Int /\ delta \in Int
  BY <1>1
<1>7. Divides(2^(StatBits + 1), a - b) \/ Divides(2^ValueBits, delta)
  BY <1>1, <1>5, <1>6, SharedPowers
<1>8. ~Divides(2^ValueBits, delta)
  <2> SUFFICES ASSUME NEW j \in Int, delta = 2^ValueBits * j PROVE FALSE
    BY DEF Divides
  <2> DEFINE p == 2^ValueBits
  <2>1. p \in Int /\ p > 0 /\ delta = p * j /\ delta > 0 /\ delta < p
    BY <1>1
  <2> HIDE DEF p
  <2>2. j > 0
    BY <2>1
  <2>3. p * j >= p
    BY <2>1, <2>2
  <2> QED BY <2>1, <2>3
<1> QED BY <1>7, <1>8

\* The keys under which a value that a party moved opens, whatever is added to a sigma.
PassingRingKeys(x, mask, macMask, party, delta, shift, keyMask) ==
  {a \in Sharing!Ring : LET key == Sharing!ShareOf(a, keyMask) IN
     Sharing!OpensShifted(MovedShares(x, key, mask, macMask, party, delta), key, shift)}

\* openWithMacCheckShared: a value of which one party moved its share, by anything
\* that changes the value's bits, opens under one key in 2^(StatBits + 1) at most,
\* whatever the value, the masks and what that party adds to its sigma.
THEOREM FewKeysPass ==
  ASSUME Widths, NEW x \in Int, NEW mask \in Int, NEW macMask \in Int, NEW party \in 1..2,
         NEW delta \in 1..(2^ValueBits - 1), NEW shift \in Int, NEW keyMask \in Int
  PROVE Cardinality(PassingRingKeys(x, mask, macMask, party, delta, shift, keyMask)) <= 2^(ValueBits - 1)
<1> DEFINE K == PassingRingKeys(x, mask, macMask, party, delta, shift, keyMask)
           M == 2^(StatBits + 1)
           H == 2^(ValueBits - 1)
           N == RingSize
<1>1. ValueBits - 1 \in Nat /\ StatBits + 1 \in Nat /\ (ValueBits - 1) + (StatBits + 1) = ValueBits + StatBits
  BY DEF Widths
<1>2. M \in Nat /\ M > 0 /\ H \in Nat /\ H > 0 /\ N = H * M
  BY <1>1, PowerPositive, PowerAdds DEF RingSize
<1>3. delta \in Int
  BY PowerPositive DEF Widths
<1>4. ASSUME NEW a \in K PROVE a \in 0..(N - 1) /\ Divides(N, a * delta + shift)
  <2> DEFINE key == Sharing!ShareOf(a, keyMask)
             A == Sharing!Joined(key)
  <2>1. a \in 0..(N - 1) /\ Sharing!OpensShifted(MovedShares(x, key, mask, macMask, party, delta), key, shift)
    BY <1>4 DEF PassingRingKeys, Sharing!Ring, RingSize
  <2>2. N \in Int /\ a \in Int
    BY <1>2, <2>1
  <2>3. key[1] \in Int /\ key[2] \in Int /\ Same(N, key[1] + key[2], a)
    BY <2>2, Joins
  <2>4. key \in [1..2 -> Int]
    <3>1. key = <<key[1], key[2]>>
      BY DEF Sharing!ShareOf
    <3> HIDE DEF key
    <3> QED BY <2>3, <3>1
  <2>5. A \in Int /\ Same(N, A, key[1] + key[2])
    BY <2>3, key[1] + key[2] \in Int, ModSame DEF Sharing!Joined
  <2> HIDE DEF key, N
  <2>6. Divides(N, A * delta + shift)
    BY <1>3, <2>1, <2>4, OpensIf DEF N
  <2> HIDE DEF A
  <2>7. Same(N, A, a)
    BY <2>2, <2>3, <2>5, key[1] + key[2] \in Int, SameThrough
  <2>8. Same(N, A * delta, a * delta)
    BY <1>3, <2>2, <2>5, <2>7, SameProduct
  <2>9. Same(N, A * delta + shift, a * delta + shift)
    BY <1>3, <2>2, <2>5, <2>8, A * delta \in Int, a * delta \in Int, SameItself, SameSum
  <2> QED BY <1>3, <2>1, <2>2, <2>5, <2>6, <2>9, A * delta + shift \in Int, a * delta + shift \in Int, SameDivides
<1> HIDE DEF K, M, H, N
<1>5. ASSUME NEW a \in K, NEW b \in K PROVE Divides(M, a - b)
  <2>1. a \in Int /\ b \in Int
    BY <1>2, <1>4
  <2> QED BY <1>4, <2>1, KeysAgree DEF M, N
<1> DEFINE f == [a \in K |-> a \div M]
<1>6. f \in [K -> 0..(H - 1)]
  <2>1. ASSUME NEW a \in K PROVE a \div M \in 0..(H - 1)
    <3>1. a \in Int /\ 0 <= a /\ a < H * M
      BY <1>2, <1>4
    <3>2. a \div M \in Int /\ a % M \in 0..(M - 1) /\ a = M * (a \div M) + (a % M)
      BY <1>2, <3>1, Quotient
    <3>3. a \div M >= 0
      BY <1>2, <3>1, <3>2
    <3>4. a \div M < H
      BY <1>2, <3>1, <3>2
    <3> QED BY <1>2, <3>2, <3>3, <3>4
  <2> QED BY <2>1
<1>7. ASSUME NEW a \in K, NEW b \in K, f[a] = f[b] PROVE a = b
  <2>1. a \in Int /\ b \in Int /\ a \div M = b \div M
    BY <1>2, <1>4, <1>7
  <2>2. PICK j \in Int : a - b = M * j
    BY <1>5 DEF Divides
  <2>3. a - b = (a % M) - (b % M) /\ a % M \in 0..(M - 1) /\ b % M \in 0..(M - 1)
    <3>1. a = M * (a \div M) + (a % M) /\ a % M \in 0..(M - 1) /\ a \div M \in Int
      BY <1>2, <2>1, Quotient
    <3>2. b = M * (b \div M) + (b % M) /\ b % M \in 0..(M - 1)
      BY <1>2, <2>1, Quotient
    <3> QED BY <1>2, <2>1, <3>1, <3>2
  <2>4. M * j < M /\ M * j > -M
    BY <1>2, <2>2, <2>3
  <2>5. j < 1 /\ j > -1
    BY <1>2, <2>4
  <2>6. j = 0
    BY <2>5
  <2> QED BY <1>2, <2>1, <2>2, <2>6
<1>8. f \in Injection(K, 0..(H - 1))
  BY <1>6, <1>7 DEF Injection, IsInjective
<1>9. IsFiniteSet(0..(H - 1)) /\ Cardinality(0..(H - 1)) = H
  BY <1>2, FS_Interval
<1>10. Cardinality(K) <= H
  BY <1>8, <1>9, FS_Injection
<1> QED BY <1>10 DEF K, H
-----------------------------------------------------------------------------
(* What is released: once, charged once, and only what was opened. *)

\* A release is final, and so is the decision to abandon one.
Final == [][\A c \in Cell : out[c] # Pending => out'[c] = out[c]]_vars
Charged == {c \in Cell : at[c] = "end" /\ out[c] # Abandoned}
\* The budget was charged once for every cell that was released or suppressed, and
\* not for those given up.
ChargedOnce == spent.queries = Cardinality(Charged)
\* What a thread that opened its cell's count has gone on with, or given up.
Opened ==
  \A c \in Cell : conf.mode[c] = "threshold" =>
    /\ at[c] = "release" \/ (at[c] = "end" /\ out[c] # Abandoned) => Auth!OpensWhole(Count(c), conf.alpha)
    /\ out[c] = Abandoned => ~Auth!OpensWhole(Count(c), conf.alpha)

\* No cell is settled before its thread ends; only a cell of its mode is on its way.
Unsettled == \A c \in Cell : at[c] # "end" => out[c] = Pending
Ways == \A c \in Cell :
  /\ at[c] \in {"open", "release"} => conf.mode[c] = "threshold" /\ cells # <<>>
  /\ at[c] \in {"noise", "open noised"} => conf.mode[c] # "threshold"
  /\ at[c] = "end" => cells # <<>>
RInv ==
  /\ TInv /\ Unsettled /\ Ways /\ Opened /\ ChargedOnce
  /\ conf \in Confs

\* There are finitely many cells, and none is charged or settled at the start.
LEMMA CellsFinite == ASSUME conf \in Confs PROVE IsFiniteSet(Cell)
  BY ConfsAssumption DEF Cell

LEMMA ReleaseInit == Init => RInv
<1> SUFFICES ASSUME Init PROVE RInv
  OBVIOUS
<1>1. TInv
  BY TrailInit
<1>2. /\ at = [c \in Cell |-> "start"] /\ out = [c \in Cell |-> Pending] /\ conf \in Confs
      /\ spent.queries = 0
  BY DEF Init
<1>3. Charged = {}
  BY <1>2 DEF Charged
<1>4. ChargedOnce
  BY <1>2, <1>3, FS_EmptySet DEF ChargedOnce
<1>5. Unsettled /\ Ways /\ Opened
  BY <1>2, PendingAssumption DEF Unsettled, Ways, Opened
<1> QED BY <1>1, <1>2, <1>4, <1>5 DEF RInv

\* A step that leaves the threads alone: the cells, if they were there, are as they were.
LEMMA ReleaseUnread ==
  ASSUME RInv, TInv', UNCHANGED <<conf, at, out, spent>>, cells # <<>> => cells' = cells
  PROVE RInv'
<1>1. Cell' = Cell /\ Charged' = Charged
  BY DEF Cell, Charged
<1>2. Unsettled' /\ ChargedOnce' /\ (conf \in Confs)'
  BY <1>1 DEF RInv, Unsettled, ChargedOnce
<1>3. Ways'
  BY <1>1 DEF RInv, Ways
<1>4. ASSUME NEW c \in Cell, at[c] = "release" \/ at[c] = "end" PROVE Count(c)' = Count(c)
  BY <1>4 DEF RInv, Ways, Count
<1>5. \A c \in Cell : out[c] = Abandoned => at[c] = "end"
  BY PendingAssumption DEF RInv, Unsettled
<1>6. ASSUME NEW c \in Cell, conf.mode[c] = "threshold"
      PROVE /\ at[c] = "release" \/ (at[c] = "end" /\ out[c] # Abandoned) => Auth!OpensWhole(Count(c), conf.alpha)'
            /\ out[c] = Abandoned => ~Auth!OpensWhole(Count(c), conf.alpha)'
  BY <1>4, <1>5, <1>6 DEF RInv, Opened
<1>7. Opened'
  BY <1>1, <1>6 DEF Opened
<1> QED BY <1>2, <1>3, <1>7 DEF RInv

\* A step of the thread of c: the other cells and their threads stay.
Elsewhere(c) == \A d \in Cell : d # c => at'[d] = at[d] /\ out'[d] = out[d] /\ cells'[d] = cells[d]

\* What the invariant says of the other cells stays true.
LEMMA OthersStay ==
  ASSUME RInv, NEW c \in Cell, UNCHANGED conf, cells # <<>>, cells' # <<>>, Elsewhere(c)
  PROVE \A d \in Cell : d # c =>
          /\ at'[d] # "end" => out'[d] = Pending
          /\ at'[d] \in {"open", "release"} => conf'.mode[d] = "threshold"
          /\ at'[d] \in {"noise", "open noised"} => conf'.mode[d] # "threshold"
          /\ conf'.mode[d] = "threshold" =>
              /\ at'[d] = "release" \/ (at'[d] = "end" /\ out'[d] # Abandoned) => Auth!OpensWhole(Count(d), conf.alpha)'
              /\ out'[d] = Abandoned => ~Auth!OpensWhole(Count(d), conf.alpha)'
<1> SUFFICES ASSUME NEW d \in Cell, d # c
             PROVE /\ at'[d] # "end" => out'[d] = Pending
                   /\ at'[d] \in {"open", "release"} => conf'.mode[d] = "threshold"
                   /\ at'[d] \in {"noise", "open noised"} => conf'.mode[d] # "threshold"
                   /\ conf'.mode[d] = "threshold" =>
                       /\ at'[d] = "release" \/ (at'[d] = "end" /\ out'[d] # Abandoned) => Auth!OpensWhole(Count(d), conf.alpha)'
                       /\ out'[d] = Abandoned => ~Auth!OpensWhole(Count(d), conf.alpha)'
  OBVIOUS
<1>1. at'[d] = at[d] /\ out'[d] = out[d] /\ cells'[d] = cells[d]
  BY DEF Elsewhere
<1>2. Count(d)' = Count(d)
  BY <1>1 DEF Count
<1>3. Auth!OpensWhole(Count(d), conf.alpha)' <=> Auth!OpensWhole(Count(d), conf.alpha)
  BY <1>2
<1>4. at[d] # "end" => out[d] = Pending
  BY DEF RInv, Unsettled
<1>5. /\ at[d] \in {"open", "release"} => conf.mode[d] = "threshold"
      /\ at[d] \in {"noise", "open noised"} => conf.mode[d] # "threshold"
  BY DEF RInv, Ways
<1>6. conf.mode[d] = "threshold" =>
        /\ at[d] = "release" \/ (at[d] = "end" /\ out[d] # Abandoned) => Auth!OpensWhole(Count(d), conf.alpha)
        /\ out[d] = Abandoned => ~Auth!OpensWhole(Count(d), conf.alpha)
  BY DEF RInv, Opened
<1> QED BY <1>1, <1>3, <1>4, <1>5, <1>6

\* The thread of c goes on, and nothing is settled.
LEMMA ReleaseGoesOn ==
  ASSUME RInv, TInv', NEW c \in Cell, NEW there, UNCHANGED <<conf, out, spent>>,
         cells # <<>>, cells' # <<>>, at[c] # "end", there # "end", at' = [at EXCEPT ![c] = there],
         \A d \in Cell : d # c => cells'[d] = cells[d],
         there \in {"open", "release"} => conf.mode[c] = "threshold",
         there \in {"noise", "open noised"} => conf.mode[c] # "threshold",
         there = "release" => Auth!OpensWhole(Count(c), conf.alpha)'
  PROVE RInv'
<1>1. Cell' = Cell /\ DOMAIN at = Cell
  BY DEF Cell, RInv, TInv, Threads
<1>2. at'[c] = there /\ \A d \in Cell : d # c => at'[d] = at[d]
  BY <1>1
<1>3. Elsewhere(c)
  BY <1>2 DEF Elsewhere
<1>4. out'[c] = Pending /\ out'[c] # Abandoned
  BY PendingAssumption DEF RInv, Unsettled
<1>5. \A d \in Cell : d # c =>
          /\ at'[d] # "end" => out'[d] = Pending
          /\ at'[d] \in {"open", "release"} => conf'.mode[d] = "threshold"
          /\ at'[d] \in {"noise", "open noised"} => conf'.mode[d] # "threshold"
          /\ conf'.mode[d] = "threshold" =>
              /\ at'[d] = "release" \/ (at'[d] = "end" /\ out'[d] # Abandoned) => Auth!OpensWhole(Count(d), conf.alpha)'
              /\ out'[d] = Abandoned => ~Auth!OpensWhole(Count(d), conf.alpha)'
  BY <1>3, OthersStay
<1>6. Unsettled'
  BY <1>1, <1>4, <1>5 DEF Unsettled
<1>7. Ways'
  BY <1>1, <1>2, <1>5 DEF Ways
<1>8. Opened'
  BY <1>1, <1>2, <1>4, <1>5 DEF Opened
<1>9. Charged' = Charged
  BY <1>1, <1>2 DEF Charged
<1>10. ChargedOnce' /\ (conf \in Confs)'
  BY <1>9 DEF RInv, ChargedOnce
<1> QED BY <1>6, <1>7, <1>8, <1>10 DEF RInv

\* The thread of c ends, and settles its cell: charged for a release, not for an abandoned one.
LEMMA ReleaseEnds ==
  ASSUME RInv, TInv', NEW c \in Cell, NEW r, UNCHANGED conf, cells # <<>>, UNCHANGED cells,
         at[c] # "end", at' = [at EXCEPT ![c] = "end"], out' = [out EXCEPT ![c] = r],
         spent'.queries = IF r = Abandoned THEN spent.queries ELSE spent.queries + 1,
         conf.mode[c] = "threshold" => (r # Abandoned <=> Auth!OpensWhole(Count(c), conf.alpha))
  PROVE RInv'
<1>1. Cell' = Cell /\ DOMAIN at = Cell /\ DOMAIN out = Cell
  BY DEF Cell, RInv, TInv, Threads
<1>2. /\ at'[c] = "end" /\ out'[c] = r
      /\ \A d \in Cell : d # c => at'[d] = at[d] /\ out'[d] = out[d]
  BY <1>1
<1>3. Elsewhere(c)
  BY <1>2 DEF Elsewhere
<1>4. Auth!OpensWhole(Count(c), conf.alpha)' <=> Auth!OpensWhole(Count(c), conf.alpha)
  BY DEF Count
<1>5. \A d \in Cell : d # c =>
          /\ at'[d] # "end" => out'[d] = Pending
          /\ at'[d] \in {"open", "release"} => conf'.mode[d] = "threshold"
          /\ at'[d] \in {"noise", "open noised"} => conf'.mode[d] # "threshold"
          /\ conf'.mode[d] = "threshold" =>
              /\ at'[d] = "release" \/ (at'[d] = "end" /\ out'[d] # Abandoned) => Auth!OpensWhole(Count(d), conf.alpha)'
              /\ out'[d] = Abandoned => ~Auth!OpensWhole(Count(d), conf.alpha)'
  BY <1>3, OthersStay
<1>6. Unsettled'
  BY <1>1, <1>2, <1>5 DEF Unsettled
<1>7. Ways'
  BY <1>1, <1>2, <1>5 DEF Ways
<1>8. Opened'
  BY <1>1, <1>2, <1>4, <1>5 DEF Opened
<1>9. IsFiniteSet(Charged) /\ c \notin Charged /\ Charged \subseteq Cell
  <2>1. Charged \subseteq Cell /\ c \notin Charged
    BY DEF Charged
  <2> QED BY <2>1, CellsFinite, FS_Subset DEF RInv
<1>10. ChargedOnce'
  <2>1. CASE r = Abandoned
    <3>1. Charged' = Charged
      BY <1>1, <1>2, <2>1 DEF Charged
    <3> QED BY <2>1, <3>1 DEF RInv, ChargedOnce
  <2>2. CASE r # Abandoned
    <3>1. Charged' = Charged \cup {c}
      BY <1>1, <1>2, <2>2 DEF Charged
    <3>2. Cardinality(Charged \cup {c}) = Cardinality(Charged) + 1
      BY <1>9, FS_AddElement
    <3> QED BY <2>2, <3>1, <3>2 DEF RInv, ChargedOnce
  <2> QED BY <2>1, <2>2
<1> QED BY <1>6, <1>7, <1>8, <1>10 DEF RInv

\* No release is free.
LEMMA NoneFree ==
  /\ \A cell, xi, num, den, h1, h2 : NoisyThreshold(cell, xi, num, den, h1, h2).spent # 0
  /\ Rho.joint # 0
<1>1. /\ Rho.threshold \in Nat \ {0} /\ Rho.hist \in Nat \ {0} /\ Rho.num \in Nat \ {0} /\ Rho.den \in Nat \ {0}
      /\ Rho.joint \in Nat \ {0}
  BY RhoAssumption
<1>2. Rho.threshold # 0 /\ Rho.threshold + Rho.hist + Rho.num + Rho.den # 0 /\ Rho.joint # 0
  BY <1>1
<1>3. ASSUME NEW cell, NEW xi, NEW num, NEW den, NEW h1, NEW h2
      PROVE NoisyThreshold(cell, xi, num, den, h1, h2).spent
              \in {Rho.threshold, Rho.threshold + Rho.hist + Rho.num + Rho.den}
  <2>1. CASE Suppressed(cell, xi)
    BY <2>1 DEF NoisyThreshold
  <2>2. CASE ~Suppressed(cell, xi)
    BY <2>2 DEF NoisyThreshold
  <2> QED BY <2>1, <2>2
<1> QED BY <1>2, <1>3

\* One step for each action; those before the threads leave them alone.
LEMMA ReleaseNext == RInv /\ [Next]_vars => RInv'
<1> SUFFICES ASSUME RInv, [Next]_vars PROVE RInv'
  OBVIOUS
<1>1. TInv'
  BY TrailNext DEF RInv
<1>2. CASE Prepared \/ RunFPsa \/ Measure \/ RankAll \/ Compose \/ PutForward \/ UNCHANGED vars
  <2>1. UNCHANGED <<conf, at, out, spent, cells>>
    BY <1>2 DEF Prepared, Refuse, PackBins, NewNonce, RunFPsa, Measure, RankAll, Compose, PutForward, vars, threads
  <2> QED BY <1>1, <2>1, ReleaseUnread
<1>3. CASE Aggregate
  <2>1. UNCHANGED <<conf, at, out, spent>> /\ cells = <<>>
    BY <1>3 DEF Aggregate
  <2> QED BY <1>1, <2>1, ReleaseUnread
<1>4. ASSUME NEW c \in Cell, ReadLink(c) PROVE RInv'
  <2>1. /\ UNCHANGED <<conf, out, spent, cells>> /\ cells # <<>> /\ at[c] # "end"
        /\ at' = [at EXCEPT ![c] = "open"] /\ conf.mode[c] = "threshold"
    BY <1>4 DEF ReadLink, Goto, SessionUnchanged
  <2> QED BY <1>1, <2>1, ReleaseGoesOn
<1>5. ASSUME NEW c \in Cell, OpenHolds(c) PROVE RInv'
  <2>1. /\ UNCHANGED <<conf, out, spent, cells>> /\ cells # <<>> /\ at[c] = "open"
        /\ at' = [at EXCEPT ![c] = "release"] /\ Auth!OpensWhole(Count(c), conf.alpha)
    BY <1>5 DEF OpenHolds, Goto, SessionUnchanged
  <2>2. conf.mode[c] = "threshold"
    BY <2>1 DEF RInv, Ways
  <2>3. Auth!OpensWhole(Count(c), conf.alpha)'
    BY <2>1 DEF Count
  <2> QED BY <1>1, <2>1, <2>2, <2>3, ReleaseGoesOn
<1>6. ASSUME NEW c \in Cell, OpenFails(c) PROVE RInv'
  <2>1. /\ UNCHANGED <<conf, spent, cells>> /\ cells # <<>> /\ at[c] # "end"
        /\ at' = [at EXCEPT ![c] = "end"] /\ out' = [out EXCEPT ![c] = Abandoned]
        /\ ~Auth!OpensWhole(Count(c), conf.alpha)
    BY <1>6 DEF OpenFails, Goto, Settle, SessionUnchanged
  <2> QED BY <1>1, <2>1, ReleaseEnds
<1>7. ASSUME NEW c \in Cell, NoisyThresholdRelease(c) PROVE RInv'
  <2> DEFINE r(xi, x, y, h1, h2) == NoisyThreshold(cells[c], xi, x.num, y.den, h1, h2)
  <2>1. \E xi \in Xi, x, y \in Eta, h1, h2 \in HistNoise : Settle(c, r(xi, x, y, h1, h2), r(xi, x, y, h1, h2).spent)
    BY <1>7, Zenon DEF NoisyThresholdRelease
  <2>2. PICK xi \in Xi, x \in Eta, y \in Eta, h1 \in HistNoise, h2 \in HistNoise :
          Settle(c, r(xi, x, y, h1, h2), r(xi, x, y, h1, h2).spent)
    BY <2>1, Zenon
  <2>3. /\ UNCHANGED <<conf, cells>> /\ cells # <<>> /\ at[c] = "release" /\ at' = [at EXCEPT ![c] = "end"]
    BY <1>7 DEF NoisyThresholdRelease, Goto, SessionUnchanged
  <2>4. r(xi, x, y, h1, h2) # Abandoned /\ r(xi, x, y, h1, h2).spent # 0
    BY Released, NoneFree, Zenon
  <2> HIDE DEF r
  <2>5. out' = [out EXCEPT ![c] = r(xi, x, y, h1, h2)] /\ spent'.queries = spent.queries + 1
    BY <2>2, <2>4 DEF Settle, BudgetAfter
  <2>6. conf.mode[c] = "threshold" => Auth!OpensWhole(Count(c), conf.alpha)
    BY <2>3 DEF RInv, Opened
  <2> QED BY <1>1, <2>3, <2>4, <2>5, <2>6, ReleaseEnds
<1>8. ASSUME NEW c \in Cell, CoverAndGate(c) PROVE RInv'
  <2>1. /\ UNCHANGED <<conf, out, spent>> /\ cells # <<>> /\ at[c] # "end"
        /\ at' = [at EXCEPT ![c] = "noise"] /\ conf.mode[c] = "gate"
    BY <1>8 DEF CoverAndGate, Goto, SessionUnchanged
  <2>2. PICK x : cells' = [cells EXCEPT ![c] = x]
    BY <1>8 DEF CoverAndGate
  <2>3. cells' # <<>> /\ \A d \in Cell : d # c => cells'[d] = cells[d]
    BY <1>8, <2>1, <2>2 DEF RInv, TInv, Threads
  <2> QED BY <1>1, <2>1, <2>3, ReleaseGoesOn
<1>9. ASSUME NEW c \in Cell, JointNoiseAdded(c) PROVE RInv'
  <2>1. /\ UNCHANGED <<conf, out, spent>> /\ cells # <<>> /\ at[c] = "noise"
        /\ at' = [at EXCEPT ![c] = "open noised"]
    BY <1>9 DEF JointNoiseAdded, Goto, SessionUnchanged
  <2>2. PICK x : cells' = [cells EXCEPT ![c] = x]
    BY <1>9 DEF JointNoiseAdded
  <2>5. DOMAIN cells = Cell
    BY <2>1 DEF RInv, TInv, Threads
  <2>3. cells' # <<>> /\ \A d \in Cell : d # c => cells'[d] = cells[d]
    BY <2>2, <2>5
  <2>4. conf.mode[c] # "threshold"
    BY <2>1 DEF RInv, Ways
  <2> QED BY <1>1, <2>1, <2>3, <2>4, ReleaseGoesOn
<1>10. ASSUME NEW c \in Cell, OpenNoised(c) PROVE RInv'
  <2>1. /\ UNCHANGED <<conf, cells>> /\ cells # <<>> /\ at[c] = "open noised" /\ at' = [at EXCEPT ![c] = "end"]
        /\ out' = [out EXCEPT ![c] = OpenAndClamp(cells[c])] /\ spent'.queries = spent.queries + 1
    BY <1>10, NoneFree DEF OpenNoised, Goto, Settle, BudgetAfter, SessionUnchanged
  <2>2. OpenAndClamp(cells[c]) # Abandoned
    BY <2>1, Released DEF RInv, TInv, Threads
  <2>3. conf.mode[c] # "threshold"
    BY <2>1 DEF RInv, Ways
  <2> QED BY <1>1, <2>1, <2>2, <2>3, ReleaseEnds
<1>11. ASSUME NEW c \in Cell, Thread(c) PROVE RInv'
  BY <1>4, <1>5, <1>6, <1>7, <1>8, <1>9, <1>10, <1>11 DEF Thread
<1> QED BY <1>2, <1>3, <1>11 DEF Next

LEMMA ReleaseAlways == Spec => []RInv
BY ReleaseInit, ReleaseNext, PTL DEF Spec

\* A cell is published, suppressed or abandoned once, and what became of it stays,
\* however the threads interleave.
THEOREM SettledForGood == Spec => Final
<1>1. ASSUME RInv, [Next]_vars PROVE \A c \in Cell : out[c] # Pending => out'[c] = out[c]
  <2> SUFFICES ASSUME NEW c \in Cell, out[c] # Pending PROVE out'[c] = out[c]
    OBVIOUS
  <2>1. at[c] = "end" /\ DOMAIN out = Cell
    BY <1>1 DEF RInv, Unsettled, TInv, Threads
  <2>2. CASE UNCHANGED out
    BY <2>2
  <2>3. ASSUME NEW d \in Cell, Thread(d) PROVE UNCHANGED out \/ (at[d] # "end" /\ \E r : out' = [out EXCEPT ![d] = r])
    <3>1. ReadLink(d) \/ OpenHolds(d) \/ CoverAndGate(d) \/ JointNoiseAdded(d) => UNCHANGED out
      BY DEF ReadLink, OpenHolds, CoverAndGate, JointNoiseAdded
    <3>2. OpenFails(d) \/ NoisyThresholdRelease(d) \/ OpenNoised(d) => at[d] # "end"
      BY DEF OpenFails, NoisyThresholdRelease, OpenNoised, Goto
    <3>3. OpenFails(d) \/ OpenNoised(d) => \E r : out' = [out EXCEPT ![d] = r]
      BY DEF OpenFails, OpenNoised, Settle
    <3>4. NoisyThresholdRelease(d) => \E r : out' = [out EXCEPT ![d] = r]
      BY DEF NoisyThresholdRelease, Settle
    <3> QED BY <2>3, <3>1, <3>2, <3>3, <3>4 DEF Thread
  <2>4. CASE \E d \in Cell : Thread(d)
    BY <2>1, <2>3, <2>4
  <2>5. Prepared \/ RunFPsa \/ Measure \/ RankAll \/ Compose \/ Aggregate \/ PutForward \/ UNCHANGED vars => UNCHANGED out
    BY DEF Prepared, Refuse, PackBins, NewNonce, RunFPsa, Measure, RankAll, Compose, Aggregate, PutForward, vars, threads
  <2> QED BY <1>1, <2>2, <2>4, <2>5 DEF Next
<1>2. RInv /\ [Next]_vars => [\A c \in Cell : out[c] # Pending => out'[c] = out[c]]_vars
  BY <1>1
<1> QED BY <1>2, ReleaseAlways, PTL DEF Spec, Final

\* The budget has been charged as often as cells were released or suppressed: no
\* release is charged twice, and one that was abandoned is not charged at all.
THEOREM Charges == Spec => []ChargedOnce
BY ReleaseAlways, PTL DEF RInv

\* A count with one share moved opens exactly if the key's multiple of the move is nothing.
LEMMA CountOpens ==
  ASSUME conf \in Confs, NEW c \in Cell, cells[c].n \in Word \X Word
  PROVE Auth!OpensWhole(Count(c), conf.alpha) <=> Wrap(Auth!Joined(conf.alpha) * conf.tamper[c]) = 0
<1> DEFINE N == 2^Width
           A == Auth!Joined(conf.alpha)
           x == JoinWord(cells[c].n)
           delta == conf.tamper[c]
           k == conf.mask
           a == Auth!AuthShare(x, conf.alpha, k, k)
           m == Count(c)
           X == Auth!Joined(m.value)
           Y == Auth!Joined(m.mac)
<1>1. N \in Int /\ N > 0 /\ Width + 0 = Width
  BY WidthAssumption, PowerPositive
<1>2. \A y : Auth!Mod(y) = y % N
  BY <1>1 DEF Auth!Mod
<1>3. \A y \in Int : Auth!Mod(y) \in Int /\ Same(N, Auth!Mod(y), y)
  <2> HIDE DEF N
  <2> QED BY <1>1, <1>2, SameRest
<1>4. /\ \A y \in Word : y \in Int
      /\ delta \in Int /\ k \in Int
      /\ conf.alpha[1] \in Int /\ conf.alpha[2] \in Int
  <2>1. \A y \in Word : y \in Int
    BY <1>1 DEF Word, AllOnes
  <2>2. conf.tamper \in [DOMAIN conf.mode -> Word] /\ k \in Word /\ conf.alpha \in Auth!AlphaShares
    BY ConfsAssumption
  <2>3. conf.alpha \in [1..2 -> Auth!Ring] /\ \A y \in Auth!Ring : y \in Int
    BY <1>1, <2>2 DEF Auth!AlphaShares, Auth!Ring
  <2> QED BY <2>1, <2>2, <2>3 DEF Cell
<1>5. x \in Int
  <2>1. cells[c].n[1] \in Int /\ cells[c].n[2] \in Int
    BY <1>4
  <2>2. \A y \in Int : y % N \in Int
    BY <1>1, <1>2, <1>3
  <2> QED BY <2>1, <2>2 DEF JoinWord, Wrap
<1>6. A \in Int
  BY <1>3, <1>4, conf.alpha[1] + conf.alpha[2] \in Int DEF Auth!Joined
<1> DEFINE s == Auth!ShareOf(x, k)
           t == Auth!ShareOf(Auth!Mod(A * x), k)
           u == Auth!Mod(s[1] + delta)
<1>7. m.mac = t /\ m.value = [s EXCEPT ![1] = u]
  BY DEF Count, Auth!Tampered, Auth!AuthShare
<1>8. m.value[1] = u /\ m.value[2] = s[2]
  BY <1>7 DEF Auth!ShareOf
<1>9. \A y \in Int : LET w == Auth!ShareOf(y, k) IN
        w[1] \in Int /\ w[2] \in Int /\ Same(N, w[1] + w[2], y)
  <2> SUFFICES ASSUME NEW y \in Int
               PROVE LET w == Auth!ShareOf(y, k) IN w[1] \in Int /\ w[2] \in Int /\ Same(N, w[1] + w[2], y)
    OBVIOUS
  <2> DEFINE p == Auth!Mod(y - k)
             q == Auth!Mod(k)
  <2>1. Auth!ShareOf(y, k)[1] = p /\ Auth!ShareOf(y, k)[2] = q
    BY DEF Auth!ShareOf
  <2>2. y - k \in Int /\ p \in Int /\ q \in Int /\ Same(N, p, y - k) /\ Same(N, q, k)
    BY <1>3, <1>4, y - k \in Int
  <2> HIDE DEF N, p, q, k
  <2>3. Same(N, p + q, (y - k) + k)
    BY <1>1, <1>4, <2>2, SameSum
  <2>4. (y - k) + k = y
    BY <1>4
  <2> QED BY <2>1, <2>2, <2>3, <2>4
<1>10. A * x \in Int /\ Auth!Mod(A * x) \in Int /\ Same(N, Auth!Mod(A * x), A * x)
  BY <1>3, <1>5, <1>6, A * x \in Int
<1>11. s[1] \in Int /\ s[2] \in Int /\ Same(N, s[1] + s[2], x)
  BY <1>5, <1>9
<1>12. t[1] \in Int /\ t[2] \in Int /\ Same(N, t[1] + t[2], Auth!Mod(A * x))
  BY <1>9, <1>10
<1>13. s[1] + delta \in Int /\ u \in Int /\ Same(N, u, s[1] + delta)
  BY <1>3, <1>4, <1>11, s[1] + delta \in Int
<1>14. X \in Int /\ X = Auth!Mod(u + s[2]) /\ Same(N, X, u + s[2])
  <2>1. X = Auth!Mod(u + s[2])
    BY <1>8 DEF Auth!Joined
  <2>2. u + s[2] \in Int
    BY <1>11, <1>13
  <2> QED BY <1>3, <2>1, <2>2
<1>15. Y \in Int /\ Y = (t[1] + t[2]) % N
  <2>1. Y = Auth!Mod(t[1] + t[2])
    BY <1>7 DEF Auth!Joined
  <2>2. t[1] + t[2] \in Int
    BY <1>12
  <2> QED BY <1>2, <1>3, <2>1, <2>2
<1>16. Auth!OpensWhole(m, conf.alpha) <=> (A * X) % N = Y
  BY <1>2 DEF Auth!OpensWhole
<1>17. Wrap(A * delta) = (A * delta) % N
  BY DEF Wrap
<1> HIDE DEF N, A, x, delta, k, a, m, X, Y, s, t, u
<1>18. Same(N, X, x + delta)
  <2>1. Same(N, u + s[2], (s[1] + delta) + s[2])
    BY <1>1, <1>11, <1>13, SameItself, SameSum
  <2>2. (s[1] + delta) + s[2] = (s[1] + s[2]) + delta
    BY <1>4, <1>11
  <2>3. Same(N, (s[1] + s[2]) + delta, x + delta)
    BY <1>1, <1>4, <1>5, <1>11, s[1] + s[2] \in Int, SameItself, SameSum
  <2>4. u + s[2] \in Int /\ (s[1] + s[2]) + delta \in Int /\ x + delta \in Int
    BY <1>4, <1>5, <1>11, <1>13
  <2>5. Same(N, u + s[2], x + delta)
    BY <1>1, <2>1, <2>2, <2>3, <2>4, SameThrough
  <2> QED BY <1>1, <1>14, <2>4, <2>5, SameThrough
<1>19. Same(N, t[1] + t[2], A * x)
  BY <1>1, <1>10, <1>12, t[1] + t[2] \in Int, SameThrough
<1>20. Same(N, A * X, A * (x + delta))
  <2>1. x + delta \in Int
    BY <1>4, <1>5
  <2> QED BY <1>1, <1>6, <1>14, <1>18, <2>1, SameProduct
<1>21. /\ A * X \in Int /\ A * delta \in Int /\ t[1] + t[2] \in Int /\ x + delta \in Int /\ A * (x + delta) \in Int
       /\ A * (x + delta) - A * x = A * delta
  <2>1. x + delta \in Int
    BY <1>4, <1>5
  <2>2. A * (x + delta) \in Int /\ A * (x + delta) - A * x = A * delta
    BY <1>4, <1>5, <1>6, <2>1
  <2> QED BY <1>4, <1>6, <1>12, <1>14, <2>1, <2>2
<1>22. Same(N, A * X - (t[1] + t[2]), A * delta)
  <2>1. Same(N, A * X - (t[1] + t[2]), A * (x + delta) - A * x)
    BY <1>1, <1>10, <1>19, <1>20, <1>21, SameSum
  <2> QED BY <1>21, <2>1
<1>23. Divides(N, A * X - (t[1] + t[2])) <=> Divides(N, A * delta)
  BY <1>1, <1>21, <1>22, A * X - (t[1] + t[2]) \in Int, SameDivides
<1>24. (A * X) % N = (t[1] + t[2]) % N <=> Divides(N, A * X - (t[1] + t[2]))
  BY <1>1, <1>21, EqualRests
<1>25. Divides(N, A * delta) <=> (A * delta) % N = 0
  BY <1>1, <1>21, DividesIsNoRest
<1> QED BY <1>15, <1>16, <1>17, <1>23, <1>24, <1>25 DEF m, A, delta

\* A count of which a share was moved (conf.tamper) is not released, except where
\* the key times the move is 0 in the ring; one that was not moved is not given up.
Withheld ==
  \A c \in Cell : conf.mode[c] = "threshold" /\ cells # <<>> /\ cells[c].n \in Word \X Word =>
    IF Wrap(Auth!Joined(conf.alpha) * conf.tamper[c]) = 0 THEN out[c] # Abandoned ELSE out[c] \in {Pending, Abandoned}

\* openWithAuditLog decides by the count alone: which threads run in between, and
\* what they append to the log, makes no difference to it.
THEOREM MovedCounts == Spec => []Withheld
<1>1. RInv => Withheld
  <2> SUFFICES ASSUME RInv, NEW c \in Cell, conf.mode[c] = "threshold", cells # <<>>, cells[c].n \in Word \X Word
               PROVE IF Wrap(Auth!Joined(conf.alpha) * conf.tamper[c]) = 0 THEN out[c] # Abandoned
                     ELSE out[c] \in {Pending, Abandoned}
    BY DEF Withheld
  <2>1. Auth!OpensWhole(Count(c), conf.alpha) <=> Wrap(Auth!Joined(conf.alpha) * conf.tamper[c]) = 0
    BY CountOpens DEF RInv
  <2>2. /\ at[c] = "end" /\ out[c] # Abandoned => Auth!OpensWhole(Count(c), conf.alpha)
        /\ out[c] = Abandoned => ~Auth!OpensWhole(Count(c), conf.alpha)
    BY DEF RInv, Opened
  <2>3. at[c] # "end" => out[c] = Pending
    BY DEF RInv, Unsettled
  <2> QED BY <2>1, <2>2, <2>3
<1> QED BY <1>1, ReleaseAlways, PTL
=============================================================================
