----------------------------- MODULE DiskProofs -----------------------------
(* Proofs about what is kept on disk, for every value of the constants: about
   AuditPersist, and then about KeyStore. *)
EXTENDS AuditPersist, KeyStore, TLAPS

Piece == {Stub, Torn} \cup {Frame(r) : r \in Report}

\* The variables as sequences.
Shapes == body \in Seq(Piece) /\ reported \in Seq(Report) /\ chain \in [Proc -> Seq(Report)]

\* Whoever is past flock holds it.
Locked == \A p \in Proc : pc[p] # "closed" => holder = p

\* Frames are numbered in the order of the file, each above the one it is chained to.
Numbered ==
  /\ \A i \in DOMAIN body : IsFrame(body[i]) => body[i].report.prev < body[i].report.id /\ body[i].report.id <= reports
  /\ \A i, j \in DOMAIN body :
       i < j /\ IsFrame(body[i]) /\ IsFrame(body[j]) => body[i].report.id < body[j].report.id

\* What append returned lies where an fsync has reached.
Durable == \A i \in DOMAIN reported : \E n \in 1..synced : body[n] = Frame(reported[i])

\* A report returned is chained to the one returned before, or to one in between.
Chained ==
  /\ \A i \in DOMAIN reported : reported[i].prev < reported[i].id
  /\ \A i, j \in DOMAIN reported : i < j => reported[i].id <= reported[j].prev

\* Whoever has the log open knows what was returned, up to its last link.
Knows(p) == pc[p] \in {"open", "written"} =>
  /\ LastLink(chain[p]) <= reports
  /\ \A i \in DOMAIN reported :
       reported[i].id <= LastLink(chain[p]) /\ \E n \in DOMAIN chain[p] : chain[p][n] = reported[i]

\* A frame that is not synced yet is the last, and chained to the mirror.
Pending(p) == pc[p] = "written" =>
  body # <<>> /\ IsFrame(body[Len(body)]) /\ body[Len(body)].report.prev = LastLink(chain[p])

\* While nothing has failed, the file is whole and the mirror is what it holds, but
\* for a frame not synced yet.
Intact == faults = 0 => header # "partial" /\ \A i \in DOMAIN body : IsFrame(body[i])
Mirrors(p, n) == header = "full" /\ chain[p] = [i \in 1..n |-> body[i].report]
Mirror(p) == faults = 0 =>
  /\ pc[p] = "open" => Mirrors(p, Len(body))
  /\ pc[p] = "written" => Mirrors(p, Len(body) - 1)

IInv == TypeOK /\ Shapes /\ Locked /\ Numbered /\ Durable /\ Chained /\ Intact
        /\ \A p \in Proc : Knows(p) /\ Pending(p) /\ Mirror(p)
-----------------------------------------------------------------------------
(* Pieces and sequences of them. *)

LEMMA Pieces ==
  /\ Stub \in Piece /\ Torn \in Piece /\ ~IsFrame(Stub) /\ ~IsFrame(Torn)
  /\ \A r \in Report : Frame(r) \in Piece /\ IsFrame(Frame(r)) /\ Frame(r).report = r
  /\ \A x \in Piece : IsFrame(x) => x.report \in Report /\ x = Frame(x.report)
  /\ \A x \in Piece : x = Stub \/ x = Torn \/ IsFrame(x)
<1>1. ~IsFrame(Stub) /\ ~IsFrame(Torn)
  BY DEF Stub, Torn, IsFrame
<1>2. ASSUME NEW r \in Report PROVE Frame(r) \in Piece /\ IsFrame(Frame(r)) /\ Frame(r).report = r
  BY DEF Piece, Frame, IsFrame
<1>3. \A x \in Piece : x = Stub \/ x = Torn \/ \E r \in Report : x = Frame(r)
  BY DEF Piece
<1>4. Stub \in Piece /\ Torn \in Piece
  BY DEF Piece
<1> QED BY <1>1, <1>2, <1>3, <1>4

LEMMA Appended ==
  ASSUME NEW S, NEW s \in Seq(S), NEW x \in S
  PROVE /\ Append(s, x) \in Seq(S) /\ Len(Append(s, x)) = Len(s) + 1 /\ Append(s, x) # <<>>
        /\ DOMAIN Append(s, x) = 1..(Len(s) + 1) /\ DOMAIN s = 1..Len(s) /\ Len(s) \in Nat
        /\ \A i \in 1..Len(s) : Append(s, x)[i] = s[i]
        /\ Append(s, x)[Len(s) + 1] = x
  OBVIOUS

LEMMA Lengths ==
  ASSUME NEW S, NEW s \in Seq(S)
  PROVE /\ DOMAIN s = 1..Len(s) /\ Len(s) \in Nat /\ (s = <<>> <=> Len(s) = 0)
        /\ \A i \in 1..Len(s) : s[i] \in S
  OBVIOUS

LEMMA LinkType == ASSUME NEW c \in Seq(Report) PROVE LastLink(c) \in 0..MaxReports
<1>1. CASE c = <<>>
  BY <1>1, ConstantsAssumption DEF LastLink
<1>2. CASE c # <<>>
  <2>1. Len(c) \in 1..Len(c) /\ c[Len(c)] \in Report
    BY <1>2, Lengths
  <2>2. c[Len(c)].id \in 1..MaxReports
    BY <2>1 DEF Report
  <2> QED BY <1>2, <2>2, ConstantsAssumption DEF LastLink, Last
<1> QED BY <1>1, <1>2

LEMMA Links == \A r \in Report : r.id \in Nat /\ r.prev \in Nat
  BY ConstantsAssumption DEF Report

LEMMA Between == ASSUME NEW a \in Nat, NEW b \in 0..a, a <= b PROVE b = a
  OBVIOUS

LEMMA SameEnd == ASSUME NEW a \in Nat, NEW b \in Nat, 1..a = 1..b PROVE a = b
<1>1. ASSUME a < b PROVE FALSE
  <2>1. b \in 1..b /\ b \notin 1..a
    BY <1>1
  <2> QED BY <2>1
<1>2. ASSUME b < a PROVE FALSE
  <2>1. a \in 1..a /\ a \notin 1..b
    BY <1>2
  <2> QED BY <2>1
<1> QED BY <1>1, <1>2

\* What the shapes say of the types.
LEMMA Elements ==
  ASSUME NEW b \in Seq(Piece), NEW c \in [Proc -> Seq(Report)], NEW r \in Seq(Report)
  PROVE /\ \A i \in DOMAIN b : b[i] \in {Stub, Torn} \cup {Frame(x) : x \in Report}
        /\ \A p \in Proc : \A i \in DOMAIN c[p] : c[p][i] \in Report
        /\ \A i \in DOMAIN r : r[i] \in Report
<1>1. \A i \in DOMAIN b : b[i] \in Piece
  BY Lengths
<1>2. ASSUME NEW p \in Proc, NEW i \in DOMAIN c[p] PROVE c[p][i] \in Report
  <2>1. c[p] \in Seq(Report)
    OBVIOUS
  <2> QED BY <2>1, <1>2, Lengths
<1>3. \A i \in DOMAIN r : r[i] \in Report
  BY Lengths
<1> QED BY <1>1, <1>2, <1>3 DEF Piece

LEMMA InitInv == Init => IInv
<1> SUFFICES ASSUME Init PROVE IInv
  OBVIOUS
<1>1. TypeOK /\ Shapes
  <2>1. Len(body) = 0 /\ 0 \in 0..MaxReports /\ 0 \in 0..MaxFaults
    BY ConstantsAssumption DEF Init
  <2> QED BY <2>1 DEF Init, TypeOK, Shapes
<1>2. Locked /\ Numbered /\ Durable /\ Chained /\ Intact
     /\ \A p \in Proc : Knows(p) /\ Pending(p) /\ Mirror(p)
  BY DEF Init, Locked, Numbered, Durable, Chained, Intact, Knows, Pending, Mirror
<1> QED BY <1>1, <1>2 DEF IInv
-----------------------------------------------------------------------------
(* The steps. *)

\* Nobody but the holder is past flock.
LEMMA Others ==
  ASSUME IInv, NEW p \in Proc, pc[p] # "closed"
  PROVE holder = p /\ \A q \in Proc : q # p => pc[q] = "closed"
  BY DEF IInv, Locked

\* After a step that leaves nobody with the log open and the body as it was.
LEMMA QuietInv ==
  ASSUME IInv, UNCHANGED <<body, reported, reports>>,
         header' \in {"none", "partial", "full"}, holder' \in Proc \cup {0}, synced' \in synced..Len(body),
         pc' \in [Proc -> {"closed", "opening", "open", "written"}], chain' \in [Proc -> Seq(Report)],
         outcome' \in [Proc -> {"none", "ok", "locked", "io", "truncated", "tampered"}],
         \A q \in Proc : pc'[q] = "closed" \/ (pc'[q] = "opening" /\ holder' = q),
         \/ faults' = faults /\ (header' = header \/ header' = "full")
         \/ faults' = faults + 1 /\ faults' \in 0..MaxFaults
  PROVE IInv'
<1>1. TypeOK' /\ Shapes'
  <2>1. Shapes'
    BY DEF IInv, Shapes
  <2>2. synced' \in 0..Len(body') /\ reports' \in 0..MaxReports /\ faults' \in 0..MaxFaults
    BY DEF IInv, TypeOK
  <2> QED BY <2>1, <2>2, Elements DEF TypeOK, Shapes
<1>2. Locked' /\ Numbered' /\ Durable' /\ Chained' /\ Intact'
  <2>1. Locked' /\ Numbered' /\ Chained'
    BY DEF IInv, Locked, Numbered, Chained
  <2>2. 1..synced \subseteq 1..synced'
    BY DEF IInv, TypeOK
  <2>3. Durable'
    BY <2>2 DEF IInv, Durable
  <2>4. Intact'
    BY DEF IInv, Intact, TypeOK
  <2> QED BY <2>1, <2>3, <2>4
<1>3. \A q \in Proc : (Knows(q) /\ Pending(q) /\ Mirror(q))'
  BY DEF Knows, Pending, Mirror
<1> QED BY <1>1, <1>2, <1>3 DEF IInv

\* A step that moves p to a place where the log is not open.
LEMMA LeavingInv ==
  ASSUME IInv, NEW p \in Proc, pc[p] # "closed" \/ holder = 0,
         pc' = [pc EXCEPT ![p] = "closed"] \/ (pc' = [pc EXCEPT ![p] = "opening"] /\ holder' = p),
         chain' = chain \/ chain' = [chain EXCEPT ![p] = <<>>], holder' \in {holder, 0, p},
         UNCHANGED <<body, reported, reports>>, synced' \in {synced, Len(body)}, header' \in {"none", "partial", "full"},
         outcome' = outcome \/ \E o \in {"none", "io", "truncated", "tampered"} : outcome' = [outcome EXCEPT ![p] = o],
         \/ faults' = faults /\ (header' = header \/ header' = "full")
         \/ faults' = faults + 1 /\ faults < MaxFaults
  PROVE IInv'
<1>1. \A q \in Proc : q # p => pc[q] = "closed"
  BY Others, ConstantsAssumption DEF IInv, Locked
<1>2. /\ pc' \in [Proc -> {"closed", "opening", "open", "written"}]
      /\ \A q \in Proc : pc'[q] = "closed" \/ (pc'[q] = "opening" /\ holder' = q)
  BY <1>1 DEF IInv, TypeOK
<1>3. chain' \in [Proc -> Seq(Report)]
  <2>1. chain[p] \in Seq(Report) /\ <<>> \in Seq(Report)
    BY DEF IInv, Shapes
  <2> QED BY <2>1 DEF IInv, Shapes
<1>4. outcome' \in [Proc -> {"none", "ok", "locked", "io", "truncated", "tampered"}] /\ holder' \in Proc \cup {0}
  BY DEF IInv, TypeOK
<1>5. /\ synced' \in synced..Len(body)
      /\ \/ faults' = faults /\ (header' = header \/ header' = "full")
         \/ faults' = faults + 1 /\ faults' \in 0..MaxFaults
  <2>1. Len(body) \in Nat /\ synced \in 0..Len(body) /\ faults \in 0..MaxFaults /\ MaxFaults \in Nat
    BY Lengths, ConstantsAssumption DEF IInv, TypeOK, Shapes
  <2> QED BY <2>1
<1> QED BY <1>2, <1>3, <1>4, <1>5, QuietInv

LEMMA OpenInv == ASSUME IInv, NEW p \in Proc, Open(p) PROVE IInv'
<1>1. CASE holder = 0
  <2>1. /\ pc' = [pc EXCEPT ![p] = "opening"] /\ holder' = p /\ outcome' = [outcome EXCEPT ![p] = "none"]
        /\ UNCHANGED <<header, body, synced, chain, reported, reports, faults>>
    BY <1>1 DEF Open, Goto, Set, file
  <2>2. header' \in {"none", "partial", "full"}
    BY <2>1 DEF IInv, TypeOK
  <2> QED BY <1>1, <2>1, <2>2, LeavingInv
<1>2. CASE holder # 0
  <2>1. UNCHANGED <<header, body, synced, holder, pc, chain, reported, reports, faults>> /\ outcome' = [outcome EXCEPT ![p] = "locked"]
    BY <1>2 DEF Open, Set, file
  <2>2. TypeOK' /\ Shapes' /\ Locked' /\ Intact'
    BY <2>1 DEF IInv, TypeOK, Shapes, Locked, Intact
  <2>3. Numbered' /\ Durable' /\ Chained'
    BY <2>1 DEF IInv, Numbered, Durable, Chained
  <2>4. \A q \in Proc : (Knows(q) /\ Pending(q) /\ Mirror(q))'
    BY <2>1 DEF IInv, Knows, Pending, Mirror, Mirrors
  <2> QED BY <2>2, <2>3, <2>4 DEF IInv
<1> QED BY <1>1, <1>2

LEMMA WriteHeaderInv == ASSUME IInv, NEW p \in Proc, WriteHeader(p) PROVE IInv'
<1>1. pc[p] = "opening" /\ holder = p /\ UNCHANGED <<body, synced, chain, reported, reports>>
  BY Others DEF WriteHeader
<1>2. CASE header' = "full" /\ UNCHANGED <<holder, pc, outcome, faults>>
  <2>1. \A q \in Proc : pc[q] = "closed" \/ (pc[q] = "opening" /\ holder = q)
    BY <1>1, Others
  <2>2. synced \in synced..Len(body)
    BY Lengths DEF IInv, TypeOK, Shapes
  <2> QED BY <1>1, <1>2, <2>1, <2>2, QuietInv DEF IInv, TypeOK, Shapes
<1>3. CASE ~(header' = "full" /\ UNCHANGED <<holder, pc, outcome, faults>>)
  <2>1. /\ header' \in {"partial", "full"} /\ faults' = faults + 1 /\ faults < MaxFaults
        /\ holder' = 0 /\ pc' = [pc EXCEPT ![p] = "closed"] /\ outcome' = [outcome EXCEPT ![p] = "io"]
    BY <1>1, <1>3 DEF WriteHeader, Fault, Unlock, Goto, Set
  <2> QED BY <1>1, <2>1, LeavingInv
<1> QED BY <1>2, <1>3

LEMMA CloseInv == ASSUME IInv, NEW p \in Proc, Close(p) PROVE IInv'
<1>1. /\ pc[p] = "open" /\ pc' = [pc EXCEPT ![p] = "closed"] /\ holder' \in {holder, 0}
      /\ synced' = Len(body) /\ chain' = [chain EXCEPT ![p] = <<>>]
      /\ UNCHANGED <<header, body, outcome, reported, reports, faults>>
  BY DEF Close, Unlock, Goto, Set
<1>2. header' \in {"none", "partial", "full"}
  BY <1>1 DEF IInv, TypeOK
<1> QED BY <1>1, <1>2, LeavingInv

LEMMA CrashInv == ASSUME IInv, NEW p \in Proc, Crash(p) PROVE IInv'
<1>1. /\ pc[p] # "closed" /\ pc' = [pc EXCEPT ![p] = "closed"] /\ holder' \in {holder, 0}
      /\ faults' = faults + 1 /\ faults < MaxFaults /\ chain' = [chain EXCEPT ![p] = <<>>]
      /\ UNCHANGED <<header, body, synced, outcome, reported, reports>>
  BY DEF Crash, Unlock, Goto, Set, Fault, file
<1>2. header' \in {"none", "partial", "full"}
  BY <1>1 DEF IInv, TypeOK
<1> QED BY <1>1, <1>2, LeavingInv

\* What loadFromDisk accepts: no frame behind part of a header, or frames and
\* perhaps a stub behind them.
LEMMA Accepted ==
  ASSUME "ok" \in LoadOutcomes
  PROVE \/ header = "partial" /\ \A i \in DOMAIN body : ~IsFrame(body[i])
        \/ header = "full" /\ Replays(body)
  BY DEF LoadOutcomes

\* What the loop reads of a file it accepts is every frame there is.
LEMMA LoadedAll ==
  ASSUME IInv, header = "full", Replays(body)
  PROVE /\ Frames(body) \in 0..Len(body) /\ Loaded = [i \in 1..Frames(body) |-> body[i].report]
        /\ Loaded \in Seq(Report) /\ Len(Loaded) = Frames(body)
        /\ \A i \in 1..Frames(body) : IsFrame(body[i]) /\ Loaded[i] = body[i].report
        /\ \A i \in DOMAIN body : IsFrame(body[i]) => i <= Frames(body)
<1> DEFINE n == Frames(body)
<1>1. DOMAIN body = 1..Len(body) /\ Len(body) \in Nat /\ (body = <<>> <=> Len(body) = 0)
      /\ \A i \in 1..Len(body) : body[i] \in Piece
  BY Lengths DEF IInv, Shapes
<1>2. n \in 0..Len(body)
  BY <1>1 DEF Frames
<1>3. /\ \A i \in 1..n : IsFrame(body[i])
      /\ \A i \in DOMAIN body : IsFrame(body[i]) => i <= n
  <2>1. CASE body = <<>>
    BY <1>1, <2>1 DEF Frames
  <2>2. CASE body # <<>>
    <3>1. Len(Front(body)) = Len(body) - 1 /\ \A i \in 1..(Len(body) - 1) : i \in DOMAIN Front(body) /\ Front(body)[i] = body[i]
      BY <1>1, <2>2 DEF Front
    <3>2. \A i \in 1..(Len(body) - 1) : IsFrame(body[i])
      BY <2>2, <3>1 DEF Replays, Whole
    <3>3. IF body[Len(body)] = Stub THEN n = Len(body) - 1 /\ ~IsFrame(body[Len(body)])
          ELSE n = Len(body) /\ IsFrame(body[Len(body)])
      <4>1. body[Len(body)] \in Piece /\ Last(body) = body[Len(body)]
        BY <1>1, <2>2 DEF Last
      <4>2. body[Len(body)] = Stub \/ IsFrame(body[Len(body)])
        BY <2>2, <4>1, Pieces DEF Replays
      <4>3. n = IF body[Len(body)] = Stub THEN Len(body) - 1 ELSE Len(body)
        BY <2>2, <4>1 DEF Frames
      <4> QED BY <4>2, <4>3, Pieces
    <3> QED BY <1>1, <3>2, <3>3
  <2> QED BY <2>1, <2>2
<1>4. \A i \in 1..n : body[i].report \in Report
  BY <1>1, <1>2, <1>3, Pieces
<1>5. Loaded = [i \in 1..n |-> body[i].report]
  BY DEF Loaded
<1> HIDE DEF n
<1>6. Loaded \in Seq(Report) /\ Len(Loaded) = n
  <2>1. n \in Nat /\ Loaded \in [1..n -> Report]
    BY <1>1, <1>2, <1>4, <1>5
  <2> QED BY <2>1
<1> QED BY <1>2, <1>3, <1>5, <1>6 DEF n

LEMMA LoadInv == ASSUME IInv, NEW p \in Proc, Load(p) PROVE IInv'
<1>1. pc[p] = "opening" /\ holder = p /\ \A q \in Proc : q # p => pc[q] = "closed"
  BY Others DEF Load
<1>2. PICK o \in LoadOutcomes :
        /\ outcome' = [outcome EXCEPT ![p] = o]
        /\ chain' = [chain EXCEPT ![p] = IF o = "ok" THEN Loaded ELSE <<>>]
        /\ pc' = [pc EXCEPT ![p] = IF o = "ok" THEN "open" ELSE "closed"]
        /\ IF o = "ok" THEN UNCHANGED holder ELSE Unlock(p)
  BY DEF Load, Goto, Set
<1>3. o \in {"ok", "truncated", "tampered"}
  BY <1>2 DEF LoadOutcomes
<1>4. UNCHANGED <<header, body, synced, reported, reports, faults>>
  BY DEF Load, file
<1>5. CASE o # "ok"
  <2>1. /\ pc' = [pc EXCEPT ![p] = "closed"] /\ chain' = [chain EXCEPT ![p] = <<>>] /\ holder' = 0
        /\ o \in {"none", "io", "truncated", "tampered"}
    BY <1>1, <1>2, <1>3, <1>5 DEF Unlock
  <2>2. header' \in {"none", "partial", "full"}
    BY <1>4 DEF IInv, TypeOK
  <2> QED BY <1>1, <1>2, <1>4, <2>1, <2>2, LeavingInv
<1>6. CASE o = "ok"
  <2>1. /\ Loaded \in Seq(Report) /\ LastLink(Loaded) <= reports
        /\ \A i \in DOMAIN reported :
             reported[i].id <= LastLink(Loaded) /\ \E n \in DOMAIN Loaded : Loaded[n] = reported[i]
        /\ faults = 0 => header = "full" /\ Loaded = [i \in 1..Len(body) |-> body[i].report]
    <3> DEFINE n == Frames(body)
    <3>1. CASE header = "partial" /\ \A i \in DOMAIN body : ~IsFrame(body[i])
      <4>1. reported = <<>>
        <5>1. ASSUME NEW i \in DOMAIN reported PROVE FALSE
          <6>1. PICK k \in 1..synced : body[k] = Frame(reported[i])
            BY <5>1 DEF IInv, Durable
          <6>2. k \in DOMAIN body /\ reported[i] \in Report
            BY <5>1, Lengths DEF IInv, TypeOK, Shapes
          <6> QED BY <3>1, <6>1, <6>2, Pieces
        <5> QED BY <5>1, Lengths DEF IInv, Shapes
      <4>2. Loaded = <<>> /\ faults # 0
        BY <3>1 DEF Loaded, IInv, Intact
      <4> QED BY <4>1, <4>2 DEF LastLink, IInv, TypeOK
    <3>2. CASE header = "full" /\ Replays(body)
      <4>1. /\ n \in 0..Len(body) /\ Loaded = [i \in 1..n |-> body[i].report]
            /\ Loaded \in Seq(Report) /\ Len(Loaded) = n /\ DOMAIN Loaded = 1..n /\ (Loaded = <<>> <=> n = 0)
            /\ \A i \in 1..n : IsFrame(body[i]) /\ Loaded[i] = body[i].report
            /\ \A i \in DOMAIN body : IsFrame(body[i]) => i <= n
        BY <3>2, LoadedAll, Lengths
      <4>2. DOMAIN body = 1..Len(body) /\ Len(body) \in Nat /\ n \in Nat
        BY <4>1, Lengths DEF IInv, Shapes
      <4>3. LastLink(Loaded) = IF n = 0 THEN 0 ELSE body[n].report.id
        BY <4>1, <4>2 DEF LastLink, Last
      <4> HIDE DEF n
      <4>4. LastLink(Loaded) <= reports
        BY <4>1, <4>2, <4>3 DEF IInv, Numbered, TypeOK
      <4>5. ASSUME NEW i \in DOMAIN reported
            PROVE  reported[i].id <= LastLink(Loaded) /\ \E k \in DOMAIN Loaded : Loaded[k] = reported[i]
        <5>1. PICK k \in 1..synced : body[k] = Frame(reported[i])
          BY DEF IInv, Durable
        <5>2. k \in DOMAIN body /\ reported[i] \in Report
          BY <4>2, Lengths DEF IInv, TypeOK, Shapes
        <5>3. IsFrame(body[k]) /\ body[k].report = reported[i]
          BY <5>1, <5>2, Pieces
        <5>4. k \in 1..n /\ n \in DOMAIN body /\ Loaded[k] = reported[i] /\ IsFrame(body[n])
          BY <4>1, <4>2, <5>2, <5>3
        <5>5. body[k].report.id <= body[n].report.id
          <6>1. CASE k = n
            <7>1. reported[i].id \in Nat
              BY <5>2, ConstantsAssumption DEF Report
            <7> QED BY <5>3, <6>1, <7>1
          <6>2. CASE k # n
            <7>1. k < n /\ body[k].report.id < body[n].report.id
              BY <4>2, <5>2, <5>3, <5>4, <6>2 DEF IInv, Numbered
            <7>2. body[n].report \in Report
              BY <5>4, Pieces, Lengths DEF IInv, Shapes
            <7>3. body[k].report.id \in Nat /\ body[n].report.id \in Nat
              BY <5>2, <5>3, <7>2, ConstantsAssumption DEF Report
            <7> QED BY <7>1, <7>3
          <6> QED BY <6>1, <6>2
        <5> QED BY <4>1, <4>3, <5>3, <5>4, <5>5
      <4>6. faults = 0 => n = Len(body)
        <5>1. ASSUME faults = 0, Len(body) # 0 PROVE Len(body) <= n
          <6>1. Len(body) \in DOMAIN body
            BY <4>2, <5>1
          <6>2. IsFrame(body[Len(body)])
            BY <5>1, <6>1 DEF IInv, Intact
          <6> QED BY <4>1, <6>1, <6>2
        <5>2. n \in 0..Len(body)
          BY <4>1
        <5> QED
          <6> SUFFICES ASSUME faults = 0 PROVE n = Len(body)
            OBVIOUS
          <6>1. CASE Len(body) = 0
            BY <5>2, <6>1
          <6>2. CASE Len(body) # 0
            <7>1. Len(body) <= n
              BY <5>1, <6>2
            <7> QED BY <4>2, <5>2, <7>1, Between
          <6> QED BY <6>1, <6>2
      <4> QED BY <3>2, <4>1, <4>4, <4>5, <4>6
    <3> QED BY <1>6, <3>1, <3>2, Accepted
  <2>2. chain' \in [Proc -> Seq(Report)] /\ chain'[p] = Loaded /\ pc'[p] = "open" /\ holder' = p
        /\ \A q \in Proc : q # p => pc'[q] = "closed"
    BY <1>1, <1>2, <1>6, <2>1 DEF IInv, TypeOK, Shapes
  <2>3. TypeOK' /\ Shapes'
    <3>1. Shapes'
      BY <1>4, <2>2 DEF IInv, Shapes
    <3>2. /\ pc' \in [Proc -> {"closed", "opening", "open", "written"}] /\ holder' \in Proc \cup {0}
          /\ outcome' \in [Proc -> {"none", "ok", "locked", "io", "truncated", "tampered"}]
      BY <1>1, <1>2, <1>6 DEF IInv, TypeOK
    <3> QED BY <1>4, <3>1, <3>2, Elements DEF IInv, TypeOK, Shapes
  <2>4. Locked' /\ Numbered' /\ Durable' /\ Chained' /\ Intact'
    BY <1>4, <2>2 DEF IInv, Locked, Numbered, Durable, Chained, Intact
  <2>5. \A q \in Proc : (Knows(q) /\ Pending(q) /\ Mirror(q))'
    BY <1>4, <2>1, <2>2 DEF Knows, Pending, Mirror, Mirrors
  <2> QED BY <2>3, <2>4, <2>5 DEF IInv
<1> QED BY <1>5, <1>6

\* After a step of p that keeps the log open: what concerns p is all there is to show.
LEMMA HolderInv ==
  ASSUME IInv, NEW p \in Proc, NEW there \in {"open", "written"}, pc[p] \in {"open", "written"},
         pc' = [pc EXCEPT ![p] = there], UNCHANGED <<header, holder, outcome>>,
         body' \in Seq(Piece), reported' \in Seq(Report), chain'[p] \in Seq(Report), chain' = [chain EXCEPT ![p] = chain'[p]],
         synced' \in 0..Len(body'), reports' \in 0..MaxReports, faults' \in 0..MaxFaults,
         Numbered', Durable', Chained', Intact', (Knows(p) /\ Pending(p) /\ Mirror(p))'
  PROVE IInv'
<1>1. \A q \in Proc : q # p => pc[q] = "closed"
  BY Others
<1>2. pc' \in [Proc -> {"closed", "opening", "open", "written"}] /\ pc'[p] = there
      /\ \A q \in Proc : q # p => pc'[q] = "closed"
  BY <1>1 DEF IInv, TypeOK
<1>3. Shapes'
  BY DEF IInv, Shapes
<1>4. TypeOK'
  BY <1>2, <1>3, Elements DEF IInv, TypeOK, Shapes
<1>5. Locked'
  BY <1>2, Others DEF Locked
<1>6. \A q \in Proc : q # p => (Knows(q) /\ Pending(q) /\ Mirror(q))'
  BY <1>2 DEF Knows, Pending, Mirror
<1> QED BY <1>3, <1>4, <1>5, <1>6 DEF IInv

LEMMA WriteInv == ASSUME IInv, NEW p \in Proc, NEW long \in Long, Write(p, long) PROVE IInv'
<1> DEFINE r == NewReport(p, long)
<1>1. /\ pc[p] = "open" /\ reports < MaxReports /\ reports' = reports + 1
      /\ UNCHANGED <<header, synced, holder, chain, outcome, reported>>
  BY DEF Write
<1>2. /\ reports \in Nat /\ reports' \in 1..MaxReports /\ LastLink(chain[p]) \in 0..MaxReports
      /\ LastLink(chain[p]) <= reports
  BY <1>1, LinkType, ConstantsAssumption DEF IInv, TypeOK, Shapes, Knows
<1>3. r \in Report /\ r.id = reports + 1 /\ r.prev = LastLink(chain[p])
  BY <1>1, <1>2, ConstantsAssumption DEF NewReport, Report
<1> HIDE DEF r
<1>4. body \in Seq(Piece) /\ DOMAIN body = 1..Len(body) /\ Len(body) \in Nat /\ synced \in 0..Len(body)
  BY Lengths DEF IInv, TypeOK, Shapes
<1>5. Knows(p)'
  BY <1>1, <1>2 DEF IInv, Knows
<1>6. ASSUME NEW x \in Piece, body' = Append(body, x),
             IsFrame(x) => x.report.id = reports + 1 /\ x.report.prev <= reports
      PROVE  /\ body' \in Seq(Piece) /\ synced' \in 0..Len(body') /\ Numbered' /\ Durable' /\ Chained'
             /\ DOMAIN body' = 1..(Len(body) + 1) /\ Len(body') = Len(body) + 1 /\ body'[Len(body')] = x
             /\ \A i \in 1..Len(body) : body'[i] = body[i]
  <2>1. /\ body' \in Seq(Piece) /\ DOMAIN body' = 1..(Len(body) + 1) /\ Len(body') = Len(body) + 1
        /\ body'[Len(body) + 1] = x /\ \A i \in 1..Len(body) : body'[i] = body[i]
    BY <1>4, <1>6, Appended
  <2>2. \A i \in 1..Len(body) : IsFrame(body[i]) =>
          body[i].report.prev < body[i].report.id /\ body[i].report.id <= reports
          /\ body[i].report.id \in Nat /\ body[i].report.prev \in Nat
    <3>1. \A i \in 1..Len(body) : IsFrame(body[i]) => body[i].report \in Report
      BY <1>4, Pieces, Lengths
    <3> QED BY <1>4, <3>1, ConstantsAssumption DEF IInv, Numbered, Report
  <2>3. IsFrame(x) => x.report \in Report /\ x.report.prev \in Nat
    BY Pieces, ConstantsAssumption DEF Report
  <2>4. Numbered'
    <3>1. \A i \in DOMAIN body' : IsFrame(body'[i]) => body'[i].report.prev < body'[i].report.id /\ body'[i].report.id <= reports'
      BY <1>1, <1>2, <1>4, <1>6, <2>1, <2>2, <2>3
    <3>2. ASSUME NEW i \in DOMAIN body', NEW j \in DOMAIN body', i < j, IsFrame(body'[i]), IsFrame(body'[j])
          PROVE  body'[i].report.id < body'[j].report.id
      <4>1. i \in 1..Len(body) /\ body'[i] = body[i]
        BY <1>4, <2>1, <3>2
      <4>2. CASE j \in 1..Len(body)
        BY <1>4, <2>1, <3>2, <4>1, <4>2 DEF IInv, Numbered
      <4>3. CASE j = Len(body) + 1
        BY <1>2, <1>6, <2>1, <2>2, <3>2, <4>1, <4>3
      <4> QED BY <1>4, <2>1, <4>2, <4>3
    <3> QED BY <3>1, <3>2 DEF Numbered
  <2>5. Durable'
    <3>1. \A n \in 1..synced : body'[n] = body[n]
      BY <1>4, <2>1
    <3> QED BY <1>1, <3>1 DEF IInv, Durable
  <2>6. Chained'
    BY <1>1 DEF IInv, Chained
  <2> QED BY <1>1, <1>4, <2>1, <2>4, <2>5, <2>6
<1>7. reported' \in Seq(Report) /\ chain'[p] \in Seq(Report) /\ chain' = [chain EXCEPT ![p] = chain'[p]] /\ pc = [pc EXCEPT ![p] = "open"]
      /\ reports' \in 0..MaxReports
  BY <1>1, <1>2 DEF IInv, TypeOK, Shapes
<1>8. CASE body' = Append(body, Frame(r)) /\ pc' = [pc EXCEPT ![p] = "written"] /\ faults' = faults
  <2>1. Frame(r) \in Piece /\ IsFrame(Frame(r)) /\ Frame(r).report = r
    BY <1>3, Pieces
  <2>2. /\ body' \in Seq(Piece) /\ synced' \in 0..Len(body') /\ Numbered' /\ Durable' /\ Chained'
        /\ DOMAIN body' = 1..(Len(body) + 1) /\ Len(body') = Len(body) + 1 /\ body'[Len(body')] = Frame(r)
        /\ \A i \in 1..Len(body) : body'[i] = body[i]
    BY <1>2, <1>3, <1>6, <1>8, <2>1
  <2>3. pc'[p] = "written" /\ faults' \in 0..MaxFaults
    BY <1>8 DEF IInv, TypeOK
  <2>4. Intact'
    BY <1>1, <1>4, <1>8, <2>1, <2>2 DEF IInv, Intact
  <2>5. Pending(p)'
    <3>1. body' # <<>>
      BY <1>4, <2>2
    <3> QED BY <1>1, <1>3, <2>1, <2>2, <3>1 DEF Pending
  <2>6. Mirror(p)'
    <3>1. Len(body') - 1 = Len(body)
      BY <1>4, <2>2
    <3>2. [i \in 1..Len(body) |-> body'[i].report] = [i \in 1..Len(body) |-> body[i].report]
      BY <2>2
    <3> QED BY <1>1, <1>8, <2>3, <3>1, <3>2 DEF IInv, Mirror, Mirrors
  <2> QED BY <1>1, <1>5, <1>7, <1>8, <2>2, <2>3, <2>4, <2>5, <2>6, HolderInv
<1>9. ASSUME Fault, pc' = pc, body' = body \/ \E x \in {Stub, Torn} : body' = Append(body, x) PROVE IInv'
  <2>1. body' \in Seq(Piece) /\ synced' \in 0..Len(body') /\ Numbered' /\ Durable' /\ Chained'
    <3>1. CASE body' = body
      <4>1. Numbered'
        <5>1. \A i \in DOMAIN body : IsFrame(body[i]) => body[i].report.id \in Nat
          BY <1>4, Pieces, Lengths, ConstantsAssumption DEF Report
        <5> QED BY <1>1, <1>2, <3>1, <5>1 DEF IInv, Numbered
      <4> QED BY <1>1, <1>4, <3>1, <4>1 DEF IInv, Durable, Chained
    <3>2. CASE \E x \in {Stub, Torn} : body' = Append(body, x)
      BY <1>6, <3>2, Pieces
    <3> QED BY <1>9, <3>1, <3>2
  <2>2. faults' # 0 /\ faults' \in 0..MaxFaults /\ pc'[p] = "open"
    BY <1>1, <1>9, ConstantsAssumption DEF Fault, IInv, TypeOK
  <2>3. Intact' /\ Pending(p)' /\ Mirror(p)'
    BY <2>2 DEF Intact, Pending, Mirror
  <2> QED BY <1>1, <1>5, <1>7, <1>9, <2>1, <2>2, <2>3, HolderInv
<1> QED BY <1>8, <1>9 DEF Write, Goto, Set, r

\* A report chained to one no earlier than those returned may follow them.
LEMMA Returned ==
  ASSUME NEW s \in Seq(Report), NEW r \in Report, r.prev < r.id,
         \A i \in DOMAIN s : s[i].prev < s[i].id /\ s[i].id <= r.prev,
         \A i, j \in DOMAIN s : i < j => s[i].id <= s[j].prev
  PROVE  /\ \A i \in DOMAIN Append(s, r) : Append(s, r)[i].prev < Append(s, r)[i].id
         /\ \A i, j \in DOMAIN Append(s, r) : i < j => Append(s, r)[i].id <= Append(s, r)[j].prev
<1> DEFINE t == Append(s, r)
           m == Len(s)
<1>1. /\ m \in Nat /\ DOMAIN s = 1..m /\ DOMAIN t = 1..(m + 1) /\ t[m + 1] = r /\ \A i \in 1..m : t[i] = s[i]
  BY Appended
<1> HIDE DEF t, m
<1>2. \A i \in DOMAIN t : i \in 1..m \/ i = m + 1
  BY <1>1
<1>3. \A i \in DOMAIN t : t[i].prev < t[i].id
  BY <1>1, <1>2
<1>4. ASSUME NEW i \in DOMAIN t, NEW j \in DOMAIN t, i < j PROVE t[i].id <= t[j].prev
  <2>1. i \in 1..m
    BY <1>1, <1>4
  <2>2. CASE j = m + 1
    BY <1>1, <2>1, <2>2
  <2>3. CASE j \in 1..m
    BY <1>1, <1>4, <2>1, <2>3
  <2> QED BY <1>2, <2>2, <2>3
<1> QED BY <1>3, <1>4 DEF t

\* Whoever appends it to what is known knows it too.
LEMMA Known ==
  ASSUME NEW s \in Seq(Report), NEW c \in Seq(Report), NEW r \in Report, r.prev < r.id,
         \A i \in DOMAIN s : s[i].id <= r.prev /\ \E n \in DOMAIN c : c[n] = s[i]
  PROVE  \A i \in DOMAIN Append(s, r) :
           /\ Append(s, r)[i].id <= r.id
           /\ \E n \in DOMAIN Append(c, r) : Append(c, r)[n] = Append(s, r)[i]
<1> DEFINE t == Append(s, r)
           d == Append(c, r)
           m == Len(s)
           k == Len(c)
<1>1. /\ m \in Nat /\ DOMAIN s = 1..m /\ DOMAIN t = 1..(m + 1) /\ t[m + 1] = r /\ \A i \in 1..m : t[i] = s[i]
  BY Appended
<1>2. /\ k \in Nat /\ DOMAIN c = 1..k /\ DOMAIN d = 1..(k + 1) /\ d[k + 1] = r /\ \A i \in 1..k : d[i] = c[i]
  BY Appended
<1>3. r.id \in Nat /\ r.prev \in Nat /\ \A i \in 1..m : s[i].id \in Nat
  BY <1>1, Lengths, Links DEF m
<1> HIDE DEF t, d, m, k
<1>4. ASSUME NEW i \in DOMAIN t PROVE t[i].id <= r.id /\ \E n \in DOMAIN d : d[n] = t[i]
  <2>1. CASE i = m + 1
    <3>1. k + 1 \in DOMAIN d
      BY <1>2
    <3>2. t[i] = r /\ t[i].id = r.id /\ d[k + 1] = t[i]
      BY <1>1, <1>2, <2>1
    <3>3. t[i].id <= r.id
      BY <1>3, <3>2
    <3> QED BY <3>1, <3>2, <3>3
  <2>2. CASE i \in 1..m
    <3>1. t[i] = s[i] /\ s[i].id <= r.id
      BY <1>1, <1>3, <2>2
    <3>2. PICK n \in DOMAIN c : c[n] = s[i]
      BY <1>1, <2>2
    <3>3. n \in DOMAIN d /\ d[n] = c[n]
      BY <1>2, <3>2
    <3> QED BY <3>1, <3>2, <3>3
  <2> QED BY <1>1, <1>4, <2>1, <2>2
<1> QED BY <1>4 DEF t, d

\* The mirror, with the report of the last frame after it, mirrors the whole file.
LEMMA Mirrored ==
  ASSUME NEW b \in Seq(Piece), NEW c \in Seq(Report), Len(b) # 0, b[Len(b)].report \in Report,
         c = [i \in 1..(Len(b) - 1) |-> b[i].report]
  PROVE  Append(c, b[Len(b)].report) = [i \in 1..Len(b) |-> b[i].report]
<1> DEFINE n == Len(b)
           r == b[n].report
           d == Append(c, r)
<1>1. n \in Nat \ {0} /\ r \in Report
  BY Lengths
<1>2. /\ Len(c) \in Nat /\ DOMAIN c = 1..Len(c) /\ DOMAIN d = 1..(Len(c) + 1) /\ d[Len(c) + 1] = r
      /\ \A i \in 1..Len(c) : d[i] = c[i]
  BY Appended
<1>3. Len(c) = n - 1
  <2> HIDE DEF n
  <2>1. n - 1 \in Nat
    BY <1>1
  <2>2. DOMAIN c = 1..(n - 1)
    BY DEF n
  <2> QED BY <1>2, <2>1, <2>2, SameEnd
<1>4. d = [i \in DOMAIN d |-> d[i]]
  OBVIOUS
<1> HIDE DEF n, d, r
<1>5. DOMAIN d = 1..n
  BY <1>1, <1>2, <1>3
<1>6. ASSUME NEW i \in 1..n PROVE d[i] = b[i].report
  <2>1. CASE i = n
    BY <1>1, <1>2, <1>3, <2>1 DEF r
  <2>2. CASE i # n
    <3>1. i \in 1..(n - 1)
      BY <1>1, <2>2
    <3>2. d[i] = c[i]
      BY <1>2, <1>3, <3>1
    <3>3. c[i] = b[i].report
      BY <3>1 DEF n
    <3> QED BY <3>2, <3>3
  <2> QED BY <2>1, <2>2
<1>7. d = [i \in 1..n |-> b[i].report]
  BY <1>4, <1>5, <1>6
<1> QED BY <1>7 DEF d, n, r

\* append returns the report of the last frame, once an fsync has reached it.
LEMMA SyncInv == ASSUME IInv, NEW p \in Proc, Sync(p) PROVE IInv'
<1> DEFINE r == body[Len(body)].report
<1>1. /\ pc[p] = "written" /\ pc' = [pc EXCEPT ![p] = "open"]
      /\ UNCHANGED <<header, body, holder, outcome, reports>>
  BY DEF Sync, Goto, Set
<1>2. /\ body \in Seq(Piece) /\ DOMAIN body = 1..Len(body) /\ Len(body) \in Nat \ {0} /\ synced \in 0..Len(body)
      /\ reports \in 0..MaxReports /\ reported \in Seq(Report) /\ chain[p] \in Seq(Report)
      /\ body[Len(body)] \in Piece /\ IsFrame(body[Len(body)]) /\ Last(body) = body[Len(body)]
  BY <1>1, Lengths DEF IInv, TypeOK, Shapes, Pending, Last
<1>3. r \in Report /\ body[Len(body)] = Frame(r) /\ r.prev = LastLink(chain[p]) /\ r.prev < r.id /\ r.id <= reports
      /\ r.id \in Nat /\ r.prev \in Nat
  <2>1. r \in Report /\ body[Len(body)] = Frame(r)
    BY <1>2, Pieces
  <2>2. r.id \in Nat /\ r.prev \in Nat
    BY <2>1, ConstantsAssumption DEF Report
  <2>3. r.prev = LastLink(chain[p])
    BY <1>1 DEF IInv, Pending
  <2>4. r.prev < r.id /\ r.id <= reports
    BY <1>2 DEF IInv, Numbered
  <2> QED BY <2>1, <2>2, <2>3, <2>4
<1> HIDE DEF r
<1>4. Numbered' /\ Intact' /\ pc'[p] = "open" /\ Pending(p)'
  BY <1>1 DEF IInv, TypeOK, Numbered, Intact, Pending, Sync, Fault
<1>5. CASE synced' = Len(body) /\ chain' = [chain EXCEPT ![p] = Append(chain[p], r)] /\ reported' = Append(reported, r) /\ faults' = faults
  <2>1. /\ reported' \in Seq(Report) /\ DOMAIN reported' = 1..(Len(reported) + 1) /\ DOMAIN reported = 1..Len(reported)
        /\ Len(reported) \in Nat /\ reported'[Len(reported) + 1] = r /\ \A i \in 1..Len(reported) : reported'[i] = reported[i]
    BY <1>2, <1>3, <1>5, Appended
  <2>2. /\ chain'[p] = Append(chain[p], r) /\ chain'[p] \in Seq(Report) /\ Len(chain'[p]) = Len(chain[p]) + 1 /\ chain'[p] # <<>>
        /\ DOMAIN chain'[p] = 1..(Len(chain[p]) + 1) /\ DOMAIN chain[p] = 1..Len(chain[p]) /\ Len(chain[p]) \in Nat
        /\ chain'[p][Len(chain[p]) + 1] = r /\ \A i \in 1..Len(chain[p]) : chain'[p][i] = chain[p][i]
    <3>1. chain'[p] = Append(chain[p], r)
      BY <1>5 DEF IInv, Shapes
    <3>2. chain[p] \in Seq(Report) /\ r \in Report
      BY <1>2, <1>3
    <3> DEFINE c == chain[p]
               d == Append(c, r)
    <3>3. /\ d \in Seq(Report) /\ Len(d) = Len(c) + 1 /\ d # <<>>
          /\ DOMAIN d = 1..(Len(c) + 1) /\ DOMAIN c = 1..Len(c) /\ Len(c) \in Nat
          /\ d[Len(c) + 1] = r /\ \A i \in 1..Len(c) : d[i] = c[i]
      <4> HIDE DEF c
      <4> QED BY <3>2, Appended DEF c
    <3>4. chain'[p] = d
      BY <3>1
    <3> QED BY <3>3, <3>4, Zenon
  <2>3. LastLink(chain'[p]) = r.id
    BY <2>2 DEF LastLink, Last
  <2>4. \A i \in 1..Len(reported) : /\ reported[i] \in Report /\ reported[i].id \in Nat /\ reported[i].prev < reported[i].id
                                   /\ reported[i].id <= r.prev /\ \E n \in DOMAIN chain[p] : chain[p][n] = reported[i]
    <3>1. \A i \in 1..Len(reported) : reported[i] \in Report /\ reported[i].id \in Nat
      <4>1. reported \in Seq(Report)
        BY <1>2
      <4> QED BY <4>1, Lengths, Links
    <3>2. /\ \A i \in DOMAIN reported : reported[i].id <= LastLink(chain[p]) /\ \E n \in DOMAIN chain[p] : chain[p][n] = reported[i]
          /\ \A i \in DOMAIN reported : reported[i].prev < reported[i].id
      BY <1>1 DEF IInv, Knows, Chained
    <3> QED BY <1>3, <2>1, <3>1, <3>2
  <2>5. Durable'
    <3>1. \A n \in 1..synced : n \in 1..synced'
      BY <1>2, <1>5
    <3>2. ASSUME NEW i \in 1..Len(reported) PROVE \E n \in 1..synced' : body[n] = Frame(reported[i])
      BY <2>1, <3>1 DEF IInv, Durable
    <3>3. Len(body) \in 1..synced' /\ body[Len(body)] = Frame(r)
      BY <1>2, <1>3, <1>5
    <3> QED BY <1>1, <2>1, <3>2, <3>3 DEF Durable
  <2>6. Chained'
    <3>1. \A i \in DOMAIN reported : reported[i].prev < reported[i].id /\ reported[i].id <= r.prev
      BY <2>1, <2>4
    <3>2. \A i, j \in DOMAIN reported : i < j => reported[i].id <= reported[j].prev
      BY DEF IInv, Chained
    <3>3. reported \in Seq(Report) /\ r \in Report /\ r.prev < r.id /\ reported' = Append(reported, r)
      BY <1>2, <1>3, <1>5
    <3> QED BY <3>1, <3>2, <3>3, Returned DEF Chained
  <2>7. Knows(p)'
    <3>1. \A i \in DOMAIN reported : reported[i].id <= r.prev /\ \E n \in DOMAIN chain[p] : chain[p][n] = reported[i]
      BY <2>1, <2>4
    <3>2. /\ reported \in Seq(Report) /\ chain[p] \in Seq(Report) /\ r \in Report /\ r.prev < r.id
          /\ reported' = Append(reported, r) /\ chain'[p] = Append(chain[p], r)
      BY <1>2, <1>3, <1>5, <2>2
    <3>3. \A i \in DOMAIN reported' : reported'[i].id <= r.id /\ \E n \in DOMAIN chain'[p] : chain'[p][n] = reported'[i]
      <4> DEFINE c == chain[p]
      <4>1. /\ c \in Seq(Report) /\ chain'[p] = Append(c, r)
            /\ \A i \in DOMAIN reported : reported[i].id <= r.prev /\ \E n \in DOMAIN c : c[n] = reported[i]
        BY <3>1, <3>2
      <4> HIDE DEF c
      <4>2. \A i \in DOMAIN Append(reported, r) : Append(reported, r)[i].id <= r.id
              /\ \E n \in DOMAIN Append(c, r) : Append(c, r)[n] = Append(reported, r)[i]
        BY <3>2, <4>1, Known
      <4> QED BY <3>2, <4>1, <4>2
    <3> QED BY <1>1, <1>3, <2>3, <3>3 DEF Knows
  <2>8. Mirror(p)'
    <3>1. ASSUME faults = 0 PROVE chain'[p] = [i \in 1..Len(body) |-> body[i].report] /\ header = "full"
      <4>1. header = "full" /\ chain[p] = [i \in 1..(Len(body) - 1) |-> body[i].report]
        BY <1>1, <3>1 DEF IInv, Mirror, Mirrors
      <4>2. /\ body \in Seq(Piece) /\ chain[p] \in Seq(Report) /\ Len(body) # 0 /\ body[Len(body)].report \in Report
            /\ chain'[p] = Append(chain[p], body[Len(body)].report)
        BY <1>2, <1>3, <2>2 DEF r
      <4> QED BY <4>1, <4>2, Mirrored
    <3> QED BY <1>1, <1>4, <1>5, <3>1 DEF Mirror, Mirrors
  <2>9. synced' \in 0..Len(body') /\ reports' \in 0..MaxReports /\ faults' \in 0..MaxFaults /\ chain' = [chain EXCEPT ![p] = chain'[p]]
    <3>1. synced' \in 0..Len(body')
      BY <1>1, <1>2, <1>5
    <3>2. chain' = [chain EXCEPT ![p] = chain'[p]]
      BY <1>5, <2>2
    <3> QED BY <1>1, <1>2, <1>5, <3>1, <3>2 DEF IInv, TypeOK
  <2> QED BY <1>1, <1>2, <1>4, <2>1, <2>2, <2>5, <2>6, <2>7, <2>8, <2>9, HolderInv
<1>6. CASE Fault /\ UNCHANGED <<synced, chain, reported>>
  <2>1. Durable' /\ Chained' /\ Knows(p)'
    BY <1>1, <1>6 DEF IInv, Durable, Chained, Knows
  <2>2. faults' # 0 /\ faults' \in 0..MaxFaults
    BY <1>6, ConstantsAssumption DEF Fault, IInv, TypeOK
  <2>3. Mirror(p)'
    BY <2>2 DEF Mirror
  <2>4. chain' = [chain EXCEPT ![p] = chain'[p]]
    BY <1>6 DEF IInv, Shapes
  <2> QED BY <1>1, <1>2, <1>4, <1>6, <2>1, <2>2, <2>3, <2>4, HolderInv
<1>7. Last(body).report = r
  BY <1>2 DEF r
<1> QED BY <1>5, <1>6, <1>7 DEF Sync, Set

\* What a power loss leaves of the file.
LEMMA Cut ==
  ASSUME NEW b \in Seq(Piece), NEW n \in 0..Len(b), NEW tail \in {<<>>, <<Stub>>, <<Torn>>}
  PROVE LET c == SubSeq(b, 1, n) \o tail IN
        /\ c \in Seq(Piece) /\ Len(c) \in Nat /\ n <= Len(c) /\ DOMAIN c = 1..Len(c)
        /\ \A i \in 1..n : c[i] = b[i] /\ i \in DOMAIN b
        /\ \A i \in 1..Len(c) : i > n => ~IsFrame(c[i])
<1> DEFINE h == SubSeq(b, 1, n)
<1>1. h \in Seq(Piece) /\ Len(h) = n /\ n \in Nat /\ \A i \in 1..n : h[i] = b[i] /\ i \in DOMAIN b
  BY Lengths
<1>2. tail \in Seq(Piece) /\ Len(tail) \in Nat /\ \A i \in 1..Len(tail) : ~IsFrame(tail[i])
  <2>1. Stub \in Piece /\ Torn \in Piece /\ ~IsFrame(Stub) /\ ~IsFrame(Torn)
    BY Pieces
  <2>2. CASE tail = <<>>
    BY <2>2
  <2>3. CASE tail = <<Stub>>
    BY <2>1, <2>3
  <2>4. CASE tail = <<Torn>>
    BY <2>1, <2>4
  <2> QED BY <2>2, <2>3, <2>4
<1> HIDE DEF h
<1>3. /\ h \o tail \in Seq(Piece) /\ Len(h \o tail) = n + Len(tail)
      /\ \A i \in 1..(n + Len(tail)) : (h \o tail)[i] = IF i <= n THEN h[i] ELSE tail[i - n]
  BY <1>1, <1>2
<1> QED BY <1>1, <1>2, <1>3 DEF h

LEMMA PowerLossInv == ASSUME IInv, PowerLoss PROVE IInv'
<1>1. PICK n \in synced..Len(body), tail \in {<<>>, <<Stub>>, <<Torn>>} : body' = SubSeq(body, 1, n) \o tail
  BY DEF PowerLoss
<1>2. /\ faults' = faults + 1 /\ faults < MaxFaults /\ synced' = Len(body') /\ holder' = 0
      /\ pc' = [q \in Proc |-> "closed"] /\ chain' = [q \in Proc |-> <<>>] /\ UNCHANGED <<header, outcome, reported, reports>>
  BY DEF PowerLoss, Fault
<1>3. body \in Seq(Piece) /\ DOMAIN body = 1..Len(body) /\ Len(body) \in Nat /\ synced \in 0..Len(body) /\ n \in 0..Len(body)
  BY Lengths DEF IInv, TypeOK, Shapes
<1>4. /\ body' \in Seq(Piece) /\ Len(body') \in Nat /\ n <= Len(body') /\ DOMAIN body' = 1..Len(body')
      /\ \A i \in 1..n : body'[i] = body[i] /\ i \in DOMAIN body
      /\ \A i \in 1..Len(body') : i > n => ~IsFrame(body'[i])
  BY <1>1, <1>3, Cut
<1>5. faults' # 0 /\ faults' \in 0..MaxFaults
  BY <1>2, ConstantsAssumption DEF IInv, TypeOK
<1>6. TypeOK' /\ Shapes'
  <2>1. Shapes'
    BY <1>2, <1>4 DEF IInv, Shapes
  <2>2. synced' \in 0..Len(body') /\ pc' \in [Proc -> {"closed", "opening", "open", "written"}]
    BY <1>2, <1>4
  <2> QED BY <1>2, <1>5, <2>1, <2>2, Elements DEF IInv, TypeOK, Shapes
<1>7. Numbered'
  <2>1. \A i \in DOMAIN body' : IsFrame(body'[i]) => i \in 1..n /\ body'[i] = body[i] /\ i \in DOMAIN body
    BY <1>3, <1>4
  <2> QED BY <1>2, <2>1 DEF IInv, Numbered
<1>8. Durable'
  <2>1. \A k \in 1..synced : k \in 1..synced' /\ body'[k] = body[k]
    BY <1>2, <1>3, <1>4
  <2> QED BY <1>2, <2>1 DEF IInv, Durable
<1>9. Locked' /\ Chained' /\ Intact' /\ \A q \in Proc : (Knows(q) /\ Pending(q) /\ Mirror(q))'
  BY <1>2, <1>5 DEF IInv, Locked, Chained, Intact, Knows, Pending, Mirror
<1> QED BY <1>6, <1>7, <1>8, <1>9 DEF IInv

LEMMA NextInv == IInv /\ [Next]_vars => IInv'
<1> SUFFICES ASSUME IInv, [Next]_vars PROVE IInv'
  OBVIOUS
<1>1. ASSUME NEW p \in Proc, Open(p) \/ WriteHeader(p) \/ Load(p) \/ Sync(p) \/ Close(p) \/ Crash(p) PROVE IInv'
  BY <1>1, OpenInv, WriteHeaderInv, LoadInv, SyncInv, CloseInv, CrashInv
<1>2. ASSUME NEW p \in Proc, NEW long \in Long, Write(p, long) PROVE IInv'
  BY <1>2, WriteInv
<1>3. CASE PowerLoss
  BY <1>3, PowerLossInv
<1>4. CASE UNCHANGED vars
  <2>1. TypeOK' /\ Shapes' /\ Locked' /\ Intact'
    BY <1>4 DEF vars, file, IInv, TypeOK, Shapes, Locked, Intact
  <2>2. Numbered' /\ Durable' /\ Chained'
    BY <1>4 DEF vars, file, IInv, Numbered, Durable, Chained
  <2>3. \A q \in Proc : (Knows(q) /\ Pending(q) /\ Mirror(q))'
    BY <1>4 DEF vars, file, IInv, Knows, Pending, Mirror, Mirrors
  <2> QED BY <2>1, <2>2, <2>3 DEF IInv
<1> QED BY <1>1, <1>2, <1>3, <1>4 DEF Next

LEMMA Invariance == Spec => []IInv
  BY InitInv, NextInv, PTL DEF Spec
-----------------------------------------------------------------------------
\* The state keeps its types.
THEOREM TypeCorrect == Spec => []TypeOK
<1>1. IInv => TypeOK
  BY DEF IInv
<1> QED BY <1>1, Invariance, PTL

\* A report that append returned is in the file, after every crash and power loss.
THEOREM Durability == Spec => []ReportedIsDurable
<1>1. IInv => ReportedIsDurable
  <2> SUFFICES ASSUME IInv PROVE ReportedIsDurable
    OBVIOUS
  <2>1. 1..synced \subseteq DOMAIN body
    BY Lengths DEF IInv, TypeOK, Shapes
  <2> QED BY <2>1 DEF IInv, Durable, ReportedIsDurable
<1> QED BY <1>1, Invariance, PTL

\* The reports that append returned, to whatever process, are one chain.
THEOREM OneChain == Spec => []NoFork
<1>1. IInv => NoFork
  <2> SUFFICES ASSUME IInv, NEW i \in DOMAIN reported, NEW j \in DOMAIN reported, i < j PROVE reported[i].prev # reported[j].prev
    <3>1. DOMAIN reported = 1..Len(reported) /\ Len(reported) \in Nat
      BY Lengths DEF IInv, Shapes
    <3> QED BY <3>1 DEF NoFork
  <2>1. reported[i] \in Report /\ reported[j] \in Report
    BY Lengths DEF IInv, Shapes
  <2>2. reported[i].prev \in Nat /\ reported[i].id \in Nat /\ reported[j].prev \in Nat
    BY <2>1, ConstantsAssumption DEF Report
  <2>3. reported[i].prev < reported[i].id /\ reported[i].id <= reported[j].prev
    BY DEF IInv, Chained
  <2> QED BY <2>2, <2>3
<1> QED BY <1>1, Invariance, PTL

\* Whoever has the log open knows every report returned so far, and mirrors the
\* file while nothing has failed.
THEOREM Knowledge == Spec => []HolderKnowsAll
<1>1. IInv => HolderKnowsAll
  <2> SUFFICES ASSUME IInv, NEW p \in Proc
               PROVE  /\ pc[p] \in {"open", "written"} => ToSet(reported) \subseteq ToSet(chain[p])
                      /\ faults = 0 /\ pc[p] = "open" => chain[p] = Loaded
    BY DEF HolderKnowsAll
  <2>1. pc[p] \in {"open", "written"} => ToSet(reported) \subseteq ToSet(chain[p])
    BY DEF IInv, Knows, ToSet
  <2>2. ASSUME faults = 0, pc[p] = "open" PROVE chain[p] = Loaded
    <3>1. header = "full" /\ chain[p] = [i \in 1..Len(body) |-> body[i].report]
      BY <2>2 DEF IInv, Mirror, Mirrors
    <3>2. Frames(body) = Len(body)
      <4>1. body # <<>> => Len(body) \in DOMAIN body /\ Last(body) = body[Len(body)]
        BY Lengths DEF IInv, Shapes, Last
      <4>2. body # <<>> => Last(body) # Stub
        BY <2>2, <4>1, Pieces DEF IInv, Intact
      <4> QED BY <4>2 DEF Frames
    <3> QED BY <3>1, <3>2 DEF Loaded
  <2> QED BY <2>1, <2>2
<1> QED BY <1>1, Invariance, PTL
-----------------------------------------------------------------------------
(* The key store. *)

\* Between the temporary file and its rename, it holds what memory holds.
Written == stage = "written" => tmp = records

\* A flush under way is the constructor's, of nothing, or that of one changed key.
UnderWay ==
  stage \in {"changed", "written"} =>
    \/ call = NoCall /\ records = Empty
    \/ call.key \in Key /\ records[call.key] = call.value

\* What a reader finds for a key after a restart.
OnDisk(k) == IF path = Missing THEN None ELSE path[k]

\* An object used as it is meant to be holds possible values, in memory and on disk;
\* one that was zeroised makes no change any more.
HeldPossible ==
  ~misused =>
    /\ zeroised => stage \in {"idle", "down"}
    /\ stage # "down" /\ ~zeroised => \A k \in Key : records[k] \in possible[k]
    /\ \A k \in Key : OnDisk(k) \in possible[k]

StoreInv == StoreTypeOK /\ Written /\ UnderWay /\ HeldPossible /\ MemoryIsOnDisk
-----------------------------------------------------------------------------
LEMMA EmptyType == Empty \in Store /\ NoCall \in [key : Key \cup {None}, value : Value]
  BY DEF Empty, Store, Value, NoCall

\* A store is the missing file only if there is no key to look up.
LEMMA StoreIsThere == ASSUME NEW s \in Store, s = Missing PROVE Key = {}
  BY DEF Store, Missing

LEMMA StoreInitInv == StoreInit => StoreInv
<1> SUFFICES ASSUME StoreInit PROVE StoreInv
  OBVIOUS
<1>1. StoreTypeOK
  <2>1. possible \in [Key -> SUBSET Value]
    BY DEF StoreInit, Value
  <2>2. 0 \in 0..MaxCalls /\ 0 \in 0..MaxFailures
    BY StoreAssumption
  <2> QED BY <2>1, <2>2, EmptyType DEF StoreInit, StoreTypeOK
<1>2. Written /\ UnderWay /\ MemoryIsOnDisk
  BY DEF StoreInit, Written, UnderWay, MemoryIsOnDisk
<1>3. HeldPossible
  BY DEF StoreInit, HeldPossible, OnDisk
<1> QED BY <1>1, <1>2, <1>3 DEF StoreInv

\* Changing a record, whatever it is changed to, and whether by putKey or deleteKey.
LEMMA ChangeInv ==
  ASSUME StoreInv, NEW k \in Key, NEW v \in Value, Change(k, v)
  PROVE StoreInv'
<1> USE DEF StoreInv, Change
<1>1. StoreTypeOK'
  <2>1. records' \in Store
    BY DEF StoreTypeOK, Store
  <2>2. call' \in [key : Key \cup {None}, value : Value]
    OBVIOUS
  <2>3. possible' \in [Key -> SUBSET Value]
    BY DEF StoreTypeOK
  <2>4. calls' \in 0..MaxCalls
    BY StoreAssumption DEF StoreTypeOK
  <2> QED BY <2>1, <2>2, <2>3, <2>4 DEF StoreTypeOK
<1>2. Written'
  BY DEF Written
<1>3. UnderWay'
  BY DEF UnderWay, StoreTypeOK, Store
<1>4. HeldPossible'
  <2> SUFFICES ASSUME ~misused' PROVE HeldPossible'
    BY DEF HeldPossible
  <2>1. ~misused /\ ~zeroised /\ stage = "idle"
    BY DEF StoreTypeOK
  <2>2. \A j \in Key : records'[j] \in possible'[j]
    BY <2>1 DEF HeldPossible, StoreTypeOK, Store
  <2>3. \A j \in Key : OnDisk(j)' \in possible'[j]
    BY <2>1 DEF HeldPossible, StoreTypeOK, OnDisk
  <2> QED BY <2>1, <2>2, <2>3 DEF HeldPossible
<1>5. MemoryIsOnDisk'
  BY DEF MemoryIsOnDisk
<1> QED BY <1>1, <1>2, <1>3, <1>4, <1>5

\* The rename, where memory reaches the disk and the call is acknowledged.
LEMMA RenameInv == StoreInv /\ Rename => StoreInv'
<1> SUFFICES ASSUME StoreInv, Rename PROVE StoreInv'
  OBVIOUS
<1> USE DEF StoreInv
<1>1. tmp = records /\ records \in Store /\ stage = "written"
  BY DEF Rename, Written, StoreTypeOK
<1>2. CASE path' = tmp /\ stage' = "idle" /\ result' = "ok" /\ UNCHANGED failures
           /\ possible' = [k \in Key |-> IF k = call.key THEN {call.value} ELSE possible[k]]
  <2>1. StoreTypeOK'
    <3>1. possible' \in [Key -> SUBSET Value]
      BY <1>2 DEF StoreTypeOK
    <3> QED BY <1>1, <1>2, <3>1 DEF Rename, StoreTypeOK
  <2>2. Written' /\ UnderWay'
    BY <1>2 DEF Written, UnderWay
  <2>3. MemoryIsOnDisk'
    BY <1>1, <1>2 DEF MemoryIsOnDisk, Rename
  <2>4. HeldPossible'
    <3> SUFFICES ASSUME ~misused' PROVE HeldPossible'
      BY DEF HeldPossible
    <3>1. ~misused /\ ~zeroised
      BY <1>1 DEF Rename, HeldPossible
    <3>2. \A k \in Key : records[k] \in possible[k]
      BY <1>1, <3>1 DEF HeldPossible
    <3>3. ASSUME NEW k \in Key PROVE records[k] \in possible'[k]
      <4>1. CASE k = call.key
        <5>1. records[k] = call.value
          BY <1>1, <4>1, StoreAssumption DEF UnderWay, NoCall
        <5> QED BY <1>2, <4>1, <5>1
      <4>2. CASE k # call.key
        BY <1>2, <3>2, <4>2
      <4> QED BY <4>1, <4>2
    <3>4. \A k \in Key : OnDisk(k)' \in possible'[k]
      BY <1>1, <1>2, <3>3, StoreIsThere DEF OnDisk
    <3> QED BY <1>2, <3>3, <3>4 DEF HeldPossible, Rename
  <2> QED BY <2>1, <2>2, <2>3, <2>4
<1>3. CASE Threw /\ Failure /\ UNCHANGED <<path, possible>>
  <2>1. stage' \in {"down", "idle"} /\ failures' > 0 /\ failures' \in 0..MaxFailures
    BY <1>3, StoreAssumption DEF Threw, Failure, StoreTypeOK
  <2>2. StoreTypeOK'
    BY <1>3, <2>1 DEF Rename, Threw, StoreTypeOK
  <2>3. Written' /\ UnderWay' /\ MemoryIsOnDisk'
    BY <2>1 DEF Written, UnderWay, MemoryIsOnDisk
  <2>4. HeldPossible'
    BY <1>1, <1>3, <2>1 DEF Rename, HeldPossible, OnDisk
  <2> QED BY <2>2, <2>3, <2>4
<1> QED BY <1>2, <1>3 DEF Rename

LEMMA StoreNextInv == StoreInv /\ [StoreNext]_storeVars => StoreInv'
<1> SUFFICES ASSUME StoreInv, [StoreNext]_storeVars PROVE StoreInv'
  OBVIOUS
<1> USE DEF StoreInv
<1>1. CASE OpenStore
  <2>1. CASE path = Missing
    <3>1. stage' = "changed" /\ records' = Empty /\ call' = NoCall /\ zeroised' = FALSE
          /\ UNCHANGED <<path, tmp, result, possible, misused, calls, failures>>
      BY <1>1, <2>1 DEF OpenStore
    <3>2. StoreTypeOK'
      BY <3>1, EmptyType DEF StoreTypeOK
    <3>3. \A k \in Key : Empty[k] = OnDisk(k)
      BY <2>1 DEF OnDisk, Empty
    <3>4. HeldPossible'
      BY <3>1, <3>3 DEF HeldPossible, OnDisk
    <3> QED BY <3>1, <3>2, <3>4 DEF Written, UnderWay, MemoryIsOnDisk
  <2>2. CASE path # Missing
    <3>1. stage' = "idle" /\ records' = path /\ call' = NoCall /\ zeroised' = FALSE
          /\ UNCHANGED <<path, tmp, result, possible, misused, calls, failures>>
      BY <1>1, <2>2 DEF OpenStore
    <3>2. StoreTypeOK'
      BY <2>2, <3>1, EmptyType DEF StoreTypeOK
    <3>3. HeldPossible'
      BY <2>2, <3>1 DEF HeldPossible, OnDisk
    <3> QED BY <3>1, <3>2, <3>3 DEF Written, UnderWay, MemoryIsOnDisk
  <2> QED BY <2>1, <2>2
<1>2. CASE SerialiseThrows
  <2>1. stage' \in {"down", "idle"} /\ stage = "changed"
    BY <1>2 DEF SerialiseThrows, Threw
  <2>2. StoreTypeOK'
    BY <1>2, <2>1 DEF SerialiseThrows, Threw, StoreTypeOK
  <2>3. HeldPossible'
    BY <1>2, <2>1 DEF SerialiseThrows, HeldPossible, OnDisk
  <2>4. MemoryIsOnDisk'
    BY <1>2 DEF SerialiseThrows, MemoryIsOnDisk, Serialisable
  <2> QED BY <2>1, <2>2, <2>3, <2>4 DEF Written, UnderWay
<1>3. CASE WriteTmp
  <2>1. CASE tmp' = records /\ stage' = "written" /\ UNCHANGED <<result, failures>>
    <3>1. StoreTypeOK'
      BY <1>3, <2>1 DEF WriteTmp, StoreTypeOK
    <3>2. Written' /\ MemoryIsOnDisk'
      BY <1>3, <2>1 DEF WriteTmp, Written, MemoryIsOnDisk
    <3>3. UnderWay' /\ HeldPossible'
      BY <1>3, <2>1 DEF WriteTmp, UnderWay, HeldPossible, OnDisk
    <3> QED BY <3>1, <3>2, <3>3
  <2>2. CASE tmp' = Partial /\ Threw /\ Failure
    <3>1. stage' \in {"down", "idle"} /\ failures' > 0 /\ failures' \in 0..MaxFailures
      BY <2>2, StoreAssumption DEF Threw, Failure, StoreTypeOK
    <3>2. StoreTypeOK'
      BY <1>3, <2>2, <3>1 DEF WriteTmp, Threw, StoreTypeOK
    <3>3. Written' /\ UnderWay' /\ MemoryIsOnDisk'
      BY <3>1 DEF Written, UnderWay, MemoryIsOnDisk
    <3>4. HeldPossible'
      BY <1>3, <3>1 DEF WriteTmp, HeldPossible, OnDisk
    <3> QED BY <3>2, <3>3, <3>4
  <2> QED BY <1>3, <2>1, <2>2 DEF WriteTmp
<1>4. CASE Rename
  BY <1>4, RenameInv
<1>5. CASE Zeroise
  <2>1. StoreTypeOK'
    BY <1>5, EmptyType DEF Zeroise, StoreTypeOK
  <2> QED BY <1>5, <2>1 DEF Zeroise, Written, UnderWay, HeldPossible, OnDisk, MemoryIsOnDisk
<1>6. CASE CloseStore
  <2>1. StoreTypeOK'
    BY <1>6, EmptyType DEF CloseStore, Down, StoreTypeOK
  <2> QED BY <1>6, <2>1 DEF CloseStore, Down, Written, UnderWay, HeldPossible, OnDisk, MemoryIsOnDisk
<1>7. CASE StoreCrash
  <2>1. tmp' \in Store \cup {Missing, Partial} /\ failures' \in 0..MaxFailures
    BY <1>7, StoreAssumption DEF StoreCrash, Failure, StoreTypeOK
  <2>2. StoreTypeOK'
    BY <1>7, <2>1, EmptyType DEF StoreCrash, Down, StoreTypeOK
  <2> QED BY <1>7, <2>2 DEF StoreCrash, Down, Written, UnderWay, HeldPossible, OnDisk, MemoryIsOnDisk
<1>8. ASSUME NEW k \in Key, Delete(k) PROVE StoreInv'
  BY <1>8, ChangeInv DEF Delete, Value
<1>9. ASSUME NEW k \in Key, DeleteMissing(k) PROVE StoreInv'
  <2>1. StoreTypeOK'
    BY <1>9, StoreAssumption DEF DeleteMissing, StoreTypeOK, Value
  <2> QED BY <1>9, <2>1 DEF DeleteMissing, Written, UnderWay, HeldPossible, OnDisk, MemoryIsOnDisk, Serialisable
<1>10. ASSUME NEW k \in Key, NEW v \in Value, Put(k, v) PROVE StoreInv'
  BY <1>10, ChangeInv DEF Put
<1>11. CASE UNCHANGED storeVars
  BY <1>11 DEF storeVars, StoreTypeOK, Written, UnderWay, HeldPossible, OnDisk, MemoryIsOnDisk, Serialisable
<1> QED BY <1>1, <1>2, <1>3, <1>4, <1>5, <1>6, <1>7, <1>8, <1>9, <1>10, <1>11 DEF StoreNext

LEMMA StoreInvariance == StoreSpec => []StoreInv
<1> QED BY StoreInitInv, StoreNextInv, PTL DEF StoreSpec

\* The key store keeps its types: the file under the final name is a whole store.
THEOREM StoreTypes == StoreSpec => []StoreTypeOK
<1>1. StoreInv => StoreTypeOK
  BY DEF StoreInv
<1> QED BY <1>1, StoreInvariance, PTL

\* What putKey or deleteKey has acknowledged is on disk until a later call on its
\* key, for every sequence of calls, failed writes, crashes and restarts.
THEOREM StoreDurable == StoreSpec => []AcknowledgedIsOnDisk
<1>1. StoreInv => AcknowledgedIsOnDisk
  BY DEF StoreInv, HeldPossible, OnDisk, AcknowledgedIsOnDisk, StoreIsPossible
<1> QED BY <1>1, StoreInvariance, PTL

\* While nothing has failed, getKey answers what it will answer after a restart.
THEOREM MemoryFollowsDisk == StoreSpec => []MemoryIsOnDisk
<1>1. StoreInv => MemoryIsOnDisk
  BY DEF StoreInv
<1> QED BY <1>1, StoreInvariance, PTL
=============================================================================
