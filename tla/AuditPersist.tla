---------------------------- MODULE AuditPersist ----------------------------
(* The persistent abort log of src/volePSI/MpsvsAuditPersist.cpp: one process at
   a time holds the file (flock LOCK_NB), appends a length-prefixed frame, syncs
   it and only then updates its in-memory mirror; opening replays the file and
   verifies the hash chain of MpsvsProdHygiene.cpp. Writes may be short, fsync
   may fail, processes die and the machine may stop between any two calls.

   The file is a header and a sequence of pieces. A piece is a frame, or what a
   write that stopped early left: a "stub" of 1 to 3 bytes, which loading does
   not notice at the end of the file, or a "torn" frame, which it does. A report
   is its id, the id of the report it is chained to (0: none) and whether one of
   its strings is longer than the 65535 bytes a frame keeps; hashes do not
   collide, so an id stands for this_link. *)
EXTENDS Naturals, Sequences, SequencesExt

CONSTANTS
  Proc,        \* processes that open the log
  Long,        \* whether reports may have long strings: a subset of BOOLEAN
  MaxReports,  \* bound: calls of append
  MaxFaults    \* bound: failed calls, crashes and power losses

ASSUME ConstantsAssumption ==
  0 \notin Proc /\ Long \subseteq BOOLEAN /\ MaxReports \in Nat /\ MaxFaults \in Nat

VARIABLES
  header,    \* "none", "partial" or "full"
  body,      \* the pieces after the header
  synced,    \* how many pieces an fsync has made durable
  holder,    \* the process holding the flock, 0 when none does
  pc,        \* per process: "closed", "opening", "open" or "written"
  chain,     \* chain_: the mirror of a process, whose last id is last_link_
  outcome,   \* what the last open of a process came to
  reported,  \* history: the reports append returned, in order
  reports,   \* reports made so far
  faults     \* history: faults so far

file == <<header, body, synced>>
vars == <<header, body, synced, holder, pc, chain, outcome, reported, reports, faults>>

Report == [id : 1..MaxReports, prev : 0..MaxReports, long : BOOLEAN]
Stub == [piece |-> "stub"]
Torn == [piece |-> "torn"]
Frame(r) == [piece |-> "frame", report |-> r]
IsFrame(x) == x.piece = "frame"

LastLink(c) == IF c = <<>> THEN 0 ELSE Last(c).id

\* verifyAbortChain: what was hashed is what was read, and links name the entry before.
Verifies(c) == \A i \in DOMAIN c : ~c[i].long /\ (i > 1 => c[i].prev = c[i-1].id)

\* What opening may make of the file. A partial header hides behind a file of
\* less than 8 bytes; a piece that is not a frame swallows what follows it.
Whole(b) == \A i \in DOMAIN b : IsFrame(b[i])
Replays(b) == b = <<>> \/ (Whole(Front(b)) /\ Last(b) # Torn)
Frames(b) == IF b # <<>> /\ Last(b) = Stub THEN Len(b) - 1 ELSE Len(b)
\* Mutant: the loop stops one frame short.
LoadedShort == IF header = "full" THEN [i \in 1..(Frames(body) - 1) |-> body[i].report] ELSE <<>>
\* What the loop has read when it ends well.
Loaded == IF header = "full" THEN [i \in 1..Frames(body) |-> body[i].report] ELSE <<>>
LoadOutcomes ==
  CASE header = "partial" -> IF body = <<>> THEN {"ok"}
                             ELSE {"truncated"} \cup (IF \E i \in DOMAIN body : IsFrame(body[i]) THEN {} ELSE {"ok"})
    [] header = "full" /\ Replays(body) -> {IF Verifies(Loaded) THEN "ok" ELSE "tampered"}
    [] header = "full" /\ Whole(Front(body)) -> {"truncated"}
    [] OTHER -> {"truncated", "tampered"}

Fault == faults < MaxFaults /\ faults' = faults + 1
Set(f, p, v) == [f EXCEPT ![p] = v]
Goto(p, there) == pc' = Set(pc, p, there)

Init ==
  /\ header = "none" /\ body = <<>> /\ synced = 0 /\ holder = 0
  /\ pc = [p \in Proc |-> "closed"] /\ chain = [p \in Proc |-> <<>>]
  /\ outcome = [p \in Proc |-> "none"]
  /\ reported = <<>> /\ reports = 0 /\ faults = 0

\* Mutant: the lock's failure is not noticed.
OpenShared(p) ==
  /\ pc[p] = "closed" /\ holder' = p /\ Goto(p, "opening") /\ outcome' = Set(outcome, p, "none")
  /\ UNCHANGED <<file, chain, reported, reports, faults>>

\* open, flock(LOCK_EX | LOCK_NB): a second opener is turned away.
Open(p) ==
  /\ pc[p] = "closed"
  /\ IF holder = 0
       THEN holder' = p /\ Goto(p, "opening") /\ outcome' = Set(outcome, p, "none")
       ELSE outcome' = Set(outcome, p, "locked") /\ UNCHANGED <<holder, pc>>
  /\ UNCHANGED <<file, chain, reported, reports, faults>>

Unlock(p) == holder' = IF holder = p THEN 0 ELSE holder

\* An empty file gets its header; a short write leaves part of it and throws,
\* and so does a failing fsync.
WriteHeader(p) ==
  /\ pc[p] = "opening" /\ header = "none" /\ body = <<>>
  /\ \/ header' = "full" /\ UNCHANGED <<holder, pc, outcome, faults>>
     \/ header' \in {"partial", "full"} /\ Fault /\ Unlock(p) /\ Goto(p, "closed") /\ outcome' = Set(outcome, p, "io")
  /\ UNCHANGED <<body, synced, chain, reported, reports>>

\* loadFromDisk and verifyChain; any error unlocks and closes.
Load(p) ==
  /\ pc[p] = "opening" /\ header # "none"
  /\ \E o \in LoadOutcomes :
       /\ outcome' = Set(outcome, p, o)
       /\ chain' = Set(chain, p, IF o = "ok" THEN Loaded ELSE <<>>)
       /\ Goto(p, IF o = "ok" THEN "open" ELSE "closed")
       /\ IF o = "ok" THEN UNCHANGED holder ELSE Unlock(p)
  /\ UNCHANGED <<file, reported, reports, faults>>

NewReport(p, long) == [id |-> reports + 1, prev |-> LastLink(chain[p]), long |-> long]

\* append, under the mutex: makeAbortReport and write; a short write throws.
Write(p, long) ==
  /\ pc[p] = "open" /\ reports < MaxReports /\ reports' = reports + 1
  /\ \/ body' = Append(body, Frame(NewReport(p, long))) /\ Goto(p, "written") /\ UNCHANGED faults
     \/ \E x \in {Stub, Torn} : body' = Append(body, x) /\ Fault /\ UNCHANGED pc
     \/ Fault /\ UNCHANGED <<body, pc>>
  /\ UNCHANGED <<header, synced, holder, chain, outcome, reported>>

\* Mutant: the report is returned without an fsync.
SyncNothing(p) ==
  /\ pc[p] = "written" /\ Goto(p, "open")
  /\ chain' = Set(chain, p, Append(chain[p], Last(body).report))
  /\ reported' = Append(reported, Last(body).report)
  /\ UNCHANGED <<file, holder, outcome, reports, faults>>

\* Mutant: counts the header as a piece.
SyncOneMore(p) ==
  /\ pc[p] = "written" /\ Goto(p, "open") /\ synced' = Len(body) + 1
  /\ chain' = Set(chain, p, Append(chain[p], Last(body).report))
  /\ reported' = Append(reported, Last(body).report)
  /\ UNCHANGED <<header, body, holder, outcome, reports, faults>>

\* fsync, then the mirror: a failing fsync throws and leaves the frame in the file.
Sync(p) ==
  /\ pc[p] = "written" /\ Goto(p, "open")
  /\ \/ /\ synced' = Len(body)
        /\ chain' = Set(chain, p, Append(chain[p], Last(body).report))
        /\ reported' = Append(reported, Last(body).report)
        /\ UNCHANGED faults
     \/ Fault /\ UNCHANGED <<synced, chain, reported>>
  /\ UNCHANGED <<header, body, holder, outcome, reports>>

\* The destructor syncs, unlocks and closes.
Close(p) ==
  /\ pc[p] = "open" /\ Goto(p, "closed") /\ Unlock(p)
  /\ synced' = Len(body) /\ chain' = Set(chain, p, <<>>)
  /\ UNCHANGED <<header, body, outcome, reported, reports, faults>>

\* The process dies; what it wrote stays in the page cache.
Crash(p) ==
  /\ pc[p] # "closed" /\ Goto(p, "closed") /\ Unlock(p) /\ Fault
  /\ chain' = Set(chain, p, <<>>)
  /\ UNCHANGED <<file, outcome, reported, reports>>

\* The machine stops: pieces after the last fsync are lost, the first perhaps in part.
PowerLoss ==
  /\ Fault /\ header # "none"
  /\ \E n \in synced..Len(body) :
       \E tail \in {<<>>} \cup (IF n < Len(body) THEN {<<Stub>>, <<Torn>>} ELSE {}) :
         body' = SubSeq(body, 1, n) \o tail
  /\ synced' = Len(body')
  /\ pc' = [p \in Proc |-> "closed"] /\ chain' = [p \in Proc |-> <<>>] /\ holder' = 0
  /\ UNCHANGED <<header, outcome, reported, reports>>

Next ==
  \/ \E p \in Proc : \/ Open(p) \/ WriteHeader(p) \/ Load(p) \/ Sync(p) \/ Close(p) \/ Crash(p)
                     \/ \E long \in Long : Write(p, long)
  \/ PowerLoss

Spec == Init /\ [][Next]_vars
-----------------------------------------------------------------------------
\* The types of the state.
TypeOK ==
  /\ header \in {"none", "partial", "full"} /\ synced \in 0..Len(body)
  /\ \A i \in DOMAIN body : body[i] \in {Stub, Torn} \cup {Frame(r) : r \in Report}
  /\ holder \in Proc \cup {0}
  /\ pc \in [Proc -> {"closed", "opening", "open", "written"}]
  /\ \A p \in Proc : \A i \in DOMAIN chain[p] : chain[p][i] \in Report
  /\ outcome \in [Proc -> {"none", "ok", "locked", "io", "truncated", "tampered"}]
  /\ \A i \in DOMAIN reported : reported[i] \in Report
  /\ reports \in 0..MaxReports /\ faults \in 0..MaxFaults

\* "fsync() after every append (durability)": a report append returned is in the
\* file, whatever crashes and power losses followed.
ReportedIsDurable == \A i \in DOMAIN reported : \E n \in DOMAIN body : body[n] = Frame(reported[i])

\* The log never forks: no two reports returned, by one process or by several
\* across restarts, are chained to the same one.
NoFork == \A i, j \in DOMAIN reported : reported[i].prev = reported[j].prev => i = j

\* Whoever has the log open knows every report ever returned by any process, so that
\* opening never leaves one out of the chain it goes on from; and while nothing has
\* failed chain_ is the "in-memory mirror" of the file ("File locking prevents
\* concurrent writers").
HolderKnowsAll ==
  \A p \in Proc :
    /\ pc[p] \in {"open", "written"} => ToSet(reported) \subseteq ToSet(chain[p])
    /\ faults = 0 /\ pc[p] = "open" => chain[p] = Loaded

\* "file tampered" (MpsvsAuditPersist.cpp:130) is said of a tampered file: never
\* of whole frames that only this code wrote.
TamperedMeansTampered == Whole(body) => \A p \in Proc : outcome[p] # "tampered"
=============================================================================
