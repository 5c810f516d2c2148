----------------------------- MODULE OiraBudget -----------------------------
(* The differential-privacy budget accountant of src/volePSI/MpOiraBudget.cpp:
   processes share one file per scope, lock it with flock, rewrite it in place
   (truncate, write, fsync) and may die between any two system calls. An inode
   outlives its name, so a call that opened the file before a reset goes on
   charging the unlinked inode. Amounts of epsilon are integers; the file keeps
   multiples of 2*HalfGrain+1 of them (the code prints "%.10f"). *)
EXTENDS Integers

CONSTANTS
  Proc,        \* processes that call the accountant
  Eps,         \* the epsilons a query may ask for
  EpsCap,      \* OIRABudgetConfig::epsilonCap
  QueryCap,    \* OIRABudgetConfig::queryCap
  HalfGrain,   \* half the resolution of the printed epsilon
  MaxInode,    \* bound: files created (1 + the resets a later call follows)
  MaxFaults    \* bound: crashes, power losses and failed writes

ASSUME ConstantsAssumption ==
  /\ Eps \subseteq Nat
  /\ EpsCap \in Nat /\ QueryCap \in Nat /\ HalfGrain \in Nat
  /\ MaxInode \in Nat \ {0} /\ MaxFaults \in Nat
  /\ 0 \notin Proc

VARIABLES
  linked,   \* the inode budgetFile.scopeId names, 0 when there is none
  files,    \* the inodes created so far are 1..files
  disk,     \* what readState returns for an inode (an empty file reads as Fresh)
  durable,  \* what the last fsync of an inode made survive a power loss
  holder,   \* the process holding flock LOCK_EX on an inode, 0 when none does
  sharers,  \* the processes holding flock LOCK_SH on an inode
  pc, fd, eps, seen, reply,   \* per process: position, file, argument, state read, result
  granted,  \* history: epsilon and queries allowed on each inode
  faults    \* history: faults so far

lockVars == <<holder, sharers>>
fileVars == <<linked, files, disk, durable, lockVars>>
vars == <<linked, files, disk, durable, lockVars, pc, fd, eps, seen, reply, granted, faults>>

Inode == 1..MaxInode
State == [spent : Nat, count : Nat]
Fresh == [spent |-> 0, count |-> 0]

\* The value a printed amount reads back as: the nearest multiple of the grain.
Stored(x) == LET grain == 2 * HalfGrain + 1 IN ((x + HalfGrain) \div grain) * grain

\* What a prefix of the line "<spent> <count>" reads back as.
Torn(s) == {Fresh} \cup {[s EXCEPT !.count = s.count \div k] : k \in {d \in {1, 10, 100} : d <= s.count}}

NewSpent(p) == seen[p].spent + eps[p]
\* Mutant: counts down.
NewCountDown(p) == seen[p].count - 1
NewCount(p) == seen[p].count + 1
NewState(p) == [spent |-> Stored(NewSpent(p)), count |-> NewCount(p)]
\* An account with one more query of epsilon e granted.
Charge(account, e) == [spent |-> account.spent + e, count |-> account.count + 1]

Init ==
  /\ linked = 0 /\ files = 0 /\ faults = 0
  /\ disk = [i \in Inode |-> Fresh] /\ durable = [i \in Inode |-> Fresh]
  /\ holder = [i \in Inode |-> 0] /\ sharers = [i \in Inode |-> {}]
  /\ granted = [i \in Inode |-> Fresh]
  /\ pc = [p \in Proc |-> "idle"] /\ fd = [p \in Proc |-> 0]
  /\ eps = [p \in Proc |-> 0] /\ seen = [p \in Proc |-> Fresh]
  /\ reply = [p \in Proc |-> "none"]

At(p, here) == pc[p] = here
Goto(p, there) == pc' = [pc EXCEPT ![p] = there]

\* Closing the file drops the lock with it.
Unlocked(p) == [i \in Inode |-> IF holder[i] = p THEN 0 ELSE holder[i]]
Return(p, result) ==
  /\ Goto(p, "idle")
  /\ reply' = [reply EXCEPT ![p] = result]
  /\ holder' = Unlocked(p)
  /\ sharers' = [i \in Inode |-> sharers[i] \ {p}]
  /\ fd' = [fd EXCEPT ![p] = 0]
  /\ eps' = [eps EXCEPT ![p] = 0]
  /\ seen' = [seen EXCEPT ![p] = Fresh]

\* No scope opts out; no file, a negative epsilon and a failing open are refused.
EarlyReturn(p, result) ==
  /\ At(p, "idle") /\ Return(p, result)
  /\ UNCHANGED <<linked, files, disk, durable, granted, faults>>

\* open(O_RDWR | O_CREAT): the first call of a scope makes its file.
Open(p, e) ==
  /\ At(p, "idle") /\ Goto(p, "waiting")
  /\ linked = 0 => files < MaxInode
  /\ files' = IF linked = 0 THEN files + 1 ELSE files
  /\ linked' = IF linked = 0 THEN files + 1 ELSE linked
  /\ fd' = [fd EXCEPT ![p] = linked']
  /\ eps' = [eps EXCEPT ![p] = e]
  /\ reply' = [reply EXCEPT ![p] = "none"]
  /\ UNCHANGED <<disk, durable, lockVars, seen, granted, faults>>

\* Mutant: takes the lock without waiting for its holder.
LockShared(p) ==
  /\ At(p, "waiting") /\ Goto(p, "locked") /\ holder' = [holder EXCEPT ![fd[p]] = p]
  /\ UNCHANGED <<linked, files, disk, durable, sharers, fd, eps, seen, reply, granted, faults>>

\* flock(LOCK_EX) blocks until no process holds the inode, alone or shared.
Lock(p) ==
  /\ At(p, "waiting") /\ Goto(p, "locked")
  /\ holder[fd[p]] = 0 /\ sharers[fd[p]] = {}
  /\ holder' = [holder EXCEPT ![fd[p]] = p]
  /\ UNCHANGED <<linked, files, disk, durable, sharers, fd, eps, seen, reply, granted, faults>>

Read(p) ==
  /\ At(p, "locked") /\ Goto(p, "read")
  /\ seen' = [seen EXCEPT ![p] = disk[fd[p]]]
  /\ UNCHANGED <<fileVars, fd, eps, reply, granted, faults>>

\* Mutant: compares what was spent before this query.
OverCapBefore(p) == seen[p].spent > EpsCap \/ seen[p].count > QueryCap
OverCap(p) == NewSpent(p) > EpsCap \/ NewCount(p) > QueryCap

\* Mutant: returns with the lock held.
RefuseLocked(p) ==
  /\ At(p, "read") /\ OverCap(p) /\ Goto(p, "idle") /\ reply' = [reply EXCEPT ![p] = "refused"]
  /\ UNCHANGED <<fileVars, fd, eps, seen, granted, faults>>

Refuse(p) ==
  /\ At(p, "read") /\ OverCap(p) /\ Return(p, "refused")
  /\ UNCHANGED <<linked, files, disk, durable, granted, faults>>

\* A peek's open, flock, read, lseek or ftruncate fails before anything is changed.
SyscallFails(p) ==
  /\ pc[p] \in {"waiting", "locked", "read", "stated", "peekwait"} /\ Return(p, "refused")
  /\ UNCHANGED <<linked, files, disk, durable, granted, faults>>

\* writeState, first half: ftruncate(fd, 0).
Truncate(p) ==
  /\ At(p, "read") /\ ~OverCap(p) /\ Goto(p, "truncated")
  /\ disk' = [disk EXCEPT ![fd[p]] = Fresh]
  /\ UNCHANGED <<linked, files, durable, lockVars, fd, eps, seen, reply, granted, faults>>

Write(p) ==
  /\ At(p, "truncated") /\ Goto(p, "written")
  /\ disk' = [disk EXCEPT ![fd[p]] = NewState(p)]
  /\ UNCHANGED <<linked, files, durable, lockVars, fd, eps, seen, reply, granted, faults>>

\* write() stores less than the line: the call fails and leaves what was stored.
ShortWrite(p) ==
  /\ At(p, "truncated") /\ faults < MaxFaults /\ Return(p, "refused")
  /\ \E s \in Torn(NewState(p)) : disk' = [disk EXCEPT ![fd[p]] = s]
  /\ faults' = faults + 1
  /\ UNCHANGED <<linked, files, durable, granted>>

\* fsync, unlock, close: the query is allowed.
Allow(p) ==
  /\ At(p, "written") /\ Return(p, "allowed")
  /\ durable' = [durable EXCEPT ![fd[p]] = disk[fd[p]]]
  /\ granted' = [granted EXCEPT ![fd[p]] = Charge(@, eps[p])]
  /\ UNCHANGED <<linked, files, disk, faults>>

\* oiraBudgetPeek: a missing file is a fresh scope.
PeekMissing(p) ==
  /\ At(p, "idle") /\ linked = 0 /\ Return(p, "allowed")
  /\ UNCHANGED <<linked, files, disk, durable, granted, faults>>

PeekStat(p) ==
  /\ At(p, "idle") /\ linked # 0 /\ Goto(p, "stated")
  /\ reply' = [reply EXCEPT ![p] = "none"]
  /\ UNCHANGED <<fileVars, fd, eps, seen, granted, faults>>

\* open(O_RDONLY): the file that has the name now, if one still does.
PeekOpen(p) ==
  /\ At(p, "stated") /\ linked # 0 /\ Goto(p, "peekwait")
  /\ fd' = [fd EXCEPT ![p] = linked]
  /\ UNCHANGED <<fileVars, eps, seen, reply, granted, faults>>
PeekGone(p) ==
  /\ At(p, "stated") /\ linked = 0 /\ Return(p, "refused")
  /\ UNCHANGED <<linked, files, disk, durable, granted, faults>>

\* Mutant: takes the shared lock without waiting for the writer.
PeekLockAtOnce(p) ==
  /\ At(p, "peekwait") /\ Goto(p, "peeking") /\ sharers' = [sharers EXCEPT ![fd[p]] = @ \cup {p}]
  /\ UNCHANGED <<linked, files, disk, durable, holder, fd, eps, seen, reply, granted, faults>>

\* flock(LOCK_SH) blocks while a process holds the inode alone.
PeekLock(p) ==
  /\ At(p, "peekwait") /\ Goto(p, "peeking")
  /\ holder[fd[p]] = 0
  /\ sharers' = [sharers EXCEPT ![fd[p]] = @ \cup {p}]
  /\ UNCHANGED <<linked, files, disk, durable, holder, fd, eps, seen, reply, granted, faults>>

PeekRead(p) ==
  /\ At(p, "peeking") /\ Goto(p, "peeked")
  /\ seen' = [seen EXCEPT ![p] = disk[fd[p]]]
  /\ UNCHANGED <<fileVars, fd, eps, reply, granted, faults>>

\* A read that fails is not noticed: what is reported is a fresh scope.
PeekReadFails(p) ==
  /\ At(p, "peeking") /\ faults < MaxFaults /\ Goto(p, "peeked") /\ faults' = faults + 1
  /\ UNCHANGED <<fileVars, fd, eps, seen, reply, granted>>

\* Unlock, close, and report the state read and whether it leaves room.
PeekAnswer(s) == IF s.spent < EpsCap /\ s.count < QueryCap THEN "allowed" ELSE "refused"
PeekReturn(p) ==
  /\ At(p, "peeked") /\ Return(p, PeekAnswer(seen[p]))
  /\ UNCHANGED <<linked, files, disk, durable, granted, faults>>

\* oiraBudgetReset: unlink; whoever has the file open keeps the inode.
Reset ==
  /\ linked # 0 /\ linked' = 0
  /\ UNCHANGED <<files, disk, durable, lockVars, pc, fd, eps, seen, reply, granted, faults>>

\* A process dies; the kernel closes its file and the page cache stays.
Crash(p) ==
  /\ ~At(p, "idle") /\ faults < MaxFaults /\ Return(p, "none")
  /\ faults' = faults + 1
  /\ UNCHANGED <<linked, files, disk, durable, granted>>

\* The machine stops: an inode comes back as cached or as last made durable.
PowerLoss ==
  /\ faults < MaxFaults /\ faults' = faults + 1
  /\ pc' = [p \in Proc |-> "idle"] /\ reply' = [p \in Proc |-> "none"]
  /\ fd' = [p \in Proc |-> 0] /\ eps' = [p \in Proc |-> 0] /\ seen' = [p \in Proc |-> Fresh]
  /\ holder' = [i \in Inode |-> 0] /\ sharers' = [i \in Inode |-> {}]
  /\ \E kept \in SUBSET Inode : disk' = [i \in Inode |-> IF i \in kept THEN disk[i] ELSE durable[i]]
  /\ durable' = disk'
  /\ UNCHANGED <<linked, files, granted>>

Reserve(p) == Lock(p) \/ Read(p) \/ Refuse(p) \/ Truncate(p) \/ Write(p) \/ Allow(p)
Peek(p) == PeekOpen(p) \/ PeekGone(p) \/ PeekLock(p) \/ PeekRead(p) \/ PeekReturn(p)
Step(p) == Reserve(p) \/ Peek(p)
Call(p) ==
  \/ \E e \in Eps : Open(p, e)
  \/ EarlyReturn(p, "allowed") \/ EarlyReturn(p, "refused")
  \/ PeekMissing(p) \/ PeekStat(p)
Fault(p) == SyscallFails(p) \/ ShortWrite(p) \/ PeekReadFails(p) \/ Crash(p)
Next == (\E p \in Proc : Call(p) \/ Step(p) \/ Fault(p)) \/ Reset \/ PowerLoss

\* A caller runs on until it returns; nothing makes it call again.
Fairness == \A p \in Proc : WF_vars(Step(p))
Spec == Init /\ [][Next]_vars
FairSpec == Spec /\ Fairness
-----------------------------------------------------------------------------
\* The types of the state.
TypeOK ==
  /\ files \in 0..MaxInode /\ linked \in 0..files /\ faults \in 0..MaxFaults
  /\ disk \in [Inode -> State] /\ durable \in [Inode -> State] /\ granted \in [Inode -> State]
  /\ holder \in [Inode -> Proc \cup {0}] /\ sharers \in [Inode -> SUBSET Proc]
  /\ pc \in [Proc -> {"idle", "waiting", "locked", "read", "truncated", "written",
                      "stated", "peekwait", "peeking", "peeked"}]
  /\ fd \in [Proc -> 0..files] /\ eps \in [Proc -> Eps \cup {0}] /\ seen \in [Proc -> State]
  /\ reply \in [Proc -> {"none", "allowed", "refused"}]

\* What one account may grant: the cap, and what rounding each charge to the
\* printed resolution can hide from it.
AccountCap == EpsCap + HalfGrain * QueryCap

\* The accountant "refuses further queries once cap is hit"
\* (MpOiraBudget.h:10): an inode grants at most one account, and each fault
\* costs at most one more, whatever calls, resets and crashes interleave.
CapPerFault == \A i \in Inode :
  /\ granted[i].spent <= (faults + 1) * AccountCap
  /\ granted[i].count <= (faults + 1) * QueryCap

\* Two accounts agree: the same count, and epsilons that differ by no more than
\* the printed resolution can move them, half a grain for each query.
Near(s, account) ==
  /\ s.count = account.count
  /\ s.spent <= account.spent + HalfGrain * account.count
  /\ account.spent <= s.spent + HalfGrain * account.count

\* A reservation is neither lost nor charged twice: without faults the file, when
\* it is not being rewritten, holds what its inode granted and the one query that
\* is written and not yet allowed, in count and in epsilon (the
\* read-modify-write of oiraBudgetCheckAndReserve under its lock).
ExactAccount == faults = 0 => \A i \in Inode :
  LET here(stage) == {p \in Proc : fd[p] = i /\ At(p, stage)}
  IN here("truncated") = {} =>
       \/ here("written") = {} /\ Near(disk[i], granted[i])
       \/ \E p \in Proc : here("written") = {p} /\ Near(disk[i], Charge(granted[i], eps[p]))

\* What oiraBudgetPeek reports is the account of the file it opened, as it stands
\* when the shared lock is dropped: every query granted on it, none of them
\* missing because its writer is between truncating and returning (no fault
\* before). It may not be the file that has the name by then: see Reset.
PeekIsCurrent == [][\A p \in Proc : PeekReturn(p) /\ faults = 0 =>
  /\ Near(seen[p], granted[fd[p]])
  /\ \A q \in Proc : fd[q] = fd[p] => pc[q] \notin {"truncated", "written"}]_vars

\* "fsync to ensure durability across crashes" (MpOiraBudget.cpp:143): what was
\* charged stays charged, so an account grants its cap once, crashes or not.
ChargesSurviveCrashes == \A i \in Inode :
  granted[i].spent <= AccountCap /\ granted[i].count <= QueryCap

\* flock is never kept: every return path of oiraBudgetCheckAndReserve and of
\* oiraBudgetPeek, and a crash, lets the next caller of the scope in.
EveryHolderLetsGo == \A i \in Inode : \A p \in Proc :
  (holder[i] = p \/ p \in sharers[i]) ~> (holder[i] # p /\ p \notin sharers[i])
=============================================================================
