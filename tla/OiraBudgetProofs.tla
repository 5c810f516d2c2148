-------------------------- MODULE OiraBudgetProofs --------------------------
(* Proofs about OiraBudget, for every set of processes, cap and resolution. *)
EXTENDS OiraBudget, TLAPS

Holds(p) == pc[p] \in {"locked", "read", "truncated", "written"}
Rewriting(p) == pc[p] \in {"truncated", "written"}
Shares(p) == pc[p] \in {"peeking", "peeked"}
HasFile(p) == pc[p] \notin {"idle", "stated"}

\* Whoever is past flock has a file, and holds it alone or shares it.
Locking ==
  /\ \A p \in Proc : /\ HasFile(p) => fd[p] \in 1..files
                     /\ Holds(p) => holder[fd[p]] = p
                     /\ Shares(p) => p \in sharers[fd[p]]
  /\ \A i \in Inode : holder[i] # 0 => sharers[i] = {}

\* The caps were checked against the state read, and nobody changed it since.
CheckedBy(p) ==
  /\ At(p, "read") => disk[fd[p]] = seen[p]
  /\ At(p, "written") => disk[fd[p]] = NewState(p)
  /\ Rewriting(p) => ~OverCap(p)
Checked == \A p \in Proc : CheckedBy(p)

\* A state s of inode i accounts for every grant of i since the last fault.
Accounts(i, s) ==
  /\ granted[i].spent <= faults * AccountCap + s.spent + HalfGrain * s.count
  /\ granted[i].count <= faults * QueryCap + s.count

\* The file accounts for the grants, except while its holder rewrites it: then
\* the state the holder has read does.
Accounted ==
  /\ \A i \in Inode : (\A p \in Proc : fd[p] = i => ~Rewriting(p)) => Accounts(i, disk[i])
  /\ \A p \in Proc : Rewriting(p) => Accounts(fd[p], seen[p])

IInv == TypeOK /\ Locking /\ Checked /\ Accounted /\ CapPerFault
-----------------------------------------------------------------------------
LEMMA MulMono == \A h, a, b \in Nat : a <= b => h * a <= h * b
  OBVIOUS

\* Printing and reading back moves an amount by at most half a grain.
LEMMA StoredNear ==
  \A x \in Nat : Stored(x) \in Nat /\ Stored(x) <= x + HalfGrain /\ x <= Stored(x) + HalfGrain
<1> TAKE x \in Nat
<1> DEFINE g == 2 * HalfGrain + 1
           q == (x + HalfGrain) \div g
           r == (x + HalfGrain) % g
<1>1. g \in Nat /\ g > 0
  BY ConstantsAssumption
<1>2. q \in Nat /\ r \in 0..(g-1) /\ x + HalfGrain = g * q + r
  <2> HIDE DEF g
  <2>1. x + HalfGrain \in Nat
    BY ConstantsAssumption
  <2>2. \A a \in Nat : a \div g \in Nat /\ a % g \in 0..(g-1) /\ a = g * (a \div g) + (a % g)
    BY <1>1
  <2> QED BY <2>1, <2>2
<1>3. Stored(x) = q * g
  BY DEF Stored
<1>4. q * g \in Nat /\ q * g = x + HalfGrain - r
  <2> HIDE DEF g, q, r
  <2> QED BY <1>1, <1>2, ConstantsAssumption
<1> HIDE DEF q, r
<1> QED BY <1>2, <1>3, <1>4, ConstantsAssumption

LEMMA EpsNat == \A e \in Eps \cup {0} : e \in Nat
BY ConstantsAssumption

LEMMA TornType == \A s \in State : Torn(s) \subseteq State
<1> SUFFICES ASSUME NEW s \in State, NEW k \in {d \in {1, 10, 100} : d <= s.count}
             PROVE [s EXCEPT !.count = s.count \div k] \in State
  BY DEF Torn, State, Fresh
<1>1. s.count \div k \in Nat
  BY DEF State
<1> QED BY <1>1 DEF State

LEMMA NewStateType ==
  ASSUME TypeOK, NEW p \in Proc
  PROVE /\ NewSpent(p) \in Nat /\ NewCount(p) \in Nat
        /\ NewState(p) \in State
<1>1. eps[p] \in Nat /\ seen[p].spent \in Nat /\ seen[p].count \in Nat
  <2>1. eps[p] \in Eps \cup {0} /\ seen[p] \in State
    BY DEF TypeOK
  <2>2. eps[p] \in Nat
    BY <2>1, EpsNat
  <2> QED BY <2>1, <2>2 DEF State
<1>2. NewSpent(p) \in Nat /\ NewCount(p) \in Nat
  BY <1>1 DEF NewSpent, NewCount
<1> HIDE DEF NewSpent, NewCount
<1> QED BY <1>2, StoredNear DEF NewState, State

-----------------------------------------------------------------------------
LEMMA TypeInit == Init => TypeOK /\ Locking
BY ConstantsAssumption DEF Init, TypeOK, Locking, State, Fresh, HasFile, Holds, Shares

\* A return leaves the returning process's own variables well typed.
LEMMA ReturnType ==
  ASSUME TypeOK, NEW p \in Proc, NEW result \in {"none", "allowed", "refused"}, Return(p, result)
  PROVE /\ holder' \in [Inode -> Proc \cup {0}] /\ sharers' \in [Inode -> SUBSET Proc]
        /\ pc' \in [Proc -> {"idle", "waiting", "locked", "read", "truncated", "written",
                            "stated", "peekwait", "peeking", "peeked"}]
        /\ fd' \in [Proc -> 0..files] /\ eps' \in [Proc -> Eps \cup {0}] /\ seen' \in [Proc -> State]
        /\ reply' \in [Proc -> {"none", "allowed", "refused"}]
BY DEF TypeOK, Return, Goto, Unlocked, State, Fresh

LEMMA TypeNext == TypeOK /\ Locking /\ [Next]_vars => TypeOK'
<1> SUFFICES ASSUME TypeOK, Locking, [Next]_vars PROVE TypeOK'
  OBVIOUS
<1> USE ConstantsAssumption
<1>1. ASSUME NEW p \in Proc, NEW e \in Eps, Open(p, e) PROVE TypeOK'
  <2>1. files' \in 0..MaxInode /\ linked' \in 0..files' /\ 0..files \subseteq 0..files'
    BY <1>1 DEF TypeOK, Open
  <2> QED BY <1>1, <2>1 DEF TypeOK, Open, At, Goto, lockVars
<1>2. ASSUME NEW p \in Proc, NEW result \in {"none", "allowed", "refused"}, Return(p, result),
             UNCHANGED <<linked, files, disk, durable, granted, faults>>
      PROVE  TypeOK'
  <2>1. /\ holder' \in [Inode -> Proc \cup {0}] /\ sharers' \in [Inode -> SUBSET Proc]
        /\ pc' \in [Proc -> {"idle", "waiting", "locked", "read", "truncated", "written",
                            "stated", "peekwait", "peeking", "peeked"}]
        /\ fd' \in [Proc -> 0..files] /\ eps' \in [Proc -> Eps \cup {0}] /\ seen' \in [Proc -> State]
        /\ reply' \in [Proc -> {"none", "allowed", "refused"}]
    BY <1>2, ReturnType
  <2>2. UNCHANGED <<linked, files, disk, durable, granted, faults>>
    BY <1>2
  <2> HIDE <1>2
  <2> QED BY <2>1, <2>2 DEF TypeOK
<1>3. ASSUME NEW p \in Proc, \/ EarlyReturn(p, "allowed") \/ EarlyReturn(p, "refused") \/ Refuse(p)
                             \/ SyscallFails(p) \/ PeekMissing(p) \/ PeekGone(p) \/ PeekReturn(p)
      PROVE  TypeOK'
  BY <1>2, <1>3 DEF EarlyReturn, Refuse, SyscallFails, PeekMissing, PeekGone, PeekReturn, PeekAnswer
<1>4. ASSUME NEW p \in Proc, PeekStat(p) \/ PeekOpen(p) \/ PeekLock(p) \/ Lock(p) PROVE TypeOK'
  BY <1>4 DEF TypeOK, PeekStat, PeekOpen, PeekLock, Lock, At, Goto, fileVars, lockVars
<1>5. ASSUME NEW p \in Proc, Read(p) \/ PeekRead(p) PROVE TypeOK'
  <2>1. fd[p] \in 1..files /\ files \in 0..MaxInode
    BY <1>5 DEF TypeOK, Locking, HasFile, Read, PeekRead, At
  <2>2. disk[fd[p]] \in State
    BY <2>1 DEF TypeOK, Inode
  <2>3. seen' \in [Proc -> State]
    BY <1>5, <2>2 DEF TypeOK, Read, PeekRead
  <2> QED BY <1>5, <2>3 DEF TypeOK, Read, PeekRead, At, Goto, fileVars, lockVars
<1>7. ASSUME NEW p \in Proc, Truncate(p) PROVE TypeOK'
  BY <1>7 DEF TypeOK, Truncate, At, Goto, State, Fresh, lockVars
<1>8. ASSUME NEW p \in Proc, Write(p) PROVE TypeOK'
  BY <1>8, NewStateType DEF TypeOK, Write, At, Goto, lockVars
<1>9. ASSUME NEW p \in Proc, Allow(p) PROVE TypeOK'
  <2>1. eps[p] \in Nat /\ fd[p] \in Inode /\ granted[fd[p]] \in State
    <3>1. eps[p] \in Eps \cup {0} /\ fd[p] \in 1..files /\ files \in 0..MaxInode
      BY <1>9 DEF TypeOK, Locking, HasFile, Allow, At
    <3>2. eps[p] \in Nat
      BY <3>1, EpsNat
    <3>3. fd[p] \in Inode
      BY <3>1 DEF Inode
    <3> QED BY <3>2, <3>3 DEF TypeOK
  <2>2. granted' \in [Inode -> State] /\ durable' \in [Inode -> State]
    BY <1>9, <2>1 DEF TypeOK, Allow, Charge, State
  <2> QED BY <1>9, <2>2, ReturnType DEF TypeOK, Allow
<1>11. ASSUME NEW p \in Proc, ShortWrite(p) PROVE TypeOK'
  <2>1. PICK s \in Torn(NewState(p)) : disk' = [disk EXCEPT ![fd[p]] = s]
    BY <1>11 DEF ShortWrite
  <2>2. s \in State
    BY NewStateType, TornType
  <2>3. disk' \in [Inode -> State]
    BY <2>1, <2>2 DEF TypeOK
  <2>4. faults' \in 0..MaxFaults
    BY <1>11 DEF TypeOK, ShortWrite
  <2> QED BY <1>11, <2>3, <2>4, ReturnType DEF TypeOK, ShortWrite
<1>12. ASSUME NEW p \in Proc, PeekReadFails(p) PROVE TypeOK'
  BY <1>12 DEF TypeOK, PeekReadFails, Goto, fileVars, lockVars
<1>13. ASSUME NEW p \in Proc, Crash(p) PROVE TypeOK'
  <2>1. faults' \in 0..MaxFaults
    BY <1>13 DEF TypeOK, Crash
  <2> QED BY <1>13, <2>1, ReturnType DEF TypeOK, Crash
<1>14. CASE Reset
  BY <1>14 DEF TypeOK, Reset, lockVars
<1>15. CASE PowerLoss
  BY <1>15 DEF TypeOK, PowerLoss, State, Fresh
<1>16. CASE UNCHANGED vars
  BY <1>16 DEF TypeOK, vars, lockVars
<1> QED
  BY <1>1, <1>3, <1>4, <1>5, <1>7, <1>8, <1>9, <1>11, <1>12, <1>13, <1>14, <1>15, <1>16
     DEF Next, Call, Step, Reserve, Peek, Fault

\* A return gives up whatever its process holds, and nothing of anybody else's.
LEMMA ReturnLocking ==
  ASSUME TypeOK, Locking, NEW p \in Proc, NEW result, Return(p, result), UNCHANGED files
  PROVE  Locking'
<1>1. \A i \in Inode : holder'[i] = (IF holder[i] = p THEN 0 ELSE holder[i]) /\ sharers'[i] = sharers[i] \ {p}
  BY DEF Return, Unlocked
<1>2. \A q \in Proc : q # p => pc'[q] = pc[q] /\ fd'[q] = fd[q]
  BY DEF TypeOK, Return, Goto
<1>3. ~HasFile(p)' /\ ~Holds(p)' /\ ~Shares(p)'
  BY DEF TypeOK, Return, Goto, HasFile, Holds, Shares
<1>4. ASSUME NEW q \in Proc, q # p, HasFile(q)'
      PROVE  /\ fd'[q] \in 1..files' /\ fd[q] \in Inode
             /\ Holds(q)' => holder'[fd'[q]] = q
             /\ Shares(q)' => q \in sharers'[fd'[q]]
  <2>1. fd[q] \in 1..files /\ files \in 0..MaxInode
    BY <1>2, <1>4 DEF TypeOK, Locking, HasFile
  <2>2. fd[q] \in Inode
    BY <2>1, ConstantsAssumption DEF Inode
  <2> QED BY <1>1, <1>2, <1>4, <2>1, <2>2 DEF Locking, Holds, Shares
<1>5. \A q \in Proc : (Holds(q) \/ Shares(q))' => HasFile(q)'
  BY DEF Holds, Shares, HasFile
<1>6. \A i \in Inode : holder'[i] # 0 => sharers'[i] = {}
  BY <1>1 DEF Locking
<1> QED BY <1>3, <1>4, <1>5, <1>6 DEF Locking

\* A step that touches neither the locks nor the file of anybody who has one.
LEMMA QuietLocking ==
  ASSUME Locking, UNCHANGED <<holder, sharers>>, files' >= files, files \in Nat, files' \in Nat,
         \A q \in Proc : HasFile(q)' => (HasFile(q) /\ fd'[q] = fd[q]) \/ fd'[q] \in 1..files',
         \A q \in Proc : (Holds(q)' => Holds(q) /\ fd'[q] = fd[q]) /\ (Shares(q)' => Shares(q) /\ fd'[q] = fd[q])
  PROVE  Locking'
<1>1. ASSUME NEW q \in Proc, HasFile(q)' PROVE fd'[q] \in 1..files'
  BY <1>1 DEF Locking
<1>2. ASSUME NEW q \in Proc PROVE (Holds(q)' => holder'[fd'[q]] = q) /\ (Shares(q)' => q \in sharers'[fd'[q]])
  BY DEF Locking
<1>3. \A i \in Inode : holder'[i] # 0 => sharers'[i] = {}
  BY DEF Locking
<1> QED BY <1>1, <1>2, <1>3 DEF Locking

LEMMA LockingNext == TypeOK /\ Locking /\ [Next]_vars => Locking'
<1> SUFFICES ASSUME TypeOK, Locking, [Next]_vars PROVE Locking'
  OBVIOUS
<1> USE ConstantsAssumption
<1>0. files \in Nat /\ files <= MaxInode /\ \A q \in Proc : HasFile(q) => fd[q] \in Inode
  BY DEF TypeOK, Locking, Inode
<1>1. ASSUME NEW p \in Proc, NEW e \in Eps, Open(p, e) PROVE Locking'
  <2>1. linked' \in 1..files' /\ files <= files' /\ files' \in Nat
    BY <1>1 DEF TypeOK, Open
  <2>2. /\ HasFile(p)' /\ ~Holds(p)' /\ ~Shares(p)' /\ fd'[p] = linked'
        /\ \A q \in Proc : q # p => pc'[q] = pc[q] /\ fd'[q] = fd[q]
    BY <1>1 DEF TypeOK, Open, Goto, HasFile, Holds, Shares
  <2>3. UNCHANGED <<holder, sharers>>
    BY <1>1 DEF Open, lockVars
  <2> QED BY <1>0, <2>1, <2>2, <2>3, QuietLocking DEF HasFile, Holds, Shares
<1>2. ASSUME NEW p \in Proc, NEW result, Return(p, result), UNCHANGED files PROVE Locking'
  BY <1>2, ReturnLocking
<1>3. ASSUME NEW p \in Proc, \/ EarlyReturn(p, "allowed") \/ EarlyReturn(p, "refused") \/ Refuse(p)
                             \/ Allow(p) \/ SyscallFails(p) \/ ShortWrite(p) \/ Crash(p)
                             \/ PeekMissing(p) \/ PeekGone(p) \/ PeekReturn(p)
      PROVE  Locking'
  BY <1>2, <1>3 DEF EarlyReturn, Refuse, Allow, SyscallFails, ShortWrite, Crash, PeekMissing, PeekGone, PeekReturn
<1>4. ASSUME NEW p \in Proc, Lock(p) PROVE Locking'
  <2>1. /\ fd[p] \in Inode /\ fd' = fd /\ files' = files /\ pc' = [pc EXCEPT ![p] = "locked"]
        /\ sharers' = sharers /\ sharers[fd[p]] = {} /\ holder[fd[p]] = 0 /\ holder' = [holder EXCEPT ![fd[p]] = p]
    BY <1>0, <1>4 DEF Lock, At, Goto, HasFile
  <2>2. ASSUME NEW q \in Proc
        PROVE (/\ HasFile(q) => fd[q] \in 1..files
               /\ Holds(q) => holder[fd[q]] = q
               /\ Shares(q) => q \in sharers[fd[q]])'
    BY <1>0, <1>4, <2>1 DEF TypeOK, Locking, HasFile, Holds, Shares, Lock, At
  <2>3. \A i \in Inode : holder'[i] # 0 => sharers'[i] = {}
    BY <2>1 DEF TypeOK, Locking
  <2> QED BY <2>2, <2>3 DEF Locking
<1>5. ASSUME NEW p \in Proc, PeekLock(p) PROVE Locking'
  <2>1. /\ fd[p] \in Inode /\ fd' = fd /\ files' = files /\ pc' = [pc EXCEPT ![p] = "peeking"]
        /\ holder' = holder /\ holder[fd[p]] = 0 /\ sharers' = [sharers EXCEPT ![fd[p]] = @ \cup {p}]
    BY <1>0, <1>5 DEF PeekLock, At, Goto, HasFile
  <2>2. ASSUME NEW q \in Proc
        PROVE (/\ HasFile(q) => fd[q] \in 1..files
               /\ Holds(q) => holder[fd[q]] = q
               /\ Shares(q) => q \in sharers[fd[q]])'
    BY <1>0, <1>5, <2>1 DEF TypeOK, Locking, HasFile, Holds, Shares, PeekLock, At
  <2>3. \A i \in Inode : holder'[i] # 0 => sharers'[i] = {}
    BY <2>1 DEF TypeOK, Locking
  <2> QED BY <2>2, <2>3 DEF Locking
<1>6. ASSUME NEW p \in Proc,
             Read(p) \/ Truncate(p) \/ Write(p) \/ PeekStat(p) \/ PeekRead(p) \/ PeekReadFails(p)
      PROVE  Locking'
  <2>1. UNCHANGED <<holder, sharers, fd, files>>
    BY <1>6 DEF Read, Truncate, Write, PeekStat, PeekRead, PeekReadFails, fileVars, lockVars
  <2>2. \A q \in Proc : (HasFile(q)' => HasFile(q)) /\ (Holds(q)' => Holds(q)) /\ (Shares(q)' => Shares(q))
    BY <1>6 DEF TypeOK, Read, Truncate, Write, PeekStat, PeekRead, PeekReadFails, At, Goto, HasFile, Holds, Shares
  <2>3. \A q \in Proc : (Holds(q) \/ Shares(q))' => HasFile(q)'
    BY DEF HasFile, Holds, Shares
  <2> QED BY <1>0, <2>1, <2>2, <2>3, QuietLocking
<1>7. ASSUME NEW p \in Proc, PeekOpen(p) PROVE Locking'
  <2>1. UNCHANGED <<holder, sharers, files>> /\ linked \in 1..files
    BY <1>7 DEF TypeOK, PeekOpen, fileVars, lockVars
  <2>2. /\ HasFile(p)' /\ ~Holds(p)' /\ ~Shares(p)' /\ fd'[p] = linked
        /\ \A q \in Proc : q # p => pc'[q] = pc[q] /\ fd'[q] = fd[q]
    BY <1>7 DEF TypeOK, PeekOpen, Goto, HasFile, Holds, Shares
  <2> QED BY <1>0, <2>1, <2>2, QuietLocking DEF HasFile, Holds, Shares
<1>8. CASE PowerLoss
  BY <1>8 DEF Locking, PowerLoss, HasFile, Holds, Shares
<1>9. CASE Reset \/ UNCHANGED vars
  BY <1>9 DEF Locking, Reset, vars, lockVars, HasFile, Holds, Shares
<1> QED
  BY <1>1, <1>3, <1>4, <1>5, <1>6, <1>7, <1>8, <1>9 DEF Next, Call, Step, Reserve, Peek, Fault

\* The state keeps its types, whatever calls, faults and resets interleave.
THEOREM TypeCorrect == Spec => []TypeOK
<1>1. Init => TypeOK /\ Locking
  BY TypeInit
<1>2. TypeOK /\ Locking /\ [Next]_vars => (TypeOK /\ Locking)'
  BY TypeNext, LockingNext
<1> QED BY <1>1, <1>2, PTL DEF Spec
-----------------------------------------------------------------------------
\* What a query adds to the account covers what it is granted.
LEMMA ChargeCovers ==
  ASSUME TypeOK, NEW p \in Proc
  PROVE /\ NewSpent(p) + HalfGrain * seen[p].count <= NewState(p).spent + HalfGrain * NewState(p).count
        /\ seen[p].count + 1 = NewState(p).count
<1>1. NewSpent(p) \in Nat /\ seen[p].count \in Nat /\ NewCount(p) = seen[p].count + 1
  BY NewStateType DEF TypeOK, State, NewCount
<1>2. NewSpent(p) <= Stored(NewSpent(p)) + HalfGrain /\ Stored(NewSpent(p)) \in Nat
  BY <1>1, StoredNear
<1>3. HalfGrain * (seen[p].count + 1) = HalfGrain * seen[p].count + HalfGrain /\ HalfGrain * seen[p].count \in Nat
  BY <1>1, ConstantsAssumption
<1> HIDE DEF NewSpent, NewCount, Stored
<1> QED BY <1>1, <1>2, <1>3, ConstantsAssumption DEF NewState

\* The checked caps bound the account with the query in it.
LEMMA CapsBound ==
  ASSUME TypeOK, NEW p \in Proc, ~OverCap(p)
  PROVE NewSpent(p) + HalfGrain * seen[p].count <= AccountCap /\ seen[p].count + 1 <= QueryCap
<1>1. NewSpent(p) \in Nat /\ seen[p].count \in Nat /\ NewCount(p) = seen[p].count + 1
  BY NewStateType DEF TypeOK, State, NewCount
<1>2. NewSpent(p) <= EpsCap /\ seen[p].count + 1 <= QueryCap
  BY <1>1, ConstantsAssumption DEF OverCap
<1>3. HalfGrain * seen[p].count <= HalfGrain * QueryCap
  BY <1>1, <1>2, MulMono, ConstantsAssumption
<1>4. HalfGrain * seen[p].count \in Nat /\ HalfGrain * QueryCap \in Nat
  BY <1>1, ConstantsAssumption
<1> HIDE DEF NewSpent
<1> QED BY <1>1, <1>2, <1>3, <1>4, ConstantsAssumption DEF AccountCap

LEMMA AccountCapType ==
  /\ AccountCap \in Nat
  /\ \A n \in Nat : /\ n * AccountCap \in Nat /\ (n + 1) * AccountCap = n * AccountCap + AccountCap
                    /\ n * QueryCap \in Nat /\ (n + 1) * QueryCap = n * QueryCap + QueryCap
<1>1. AccountCap \in Nat
  BY ConstantsAssumption DEF AccountCap
<1> HIDE DEF AccountCap
<1> QED BY <1>1, ConstantsAssumption
-----------------------------------------------------------------------------
\* flock excludes: two processes past it are not in the same file.
LEMMA Exclusion ==
  ASSUME Locking, NEW p \in Proc, NEW q \in Proc, Holds(p), Holds(q), fd[p] = fd[q]
  PROVE  p = q
BY DEF Locking

LEMMA OpenFile ==
  ASSUME TypeOK, Locking, NEW p \in Proc, HasFile(p)
  PROVE  fd[p] \in Inode
<1>1. fd[p] \in 1..files /\ files \in 0..MaxInode
  BY DEF TypeOK, Locking
<1> QED BY <1>1, ConstantsAssumption DEF Inode

LEMMA CheckedNext == IInv /\ [Next]_vars => Checked'
<1> SUFFICES ASSUME IInv, [Next]_vars, NEW q \in Proc
             PROVE CheckedBy(q)'
  BY DEF Checked
<1> USE DEF IInv
<1>1. ASSUME NEW p \in Proc, NEW e \in Eps, Open(p, e)
      PROVE (pc'[q] = pc[q] /\ fd'[q] = fd[q] /\ eps'[q] = eps[q]) \/ At(q, "waiting")'
  BY <1>1 DEF TypeOK, Open, At, Goto
<1>2. ASSUME NEW p \in Proc, NEW result, Return(p, result)
      PROVE (pc'[q] = pc[q] /\ fd'[q] = fd[q] /\ eps'[q] = eps[q] /\ seen'[q] = seen[q] /\ q # p)
            \/ At(q, "idle")'
  BY <1>2 DEF TypeOK, Return, At, Goto
<1>3. CASE \E p \in Proc, e \in Eps : Open(p, e)
  BY <1>1, <1>3 DEF Checked, CheckedBy, Open, At, Rewriting, OverCap, NewSpent, NewCount, NewState
<1>4. ASSUME NEW p \in Proc, NEW result, Return(p, result), UNCHANGED disk
      PROVE CheckedBy(q)'
  BY <1>2, <1>4 DEF Checked, CheckedBy, At, Rewriting, OverCap, NewSpent, NewCount, NewState
<1>5. ASSUME NEW p \in Proc, \/ EarlyReturn(p, "allowed") \/ EarlyReturn(p, "refused")
                             \/ Refuse(p) \/ Allow(p) \/ SyscallFails(p) \/ Crash(p)
                             \/ PeekMissing(p) \/ PeekGone(p) \/ PeekReturn(p)
      PROVE CheckedBy(q)'
  BY <1>4, <1>5 DEF EarlyReturn, Refuse, Allow, SyscallFails, Crash, PeekMissing, PeekGone, PeekReturn
<1>6. ASSUME NEW p \in Proc, \/ Lock(p) \/ PeekStat(p) \/ PeekOpen(p) \/ PeekLock(p) \/ PeekRead(p)
                             \/ PeekReadFails(p)
      PROVE CheckedBy(q)'
  <2>1. disk' = disk /\ eps' = eps
    BY <1>6 DEF Lock, PeekStat, PeekOpen, PeekLock, PeekRead, PeekReadFails, fileVars
  <2>2. \/ pc'[q] = pc[q] /\ fd'[q] = fd[q] /\ seen'[q] = seen[q]
        \/ pc'[q] \in {"locked", "stated", "peekwait", "peeking", "peeked"}
    BY <1>6 DEF TypeOK, Lock, PeekStat, PeekOpen, PeekLock, PeekRead, PeekReadFails, fileVars, Goto
  <2> QED
    BY <2>1, <2>2 DEF Checked, CheckedBy, At, Rewriting, OverCap, NewSpent, NewCount, NewState
<1>7. ASSUME NEW p \in Proc, Read(p)
      PROVE CheckedBy(q)'
  BY <1>7 DEF TypeOK, Checked, CheckedBy, Read, fileVars, At, Goto, Rewriting, OverCap, NewSpent, NewCount, NewState
<1>8. ASSUME NEW p \in Proc, Truncate(p) \/ Write(p) \/ ShortWrite(p), q # p, Holds(q)
      PROVE  disk'[fd[q]] = disk[fd[q]]
  <2>1. fd[q] # fd[p]
    BY <1>8, Exclusion DEF Truncate, Write, ShortWrite, Holds, At
  <2>2. fd[q] \in Inode
    BY <1>8, OpenFile DEF HasFile, Holds, At
  <2> QED BY <1>8, <2>1, <2>2 DEF TypeOK, Truncate, Write, ShortWrite
<1>9. ASSUME NEW p \in Proc, ShortWrite(p)
      PROVE CheckedBy(q)'
  <2>1. Return(p, "refused")
    BY <1>9 DEF ShortWrite
  <2>2. CASE pc'[q] = pc[q] /\ fd'[q] = fd[q] /\ eps'[q] = eps[q] /\ seen'[q] = seen[q] /\ q # p
    <3>1. Holds(q) => disk'[fd[q]] = disk[fd[q]]
      BY <1>8, <1>9, <2>2
    <3> QED
      BY <2>2, <3>1 DEF Checked, CheckedBy, At, Holds, Rewriting, OverCap, NewSpent, NewCount, NewState
  <2>3. CASE At(q, "idle")'
    BY <2>3 DEF CheckedBy, At, Rewriting
  <2> QED BY <1>2, <2>1, <2>2, <2>3
<1>10. ASSUME NEW p \in Proc, Truncate(p)
      PROVE CheckedBy(q)'
  BY <1>8, <1>10 DEF TypeOK, Checked, CheckedBy, Truncate, At, Goto, Holds, Rewriting, OverCap, NewSpent, NewCount, NewState
<1>11. ASSUME NEW p \in Proc, Write(p)
      PROVE CheckedBy(q)'
  <2>1. CASE q # p
    BY <1>8, <1>11, <2>1 DEF TypeOK, Checked, CheckedBy, Write, At, Goto, Holds, Rewriting, OverCap, NewSpent, NewCount, NewState
  <2>2. CASE q = p
    <3>1. fd[p] \in Inode
      BY <1>11, OpenFile DEF HasFile, Write, At
    <3>2. fd' = fd /\ eps' = eps /\ seen' = seen /\ pc'[p] = "written" /\ pc[p] = "truncated"
      BY <1>11 DEF TypeOK, Write, At, Goto
    <3>3. disk'[fd[p]] = NewState(p)
      BY <1>11, <3>1 DEF TypeOK, Write
    <3>4. NewState(p)' = NewState(p) /\ OverCap(p)' = OverCap(p)
      BY <3>2 DEF OverCap, NewSpent, NewCount, NewState
    <3>5. ~OverCap(p)
      BY <3>2 DEF Checked, CheckedBy, Rewriting
    <3> QED
      BY <2>2, <3>2, <3>3, <3>4, <3>5 DEF CheckedBy, At, Rewriting
  <2> QED BY <2>1, <2>2
<1>12. CASE PowerLoss
  BY <1>12 DEF CheckedBy, PowerLoss, At, Rewriting
<1>13. CASE Reset \/ UNCHANGED vars
  BY <1>13 DEF Checked, CheckedBy, Reset, vars, At, Rewriting, OverCap, NewSpent, NewCount, NewState
<1> QED
  BY <1>3, <1>5, <1>6, <1>7, <1>9, <1>10, <1>11, <1>12, <1>13 DEF Next, Call, Step, Reserve, Peek, Fault
-----------------------------------------------------------------------------
\* A fault adds one account to the bound, which then covers any file content.
LEMMA FaultAccounts ==
  ASSUME TypeOK, CapPerFault, TypeOK', faults' = faults + 1, granted' = granted
  PROVE  CapPerFault' /\ \A i \in Inode, s \in State : Accounts(i, s)'
<1> SUFFICES ASSUME NEW i \in Inode
             PROVE /\ granted[i].spent <= (faults' + 1) * AccountCap
                   /\ granted[i].count <= (faults' + 1) * QueryCap
                   /\ \A s \in State : /\ granted[i].spent <= faults' * AccountCap + s.spent + HalfGrain * s.count
                                       /\ granted[i].count <= faults' * QueryCap + s.count
  BY DEF CapPerFault, Accounts, AccountCap
<1>1. faults \in Nat /\ faults' \in Nat /\ faults' = faults + 1
  BY DEF TypeOK
<1>2. granted[i] \in State /\ granted[i].spent \in Nat /\ granted[i].count \in Nat
  BY DEF TypeOK, State
<1>3. granted[i].spent <= faults' * AccountCap /\ granted[i].count <= faults' * QueryCap
  BY <1>1 DEF CapPerFault
<1>4. \A s \in State : s.spent \in Nat /\ s.count \in Nat /\ HalfGrain * s.count \in Nat
  BY ConstantsAssumption DEF State
<1>5. faults' * AccountCap \in Nat /\ (faults' + 1) * AccountCap = faults' * AccountCap + AccountCap /\ AccountCap \in Nat
  BY <1>1, AccountCapType
<1>6. faults' * QueryCap \in Nat /\ (faults' + 1) * QueryCap = faults' * QueryCap + QueryCap /\ QueryCap \in Nat
  BY <1>1, AccountCapType, ConstantsAssumption
<1>7. granted[i].spent <= (faults' + 1) * AccountCap /\ granted[i].count <= (faults' + 1) * QueryCap
  BY <1>2, <1>3, <1>5, <1>6
<1>8. ASSUME NEW s \in State
      PROVE /\ granted[i].spent <= faults' * AccountCap + s.spent + HalfGrain * s.count
            /\ granted[i].count <= faults' * QueryCap + s.count
  BY <1>2, <1>3, <1>4, <1>5, <1>6
<1> QED BY <1>7, <1>8

\* A step that grants nothing and faults nothing keeps the account of each
\* state it leaves in place.
LEMMA AccountsKept ==
  ASSUME UNCHANGED <<faults, granted>>
  PROVE  \A i, s : Accounts(i, s) => Accounts(i, s)'
BY DEF Accounts, AccountCap

LEMMA AccountedNext == IInv /\ TypeOK' /\ Locking' /\ [Next]_vars => Accounted' /\ CapPerFault'
<1> SUFFICES ASSUME IInv, TypeOK', Locking', [Next]_vars PROVE Accounted' /\ CapPerFault'
  OBVIOUS
<1> USE DEF IInv
\* Steps that touch neither a file's content nor a process rewriting one.
<1>1. ASSUME UNCHANGED <<disk, faults, granted>>,
             \A q \in Proc : Rewriting(q) = Rewriting(q)' /\ (Rewriting(q) => fd'[q] = fd[q] /\ seen'[q] = seen[q])
      PROVE  Accounted' /\ CapPerFault'
  <2>1. CapPerFault'
    BY <1>1 DEF CapPerFault, AccountCap
  <2>2. ASSUME NEW i \in Inode, (\A q \in Proc : fd[q] = i => ~Rewriting(q))'
        PROVE  Accounts(i, disk[i])'
    BY <1>1, <2>2, AccountsKept DEF Accounted
  <2>3. ASSUME NEW q \in Proc, Rewriting(q)' PROVE Accounts(fd[q], seen[q])'
    BY <1>1, <2>3, AccountsKept DEF Accounted
  <2> QED BY <2>1, <2>2, <2>3 DEF Accounted
<1>2. ASSUME NEW p \in Proc, NEW result, Return(p, result), ~Rewriting(p), UNCHANGED <<disk, faults, granted>>
      PROVE  Accounted' /\ CapPerFault'
  BY <1>1, <1>2 DEF TypeOK, Return, Goto, Rewriting
<1>3. ASSUME NEW p \in Proc, \/ EarlyReturn(p, "allowed") \/ EarlyReturn(p, "refused") \/ Refuse(p)
                             \/ SyscallFails(p) \/ PeekMissing(p) \/ PeekGone(p) \/ PeekReturn(p)
      PROVE  Accounted' /\ CapPerFault'
  BY <1>2, <1>3 DEF EarlyReturn, Refuse, SyscallFails, PeekMissing, PeekGone, PeekReturn, At, Rewriting
<1>4. ASSUME NEW p \in Proc, \/ \E e \in Eps : Open(p, e)
                             \/ Lock(p) \/ Read(p) \/ PeekStat(p) \/ PeekOpen(p) \/ PeekLock(p) \/ PeekRead(p)
      PROVE  Accounted' /\ CapPerFault'
  <2>1. UNCHANGED <<disk, faults, granted>>
    BY <1>4 DEF Open, Lock, Read, PeekStat, PeekOpen, PeekLock, PeekRead, fileVars
  <2>2. \A q \in Proc : Rewriting(q) = Rewriting(q)' /\ (Rewriting(q) => fd'[q] = fd[q] /\ seen'[q] = seen[q])
    BY <1>4 DEF TypeOK, Open, Lock, Read, PeekStat, PeekOpen, PeekLock, PeekRead, fileVars, At, Goto, Rewriting
  <2> QED BY <1>1, <2>1, <2>2
<1>5. ASSUME faults' = faults + 1, granted' = granted PROVE Accounted' /\ CapPerFault'
  <2>1. CapPerFault' /\ \A i \in Inode, s \in State : Accounts(i, s)'
    BY <1>5, FaultAccounts
  <2>2. \A i \in Inode : disk'[i] \in State
    BY DEF TypeOK
  <2>3. ASSUME NEW q \in Proc, Rewriting(q)' PROVE fd'[q] \in Inode /\ seen'[q] \in State
    <3>1. fd'[q] \in 1..files' /\ files' \in 0..MaxInode
      BY <2>3 DEF TypeOK, Locking, HasFile, Rewriting
    <3> QED BY <3>1, ConstantsAssumption DEF TypeOK, Inode
  <2> QED BY <2>1, <2>2, <2>3 DEF Accounted, Accounts
<1>6. ASSUME NEW p \in Proc, ShortWrite(p) \/ PeekReadFails(p) \/ Crash(p)
      PROVE  Accounted' /\ CapPerFault'
  BY <1>5, <1>6 DEF ShortWrite, PeekReadFails, Crash
<1>7. CASE PowerLoss
  BY <1>5, <1>7 DEF PowerLoss
<1>8. ASSUME NEW p \in Proc, Truncate(p) PROVE Accounted' /\ CapPerFault'
  <2>1. fd[p] \in Inode /\ pc[p] = "read" /\ Holds(p)
    BY <1>8, OpenFile DEF HasFile, Truncate, At, Holds
  <2>2. UNCHANGED <<faults, granted, fd, seen>> /\ pc' = [pc EXCEPT ![p] = "truncated"]
    BY <1>8 DEF Truncate, Goto
  <2>3. \A i \in Inode : i # fd[p] => disk'[i] = disk[i]
    BY <1>8 DEF TypeOK, Truncate
  <2>4. Rewriting(p)' /\ \A q \in Proc : q # p => Rewriting(q)' = Rewriting(q)
    BY <2>2 DEF TypeOK, Rewriting
  <2>5. Accounts(fd[p], seen[p])
    <3>1. \A q \in Proc : fd[q] = fd[p] => ~Rewriting(q)
      BY <2>1, Exclusion DEF Rewriting, Holds
    <3> QED BY <2>1, <3>1 DEF Accounted, Checked, CheckedBy, At
  <2>6. CapPerFault'
    BY <2>2 DEF CapPerFault, AccountCap
  <2>7. ASSUME NEW i \in Inode, (\A q \in Proc : fd[q] = i => ~Rewriting(q))'
        PROVE  Accounts(i, disk[i])'
    BY <2>2, <2>3, <2>4, <2>7, AccountsKept DEF Accounted
  <2>8. ASSUME NEW q \in Proc, Rewriting(q)' PROVE Accounts(fd[q], seen[q])'
    BY <2>2, <2>4, <2>5, <2>8, AccountsKept DEF Accounted
  <2> QED BY <2>6, <2>7, <2>8 DEF Accounted
<1>9. ASSUME NEW p \in Proc, Write(p) PROVE Accounted' /\ CapPerFault'
  <2>1. UNCHANGED <<faults, granted, fd, seen>> /\ pc' = [pc EXCEPT ![p] = "written"]
    BY <1>9 DEF Write, Goto
  <2>2. \A i \in Inode : i # fd[p] => disk'[i] = disk[i]
    BY <1>9 DEF TypeOK, Write
  <2>3. \A q \in Proc : Rewriting(q)' = Rewriting(q)
    BY <1>9, <2>1 DEF TypeOK, Write, At, Rewriting
  <2>4. Rewriting(p)
    BY <1>9 DEF Write, At, Rewriting
  <2>5. CapPerFault'
    BY <2>1 DEF CapPerFault, AccountCap
  <2>6. ASSUME NEW i \in Inode, (\A q \in Proc : fd[q] = i => ~Rewriting(q))'
        PROVE  Accounts(i, disk[i])'
    BY <2>1, <2>2, <2>3, <2>4, <2>6, AccountsKept DEF Accounted
  <2>7. ASSUME NEW q \in Proc, Rewriting(q)' PROVE Accounts(fd[q], seen[q])'
    BY <2>1, <2>3, <2>7, AccountsKept DEF Accounted
  <2> QED BY <2>5, <2>6, <2>7 DEF Accounted
<1>10. ASSUME NEW p \in Proc, Allow(p) PROVE Accounted' /\ CapPerFault'
  <2> DEFINE f == fd[p]
             a == NewSpent(p) + HalfGrain * seen[p].count
  <2>1. f \in Inode /\ pc[p] = "written" /\ Rewriting(p)
    BY <1>10, OpenFile DEF HasFile, Allow, At, Rewriting
  <2>2. UNCHANGED <<faults, disk>> /\ granted' = [granted EXCEPT ![f] = Charge(granted[f], eps[p])]
    BY <1>10, <2>1 DEF TypeOK, Allow
  <2>3. /\ ~Rewriting(p)'
        /\ \A q \in Proc : q # p => Rewriting(q)' = Rewriting(q) /\ fd'[q] = fd[q] /\ seen'[q] = seen[q]
    BY <1>10 DEF TypeOK, Allow, Return, Goto, Rewriting
  <2>4. \A i \in Inode : i # f => granted'[i] = granted[i]
    BY <2>2 DEF TypeOK
  <2>5. granted'[f].spent = granted[f].spent + eps[p] /\ granted'[f].count = granted[f].count + 1
    BY <2>1, <2>2 DEF TypeOK, Charge
  <2>6. /\ granted[f].spent <= faults * AccountCap + seen[p].spent + HalfGrain * seen[p].count
        /\ granted[f].count <= faults * QueryCap + seen[p].count
    BY <2>1 DEF Accounted, Accounts
  <2>7. disk[f] = NewState(p) /\ ~OverCap(p)
    BY <2>1 DEF Checked, CheckedBy, At
  <2>8. /\ granted[f].spent \in Nat /\ granted[f].count \in Nat /\ eps[p] \in Nat
        /\ seen[p].spent \in Nat /\ seen[p].count \in Nat /\ HalfGrain * seen[p].count \in Nat
        /\ faults \in Nat
    <3>1. granted[f] \in State /\ seen[p] \in State /\ eps[p] \in Eps \cup {0} /\ faults \in Nat
      BY <2>1 DEF TypeOK
    <3>2. eps[p] \in Nat
      BY <3>1, EpsNat
    <3> QED BY <3>1, <3>2, ConstantsAssumption DEF State
  <2>9. faults * AccountCap \in Nat /\ faults * QueryCap \in Nat /\ AccountCap \in Nat /\ QueryCap \in Nat
    BY <2>8, AccountCapType, ConstantsAssumption
  <2>10. granted'[f].spent <= faults * AccountCap + a /\ granted'[f].count <= faults * QueryCap + seen[p].count + 1
    BY <2>5, <2>6, <2>8, <2>9 DEF NewSpent
  <2>11. /\ a <= NewState(p).spent + HalfGrain * NewState(p).count
         /\ seen[p].count + 1 = NewState(p).count
    BY ChargeCovers
  <2>12. a <= AccountCap /\ seen[p].count + 1 <= QueryCap
    BY <2>7, CapsBound
  <2>13. a \in Nat /\ granted'[f].spent \in Nat /\ granted'[f].count \in Nat
    BY <2>5, <2>8 DEF NewSpent
  <2>14. /\ NewState(p).spent \in Nat /\ NewState(p).count \in Nat
         /\ HalfGrain * NewState(p).count \in Nat
    BY NewStateType, ConstantsAssumption DEF State
  <2> HIDE DEF a, f
  <2>15. granted'[f].spent <= (faults + 1) * AccountCap /\ granted'[f].count <= (faults + 1) * QueryCap
    BY <2>8, <2>9, <2>10, <2>12, <2>13, AccountCapType
  <2>16. ASSUME NEW i \in Inode, i = f PROVE Accounts(i, disk[i])'
    <3>1. /\ granted'[f].spent <= faults * AccountCap + NewState(p).spent + HalfGrain * NewState(p).count
          /\ granted'[f].count <= faults * QueryCap + NewState(p).count
      BY <2>8, <2>9, <2>10, <2>11, <2>13, <2>14
    <3> QED BY <2>2, <2>7, <2>16, <3>1 DEF Accounts, AccountCap
  <2>17. CapPerFault'
    BY <2>2, <2>4, <2>15 DEF CapPerFault, AccountCap
  <2>18. ASSUME NEW i \in Inode, (\A q \in Proc : fd[q] = i => ~Rewriting(q))', i # f
         PROVE  Accounts(i, disk[i])'
    <3>1. \A q \in Proc : fd[q] = i => ~Rewriting(q)
      BY <2>3, <2>18 DEF f
    <3>2. Accounts(i, disk[i])
      BY <3>1 DEF Accounted
    <3> QED BY <2>2, <2>4, <2>18, <3>2 DEF Accounts, AccountCap
  <2>19. ASSUME NEW q \in Proc, Rewriting(q)' PROVE Accounts(fd[q], seen[q])'
    <3>1. q # p /\ Rewriting(q) /\ fd'[q] = fd[q] /\ seen'[q] = seen[q]
      BY <2>3, <2>19
    <3>2. fd[q] \in Inode /\ fd[q] # f
      BY <2>1, <3>1, Exclusion, OpenFile DEF HasFile, Rewriting, Holds, At, f
    <3> QED BY <2>2, <2>4, <3>1, <3>2 DEF Accounted, Accounts, AccountCap
  <2>20. \A i \in Inode : (\A q \in Proc : fd[q] = i => ~Rewriting(q))' => Accounts(i, disk[i])'
    BY <2>16, <2>18
  <2> QED BY <2>17, <2>19, <2>20 DEF Accounted
<1>11. CASE Reset \/ UNCHANGED vars
  BY <1>1, <1>11 DEF Reset, vars, Rewriting
<1> QED
  BY <1>3, <1>4, <1>6, <1>7, <1>8, <1>9, <1>10, <1>11 DEF Next, Call, Step, Reserve, Peek, Fault

LEMMA IInvInit == Init => IInv
<1> SUFFICES ASSUME Init PROVE IInv
  OBVIOUS
<1>1. TypeOK /\ Locking
  BY TypeInit
<1>2. Checked
  BY DEF Init, Checked, CheckedBy, At, Rewriting
<1>3. \A i \in Inode : granted[i].spent = 0 /\ granted[i].count = 0 /\ disk[i] = Fresh
  BY DEF Init, Fresh
<1>4. faults = 0 /\ \A n \in {AccountCap, QueryCap} : 0 * n = 0 /\ (0 + 1) * n = n /\ n \in Nat
  BY AccountCapType, ConstantsAssumption DEF Init
<1>5. CapPerFault
  BY <1>3, <1>4 DEF CapPerFault
<1>6. \A i \in Inode : Accounts(i, disk[i])
  BY <1>3, <1>4, ConstantsAssumption DEF Accounts, Fresh
<1>7. \A p \in Proc : ~Rewriting(p)
  BY DEF Init, Rewriting
<1> QED BY <1>1, <1>2, <1>5, <1>6, <1>7 DEF IInv, Accounted

LEMMA Invariance == Spec => []IInv
<1>1. IInv /\ [Next]_vars => IInv'
  BY TypeNext, LockingNext, CheckedNext, AccountedNext DEF IInv
<1> QED BY <1>1, IInvInit, PTL DEF Spec

\* The accountant "refuses further queries once cap is hit": whatever calls,
\* resets and faults interleave, an inode grants at most one account of the
\* caps, and one more for each fault.
THEOREM CapHolds == Spec => []CapPerFault
<1>1. IInv => CapPerFault
  BY DEF IInv
<1> QED BY <1>1, Invariance, PTL
-----------------------------------------------------------------------------
(* Exactness, while nothing fails. *)

\* The file agrees with the grants, or the state its holder read does while it is
\* being rewritten; what a peek has read is the file as it stands.
ExactFile(i) == (\A p \in Proc : fd[p] = i => ~Rewriting(p)) => Near(disk[i], granted[i])
ExactBy(p) ==
  /\ Rewriting(p) => Near(seen[p], granted[fd[p]])
  /\ At(p, "peeked") => seen[p] = disk[fd[p]]
Exact == faults = 0 => (\A i \in Inode : ExactFile(i)) /\ (\A p \in Proc : ExactBy(p))

\* A charge moves the printed account and the granted one apart by one rounding.
LEMMA ChargeNear ==
  ASSUME TypeOK, NEW p \in Proc, NEW account \in State, Near(seen[p], account)
  PROVE  Near(NewState(p), Charge(account, eps[p]))
<1> DEFINE s == seen[p].spent
           a == account.spent
           n == account.count
           e == eps[p]
           t == Stored(s + e)
<1>1. s \in Nat /\ seen[p].count \in Nat /\ a \in Nat /\ n \in Nat /\ e \in Nat
  <2>1. seen[p] \in State /\ e \in Eps \cup {0}
    BY DEF TypeOK
  <2>2. e \in Nat
    BY <2>1, EpsNat
  <2> QED BY <2>1, <2>2 DEF State
<1>2. seen[p].count = n /\ s <= a + HalfGrain * n /\ a <= s + HalfGrain * n
  BY DEF Near
<1>3. t \in Nat /\ t <= s + e + HalfGrain /\ s + e <= t + HalfGrain
  <2> HIDE DEF s, e, t
  <2>1. s + e \in Nat
    BY <1>1
  <2> QED BY <2>1, StoredNear DEF t
<1>4. HalfGrain * n \in Nat /\ HalfGrain * (n + 1) = HalfGrain * n + HalfGrain /\ HalfGrain \in Nat
  <2> HIDE DEF n
  <2> QED BY <1>1, ConstantsAssumption
<1>5. NewState(p) = [spent |-> t, count |-> n + 1] /\ Charge(account, e) = [spent |-> a + e, count |-> n + 1]
  BY <1>2 DEF NewState, NewSpent, NewCount, Charge
<1>6. t <= (a + e) + HalfGrain * (n + 1) /\ a + e <= t + HalfGrain * (n + 1)
  <2> HIDE DEF s, a, n, e, t
  <2> QED BY <1>1, <1>2, <1>3, <1>4
<1> QED BY <1>5, <1>6 DEF Near

LEMMA ExactInit == Init => Exact
<1> SUFFICES ASSUME Init PROVE Exact
  OBVIOUS
<1>1. \A i \in Inode : disk[i] = Fresh /\ granted[i] = Fresh
  BY DEF Init
<1>2. Near(Fresh, Fresh)
  BY ConstantsAssumption DEF Near, Fresh
<1>3. \A p \in Proc : ~Rewriting(p) /\ ~At(p, "peeked")
  BY DEF Init, Rewriting, At
<1> QED BY <1>1, <1>2, <1>3 DEF Exact, ExactFile, ExactBy

\* Nobody rewrites a file another process shares.
LEMMA SharersExclude ==
  ASSUME TypeOK, Locking, NEW p \in Proc, NEW q \in Proc, Shares(p), Holds(q)
  PROVE  fd[p] # fd[q]
<1>1. fd[q] \in Inode
  BY OpenFile DEF HasFile, Holds
<1>2. p \in sharers[fd[p]] /\ holder[fd[q]] = q /\ q # 0
  BY ConstantsAssumption DEF Locking
<1> QED BY <1>1, <1>2 DEF Locking

LEMMA ExactNext == IInv /\ Exact /\ TypeOK' /\ [Next]_vars => Exact'
<1> DEFINE Fine == (\A i \in Inode : ExactFile(i)') /\ (\A p \in Proc : ExactBy(p)')
<1> SUFFICES ASSUME IInv, Exact, TypeOK', faults' = 0, [Next]_vars PROVE Fine
  BY DEF Exact
<1> USE DEF IInv
\* A step that adds a fault is of no account.
<1>1. faults = 0 /\ faults' # faults + 1
  <2>1. faults \in Nat
    BY ConstantsAssumption DEF TypeOK
  <2>2. faults' = faults \/ faults' = faults + 1
    BY DEF Next, Call, Step, Reserve, Peek, Fault, Open, EarlyReturn, Lock, Read, Refuse, Truncate, Write, Allow,
           SyscallFails, ShortWrite, PeekMissing, PeekStat, PeekOpen, PeekGone, PeekLock, PeekRead, PeekReadFails,
           PeekReturn, Crash, Reset, PowerLoss, vars
  <2> QED BY <2>1, <2>2
\* Steps that change neither a file nor what its rewriter, or a peek, has read.
<1>2. ASSUME UNCHANGED <<disk, granted>>,
             \A q \in Proc : /\ Rewriting(q) = Rewriting(q)'
                             /\ Rewriting(q) \/ At(q, "peeked")' => fd'[q] = fd[q] /\ seen'[q] = seen[q]
                             /\ At(q, "peeked")' => At(q, "peeked")
      PROVE  Fine
  BY <1>1, <1>2 DEF Exact, ExactFile, ExactBy
<1>3. ASSUME NEW p \in Proc, NEW result, Return(p, result), ~Rewriting(p), UNCHANGED <<disk, granted>> PROVE Fine
  BY <1>2, <1>3 DEF TypeOK, Return, Goto, Rewriting, At
<1>4. ASSUME NEW p \in Proc, \/ EarlyReturn(p, "allowed") \/ EarlyReturn(p, "refused") \/ Refuse(p)
                             \/ SyscallFails(p) \/ PeekMissing(p) \/ PeekGone(p) \/ PeekReturn(p)
      PROVE  Fine
  BY <1>3, <1>4 DEF EarlyReturn, Refuse, SyscallFails, PeekMissing, PeekGone, PeekReturn, At, Rewriting
<1>5. ASSUME NEW p \in Proc, \/ \E e \in Eps : Open(p, e)
                             \/ Lock(p) \/ Read(p) \/ PeekStat(p) \/ PeekOpen(p) \/ PeekLock(p)
      PROVE  Fine
  <2>1. UNCHANGED <<disk, granted>>
    BY <1>5 DEF Open, Lock, Read, PeekStat, PeekOpen, PeekLock, fileVars
  <2>2. \A q \in Proc : /\ Rewriting(q) = Rewriting(q)'
                        /\ Rewriting(q) \/ At(q, "peeked")' => fd'[q] = fd[q] /\ seen'[q] = seen[q]
                        /\ At(q, "peeked")' => At(q, "peeked")
    BY <1>5 DEF TypeOK, Open, Lock, Read, PeekStat, PeekOpen, PeekLock, fileVars, At, Goto, Rewriting
  <2> QED BY <1>2, <2>1, <2>2
<1>6. ASSUME NEW p \in Proc, PeekRead(p) PROVE Fine
  <2>1. UNCHANGED <<disk, granted, fd>> /\ pc' = [pc EXCEPT ![p] = "peeked"] /\ At(p, "peeking")
    BY <1>6 DEF PeekRead, fileVars, Goto
  <2>2. \A q \in Proc : Rewriting(q)' = Rewriting(q)
    BY <2>1 DEF TypeOK, Rewriting, At
  <2>3. seen'[p] = disk[fd[p]] /\ \A q \in Proc : q # p => seen'[q] = seen[q] /\ pc'[q] = pc[q]
    BY <1>6, <2>1 DEF TypeOK, PeekRead
  <2>4. ~Rewriting(p)
    BY <2>1 DEF Rewriting, At
  <2> QED BY <1>1, <2>1, <2>2, <2>3, <2>4 DEF Exact, ExactFile, ExactBy, At
<1>7. CASE PowerLoss \/ \E p \in Proc : ShortWrite(p) \/ PeekReadFails(p) \/ Crash(p)
  BY <1>1, <1>7 DEF ShortWrite, PeekReadFails, Crash, PowerLoss
\* Nobody has the file of the process that rewrites it but itself.
<1>8. ASSUME NEW p \in Proc, Holds(p), NEW q \in Proc, q # p, Rewriting(q) \/ At(q, "peeked")
      PROVE  fd[q] \in Inode /\ fd[q] # fd[p]
  <2>1. fd[q] \in Inode
    BY <1>8, OpenFile DEF HasFile, Rewriting, At
  <2>2. fd[q] # fd[p]
    BY <1>8, Exclusion, SharersExclude DEF Rewriting, Holds, Shares, At
  <2> QED BY <2>1, <2>2
<1>9. ASSUME NEW p \in Proc, Truncate(p) PROVE Fine
  <2>1. fd[p] \in Inode /\ pc[p] = "read" /\ Holds(p)
    BY <1>9, OpenFile DEF HasFile, Truncate, At, Holds
  <2>2. UNCHANGED <<granted, fd, seen>> /\ pc' = [pc EXCEPT ![p] = "truncated"]
    BY <1>9 DEF Truncate, Goto
  <2>3. \A i \in Inode : i # fd[p] => disk'[i] = disk[i]
    BY <1>9 DEF TypeOK, Truncate
  <2>4. /\ Rewriting(p)' /\ ~At(p, "peeked")'
        /\ \A q \in Proc : q # p => Rewriting(q)' = Rewriting(q) /\ (At(q, "peeked")' = At(q, "peeked"))
    BY <2>2 DEF TypeOK, Rewriting, At
  <2>5. Near(seen[p], granted[fd[p]])
    <3>1. \A q \in Proc : fd[q] = fd[p] => ~Rewriting(q)
      BY <2>1, Exclusion DEF Rewriting, Holds
    <3> QED BY <1>1, <2>1, <3>1 DEF Exact, ExactFile, Checked, CheckedBy, At
  <2>6. ASSUME NEW i \in Inode PROVE ExactFile(i)'
    BY <1>1, <2>2, <2>3, <2>4 DEF Exact, ExactFile
  <2>7. ASSUME NEW q \in Proc, q # p PROVE ExactBy(q)'
    BY <1>1, <1>8, <2>1, <2>2, <2>3, <2>4, <2>7 DEF Exact, ExactBy
  <2>8. ExactBy(p)'
    BY <2>2, <2>4, <2>5 DEF ExactBy
  <2> QED BY <2>6, <2>7, <2>8
<1>10. ASSUME NEW p \in Proc, Write(p) PROVE Fine
  <2>1. UNCHANGED <<granted, fd, seen>> /\ pc' = [pc EXCEPT ![p] = "written"]
    BY <1>10 DEF Write, Goto
  <2>2. \A i \in Inode : i # fd[p] => disk'[i] = disk[i]
    BY <1>10 DEF TypeOK, Write
  <2>3. /\ Rewriting(p) /\ Holds(p) /\ ~At(p, "peeked")'
        /\ \A q \in Proc : Rewriting(q)' = Rewriting(q) /\ (At(q, "peeked")' => At(q, "peeked"))
    BY <1>10, <2>1 DEF TypeOK, Write, At, Rewriting, Holds
  <2>4. ASSUME NEW i \in Inode PROVE ExactFile(i)'
    BY <1>1, <2>1, <2>2, <2>3 DEF Exact, ExactFile
  <2>5. ASSUME NEW q \in Proc, q # p PROVE ExactBy(q)'
    BY <1>1, <1>8, <2>1, <2>2, <2>3, <2>5 DEF Exact, ExactBy
  <2>6. ExactBy(p)'
    BY <1>1, <2>1, <2>3 DEF Exact, ExactBy
  <2> QED BY <2>4, <2>5, <2>6
<1>11. ASSUME NEW p \in Proc, Allow(p) PROVE Fine
  <2> DEFINE f == fd[p]
  <2>1. f \in Inode /\ pc[p] = "written" /\ Rewriting(p) /\ Holds(p)
    BY <1>11, OpenFile DEF HasFile, Allow, At, Rewriting, Holds
  <2>2. disk' = disk /\ granted'[f] = Charge(granted[f], eps[p]) /\ \A i \in Inode : i # f => granted'[i] = granted[i]
    BY <1>11, <2>1 DEF TypeOK, Allow
  <2>3. /\ ~Rewriting(p)' /\ ~At(p, "peeked")'
        /\ \A q \in Proc : q # p => pc'[q] = pc[q] /\ fd'[q] = fd[q] /\ seen'[q] = seen[q]
    BY <1>11 DEF TypeOK, Allow, Return, Goto, Rewriting, At
  <2>4. Near(disk[f], Charge(granted[f], eps[p]))
    <3>1. disk[f] = NewState(p)
      BY <2>1 DEF Checked, CheckedBy, At
    <3>2. Near(seen[p], granted[f]) /\ granted[f] \in State
      BY <1>1, <2>1 DEF TypeOK, Exact, ExactBy
    <3> HIDE DEF f
    <3> QED BY <3>1, <3>2, ChargeNear
  <2> HIDE DEF f
  <2>5. ASSUME NEW i \in Inode, i # f PROVE ExactFile(i)'
    <3>1. (\A q \in Proc : fd[q] = i => ~Rewriting(q))' => \A q \in Proc : fd[q] = i => ~Rewriting(q)
      BY <2>3, <2>5 DEF f, Rewriting
    <3> QED BY <1>1, <2>2, <2>5, <3>1 DEF Exact, ExactFile
  <2>6. ASSUME NEW i \in Inode, i = f PROVE ExactFile(i)'
    <3>1. Near(disk'[i], granted'[i])
      BY <2>2, <2>4, <2>6
    <3> QED BY <3>1 DEF ExactFile, Near
  <2>7. ASSUME NEW q \in Proc, q # p PROVE ExactBy(q)'
    <3>1. Rewriting(q) \/ At(q, "peeked") => fd[q] \in Inode /\ fd[q] # f
      BY <1>8, <2>1, <2>7 DEF f
    <3> QED BY <1>1, <2>2, <2>3, <2>7, <3>1 DEF Exact, ExactBy, Rewriting, At
  <2>8. ExactBy(p)'
    BY <2>3 DEF ExactBy
  <2>9. \A i \in Inode : ExactFile(i)'
    BY <2>5, <2>6
  <2> QED BY <2>7, <2>8, <2>9
<1>12. CASE Reset \/ UNCHANGED vars
  BY <1>2, <1>12 DEF Reset, vars, Rewriting, At
<1> HIDE DEF Fine
<1> QED
  BY <1>4, <1>5, <1>6, <1>7, <1>9, <1>10, <1>11, <1>12 DEF Next, Call, Step, Reserve, Peek, Fault

LEMMA ExactInvariance == Spec => [](IInv /\ Exact)
<1>1. IInv /\ Exact /\ [Next]_vars => (IInv /\ Exact)'
  <2>1. IInv /\ [Next]_vars => IInv'
    BY TypeNext, LockingNext, CheckedNext, AccountedNext DEF IInv
  <2>2. IInv' => TypeOK'
    BY DEF IInv
  <2> QED BY <2>1, <2>2, ExactNext
<1> QED BY <1>1, IInvInit, ExactInit, PTL DEF Spec

\* A reservation is neither lost nor charged twice: without faults a file that is
\* not being rewritten holds the queries granted and the one about to be, their
\* count exactly and their epsilon within half a grain for each.
THEOREM AccountIsExact == Spec => []ExactAccount
<1>1. IInv /\ Exact => ExactAccount
  <2> SUFFICES ASSUME IInv, Exact, faults = 0, NEW i \in Inode, {p \in Proc : fd[p] = i /\ At(p, "truncated")} = {}
               PROVE  \/ {p \in Proc : fd[p] = i /\ At(p, "written")} = {} /\ Near(disk[i], granted[i])
                      \/ \E p \in Proc : /\ {q \in Proc : fd[q] = i /\ At(q, "written")} = {p}
                                         /\ Near(disk[i], Charge(granted[i], eps[p]))
    BY DEF ExactAccount
  <2>1. ASSUME \A p \in Proc : ~(fd[p] = i /\ At(p, "written"))
        PROVE  {p \in Proc : fd[p] = i /\ At(p, "written")} = {} /\ Near(disk[i], granted[i])
    BY <2>1 DEF Exact, ExactFile, Rewriting, At
  <2>2. ASSUME NEW p \in Proc, fd[p] = i, At(p, "written")
        PROVE  /\ {q \in Proc : fd[q] = i /\ At(q, "written")} = {p}
               /\ Near(disk[i], Charge(granted[i], eps[p]))
    <3>1. Rewriting(p) /\ Holds(p)
      BY <2>2 DEF Rewriting, Holds, At
    <3>2. disk[i] = NewState(p) /\ Near(seen[p], granted[i]) /\ granted[i] \in State
      BY <2>2, <3>1 DEF IInv, TypeOK, Checked, CheckedBy, Exact, ExactBy
    <3>3. Near(NewState(p), Charge(granted[i], eps[p]))
      BY <3>2, ChargeNear DEF IInv
    <3>4. \A q \in Proc : fd[q] = i /\ At(q, "written") => q = p
      BY <2>2, <3>1, Exclusion DEF IInv, Holds, At
    <3> QED BY <2>2, <3>2, <3>3, <3>4
  <2> QED BY <2>1, <2>2
<1> QED BY <1>1, ExactInvariance, PTL

\* While nothing has failed, oiraBudgetPeek reports the account of the file it
\* opened as it stands: its shared lock waits for whoever rewrites it, and keeps
\* the next one out until it returns.
THEOREM PeeksAreCurrent == Spec => PeekIsCurrent
<1>1. IInv /\ Exact /\ [Next]_vars =>
        [\A p \in Proc : PeekReturn(p) /\ faults = 0 =>
           /\ Near(seen[p], granted[fd[p]])
           /\ \A q \in Proc : fd[q] = fd[p] => pc[q] \notin {"truncated", "written"}]_vars
  <2> SUFFICES ASSUME IInv, Exact, NEW p \in Proc, PeekReturn(p), faults = 0
               PROVE  /\ Near(seen[p], granted[fd[p]])
                      /\ \A q \in Proc : fd[q] = fd[p] => pc[q] \notin {"truncated", "written"}
    OBVIOUS
  <2>1. At(p, "peeked") /\ Shares(p) /\ fd[p] \in Inode
    BY OpenFile DEF IInv, PeekReturn, HasFile, Shares, At
  <2>2. \A q \in Proc : fd[q] = fd[p] => ~Rewriting(q)
    BY <2>1, SharersExclude DEF IInv, Rewriting, Holds
  <2>3. Near(disk[fd[p]], granted[fd[p]]) /\ seen[p] = disk[fd[p]]
    BY <2>1, <2>2 DEF Exact, ExactFile, ExactBy
  <2> QED BY <2>2, <2>3 DEF Rewriting
<1> QED BY <1>1, ExactInvariance, PTL DEF PeekIsCurrent, Spec
=============================================================================
