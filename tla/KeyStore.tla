------------------------------ MODULE KeyStore ------------------------------
(* FileKeyStore of src/volePSI/MpsvsKeyStore.cpp: records in memory under a
   mutex, the whole store rewritten to a temporary file and renamed on every
   change. A change is made in memory first; the write may throw after it, and
   the process may die at any step and open the store again.

   A store maps each key id to a secret, None when it has no record. Oversize
   stands for the secrets and key ids the serialiser refuses (1 MB, 4096 bytes);
   encryption with the store's one master key is left out. *)
EXTENDS Naturals

CONSTANTS
  Key, Secret,            \* key ids and valid secrets
  None, Oversize,         \* no record; a record serialiseRecords throws on
  MaxCalls,               \* bound: calls of putKey and deleteKey
  MaxFailures             \* bound: failed writes and renames, and crashes

ASSUME StoreAssumption ==
  /\ None \notin Secret \cup Key /\ Oversize \notin Secret /\ None # Oversize
  /\ MaxCalls \in Nat /\ MaxFailures \in Nat

VARIABLES
  path,       \* the file: a store, or Missing
  tmp,        \* path.tmp: a store, Missing or Partial
  stage,      \* "down", "idle", "changed" (memory is, the file not yet) or "written" (path.tmp is)
  records,    \* records_
  call,       \* the change under way: its key and new value
  result,     \* "none", "ok" or "threw": how the last call ended
  possible,   \* history: per key, the last acknowledged value and those of calls that threw since
  zeroised,   \* history: zeroiseMemory was called on this object
  misused,    \* history: ... and a change was made after it
  calls, failures

storeVars == <<path, tmp, stage, records, call, result, possible, zeroised, misused, calls, failures>>

Value == Secret \cup {None, Oversize}
Store == [Key -> Value]
Empty == [k \in Key |-> None]
Missing == [k \in {} |-> None]              \* no file
Partial == [k \in {Oversize} |-> None]      \* a file cut short: no store
NoCall == [key |-> None, value |-> None]

StoreInit ==
  /\ path = Missing /\ tmp = Missing /\ stage = "down" /\ records = Empty
  /\ call = NoCall /\ result = "none" /\ possible = [k \in Key |-> {None}]
  /\ zeroised = FALSE /\ misused = FALSE /\ calls = 0 /\ failures = 0

Failure == failures < MaxFailures /\ failures' = failures + 1

\* The constructor: an existing file is read, a missing one written empty.
OpenStore ==
  /\ stage = "down" /\ zeroised' = FALSE /\ call' = NoCall
  /\ IF path = Missing
       THEN stage' = "changed" /\ records' = Empty
       ELSE stage' = "idle" /\ records' = path
  /\ UNCHANGED <<path, tmp, result, possible, misused, calls, failures>>

\* putKey and deleteKey change the record in memory before they flush.
Change(k, v) ==
  /\ stage = "idle" /\ calls < MaxCalls /\ calls' = calls + 1
  /\ stage' = "changed" /\ records' = [records EXCEPT ![k] = v]
  /\ call' = [key |-> k, value |-> v]
  /\ possible' = [possible EXCEPT ![k] = @ \cup {v}]
  /\ misused' = (misused \/ zeroised) /\ result' = "none"
  /\ UNCHANGED <<path, tmp, zeroised, failures>>
\* Mutant: replacing a record forgets to flush it.
PutUnflushed(k, v) ==
  \/ records[k] = None /\ Change(k, v)
  \/ /\ stage = "idle" /\ records[k] # None /\ calls < MaxCalls /\ calls' = calls + 1
     /\ records' = [records EXCEPT ![k] = v] /\ possible' = [possible EXCEPT ![k] = {v}]
     /\ misused' = (misused \/ zeroised) /\ result' = "ok"
     /\ UNCHANGED <<path, tmp, stage, call, zeroised, failures>>
Put(k, v) == v # None /\ Change(k, v)
Delete(k) == records[k] # None /\ Change(k, None)

\* Throws "no such key".
DeleteMissing(k) ==
  /\ stage = "idle" /\ records[k] = None /\ calls < MaxCalls /\ calls' = calls + 1
  /\ result' = "threw" /\ call' = [key |-> k, value |-> None]
  /\ UNCHANGED <<path, tmp, stage, records, possible, zeroised, misused, failures>>

\* A throw from a change leaves the object usable; from the constructor it does not.
Threw == stage' = (IF call = NoCall THEN "down" ELSE "idle") /\ result' = "threw"

Serialisable == \A k \in Key : records[k] # Oversize
SerialiseThrows ==
  /\ stage = "changed" /\ ~Serialisable /\ Threw
  /\ UNCHANGED <<path, tmp, records, call, possible, zeroised, misused, calls, failures>>

\* Mutant: rewrites the file in place.
WriteInPlace ==
  /\ stage = "changed" /\ Serialisable
  /\ \/ path' = records /\ tmp' = records /\ stage' = "written" /\ UNCHANGED <<result, failures>>
     \/ path' = Partial /\ Threw /\ Failure /\ UNCHANGED tmp
  /\ UNCHANGED <<records, call, possible, zeroised, misused, calls>>

\* atomicWriteFile, first half: path.tmp is written whole, or the write fails.
WriteTmp ==
  /\ stage = "changed" /\ Serialisable
  /\ \/ tmp' = records /\ stage' = "written" /\ UNCHANGED <<result, failures>>
     \/ tmp' = Partial /\ Threw /\ Failure
  /\ UNCHANGED <<path, records, call, possible, zeroised, misused, calls>>

\* Mutant: a failing rename is not noticed.
RenameUnchecked ==
  /\ stage = "written" /\ stage' = "idle" /\ tmp' = Missing /\ result' = "ok"
  /\ possible' = [k \in Key |-> IF k = call.key THEN {call.value} ELSE possible[k]]
  /\ (path' = tmp /\ UNCHANGED failures) \/ (Failure /\ UNCHANGED path)
  /\ UNCHANGED <<records, call, zeroised, misused, calls>>

\* atomicWriteFile, second half: the rename replaces the file, and the call is
\* acknowledged; a failing one removes path.tmp.
Rename ==
  /\ stage = "written" /\ tmp' = Missing
  /\ \/ /\ path' = tmp /\ stage' = "idle" /\ result' = "ok"
        /\ possible' = [k \in Key |-> IF k = call.key THEN {call.value} ELSE possible[k]]
        /\ UNCHANGED failures
     \/ Threw /\ Failure /\ UNCHANGED <<path, possible>>
  /\ UNCHANGED <<records, call, zeroised, misused, calls>>

\* zeroiseMemory forgets the records, and the object stays usable.
Zeroise ==
  /\ stage = "idle" /\ records' = Empty /\ zeroised' = TRUE
  /\ UNCHANGED <<path, tmp, stage, call, result, possible, misused, calls, failures>>

\* The destructor, or the process dies wherever it is.
Down == stage' = "down" /\ records' = Empty /\ UNCHANGED <<path, call, result, possible, zeroised, misused, calls>>
CloseStore == stage = "idle" /\ Down /\ UNCHANGED <<tmp, failures>>
StoreCrash ==
  /\ stage # "down" /\ Down /\ Failure
  /\ tmp' \in IF stage = "changed" THEN {tmp, Partial} ELSE {tmp}

StoreNext ==
  \/ OpenStore \/ SerialiseThrows \/ WriteTmp \/ Rename \/ Zeroise \/ CloseStore \/ StoreCrash
  \/ \E k \in Key : Delete(k) \/ DeleteMissing(k) \/ \E v \in Value : Put(k, v)

StoreSpec == StoreInit /\ [][StoreNext]_storeVars
-----------------------------------------------------------------------------
\* The types of the state; the file is never seen half written.
StoreTypeOK ==
  /\ path \in Store \cup {Missing} /\ tmp \in Store \cup {Missing, Partial}
  /\ stage \in {"down", "idle", "changed", "written"} /\ records \in Store
  /\ call \in [key : Key \cup {None}, value : Value] /\ result \in {"none", "ok", "threw"}
  /\ possible \in [Key -> SUBSET Value]
  /\ zeroised \in BOOLEAN /\ misused \in BOOLEAN /\ calls \in 0..MaxCalls /\ failures \in 0..MaxFailures

StoreIsPossible == path # Missing => \A k \in Key : path[k] \in possible[k]

\* An acknowledged putKey or deleteKey is on disk until a later call on its key,
\* whatever failed or died since; a call that threw took effect or did not.
AcknowledgedIsOnDisk == ~misused => StoreIsPossible

\* getKey answers what it will answer after a restart, when nothing threw.
MemoryIsOnDisk ==
  (stage = "idle" /\ failures = 0 /\ ~zeroised /\ ~misused /\ Serialisable) => path = records
=============================================================================
