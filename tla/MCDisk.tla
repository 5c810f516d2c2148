------------------------------- MODULE MCDisk -------------------------------
(* The audit log and the key store in one configuration. They share no state and no
   call, so each is run with the other at rest, and what the two would do side by
   side is any interleaving of that. *)
EXTENDS AuditPersist, KeyStore

DiskInit == Init /\ StoreInit
LogRuns == StoreInit /\ Next /\ UNCHANGED storeVars
StoreRuns == Init /\ StoreNext /\ UNCHANGED vars
DiskNext == LogRuns \/ StoreRuns
DiskSpec == DiskInit /\ [][DiskNext]_<<vars, storeVars>>
=============================================================================
