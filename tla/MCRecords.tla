------------------------------ MODULE MCRecords ------------------------------
(* The two users of idempotency_records, each on the row of its own key.   *)
(* They share no row and no variable, so TLC checks them side by side: a   *)
(* behaviour belongs to one of them and leaves the other where it starts.  *)
EXTENDS Idempotency, TLC

CONSTANTS Lease, RenewInterval, LockTTL, MaxFailures, LockMaxTime

VARIABLES part, lockNow, lockRow, lockLastId, op, failures, lapsed, late, foreign

lockVars == <<lockNow, lockRow, lockLastId, op, failures, lapsed, late, foreign>>

L == INSTANCE SystemLock WITH Operations <- Requests, OperationIDs <- Fingerprints,
                              TTL <- LockTTL, MaxTime <- LockMaxTime,
                              now <- lockNow, row <- lockRow, lastId <- lockLastId

ASSUME LockAssumption == L!LeaseAssumption

(* The choices of the part that stays where it starts are tied to those of *)
(* the other.                                                              *)
MCInit ==
    /\ part \in {"coordinator", "lock"} /\ Init /\ L!Init
    /\ \A r \in Requests : op[r].id = req[r].fp

MCNext ==
    /\ UNCHANGED part
    /\ \/ part = "coordinator" /\ Next /\ UNCHANGED lockVars
       \/ part = "lock" /\ L!Next /\ UNCHANGED vars

MCSpec == MCInit /\ [][MCNext]_<<part, vars, lockVars>>

Symmetry == Permutations(Requests) \cup Permutations(Fingerprints)

(* SystemLock: one operation at a time, up to the first lapse of a lease.  *)
ExclusionUntilLapse == L!ExclusionUntilLapse

(* The records keep their types, an answer is replayed only from a request *)
(* that asked for the same and whose executor succeeded, and a lease lapses*)
(* only for one of the causes its holder could have seen.                  *)
RecordsSound ==
    TypeOK /\ L!TypeOK /\ ReplayedFromSameRequest /\ L!LapseHasCause
=============================================================================
