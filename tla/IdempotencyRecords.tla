------------------------- MODULE IdempotencyRecords -------------------------
(***************************************************************************)
(* The row operations of repository/idempotency_repo.go, as operators on   *)
(* the one row that a (scope, key hash) pair selects: rows of other keys   *)
(* never take part.  Both the idempotency coordinator and the system       *)
(* operation lock are built on them.                                       *)
(*                                                                         *)
(* Each statement is one atomic UPDATE, INSERT or DELETE.  Times are       *)
(* naturals; a NULL locked_until is 0, which the code treats the same way  *)
(* (locked_until IS NULL OR locked_until <= now).                          *)
(***************************************************************************)
EXTENDS Integers

CONSTANT None      \* SQL NULL

(* No row for the key: ids of real rows start at 1.                        *)
NoRow == [id |-> 0, fingerprint |-> None, status |-> "absent",
          response |-> None, locked |-> 0, expires |-> 0]

Statuses == {"absent", "processing", "succeeded", "failed_retryable"}

(* INSERT ... ON CONFLICT (scope, idempotency_key_hash) DO NOTHING.        *)
CreateProcessing(row, id, fp, locked, expires) ==
    IF row.id # 0 THEN row
    ELSE [id |-> id, fingerprint |-> fp, status |-> "processing",
          response |-> None, locked |-> locked, expires |-> expires]

(* Mutant: a reclaim that does not wait for the lock.                      *)
ReclaimableAnyLock(row, id, from, at) == row.id = id /\ row.status = from

(* The WHERE clause of TryReclaim: nothing in it looks at expires_at or at *)
(* the fingerprint.                                                        *)
Reclaimable(row, id, from, at) ==
    row.id = id /\ row.status = from /\ row.locked <= at

(* The new owner's fingerprint is not stored.                              *)
TryReclaim(row, id, from, at, locked, expires) ==
    IF Reclaimable(row, id, from, at)
    THEN [row EXCEPT !.status = "processing", !.locked = locked, !.expires = expires]
    ELSE row

Extendable(row, id, fp) ==
    row.id = id /\ row.status = "processing" /\ row.fingerprint = fp

ExtendProcessingLock(row, id, fp, locked, expires) ==
    IF Extendable(row, id, fp)
    THEN [row EXCEPT !.locked = locked, !.expires = expires]
    ELSE row

(* Both marks select by id alone: whoever knows the id may write.          *)
MarkSucceeded(row, id, response, expires) ==
    IF row.id = id
    THEN [row EXCEPT !.status = "succeeded", !.response = response,
                     !.locked = 0, !.expires = expires]
    ELSE row

(* Mutant: a status no reader knows.                                       *)
MarkFailedUnknown(row, id, locked, expires) ==
    IF row.id = id
    THEN [row EXCEPT !.status = "failed", !.locked = locked, !.expires = expires]
    ELSE row

MarkFailedRetryable(row, id, locked, expires) ==
    IF row.id = id
    THEN [row EXCEPT !.status = "failed_retryable", !.locked = locked,
                     !.expires = expires]
    ELSE row

DeleteExpired(row, at) == IF row.expires <= at THEN NoRow ELSE row
=============================================================================
