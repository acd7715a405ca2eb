----------------------------- MODULE SystemLock -----------------------------
(***************************************************************************)
(* SystemOperationLockService (service/system_operation_lock_service.go)   *)
(* and its user, the update, rollback and restart handlers of              *)
(* handler/admin/system_handler.go: one lock for the whole deployment,     *)
(* kept in one row of idempotency_records, renewed by a goroutine while    *)
(* the operation runs.                                                     *)
(***************************************************************************)
EXTENDS IdempotencyRecords, FiniteSets

CONSTANTS Operations,      \* calls of a system handler
          OperationIDs,    \* buildSystemOperationID: retries may share one
          Lease,           \* ProcessingTimeout
          RenewInterval,   \* Lease / 3
          TTL,             \* SystemOperationTTL
          MaxFailures,     \* bound on the renewals that fail
          MaxTime          \* bound of the model's clock

(* What the constants must satisfy; the module that instantiates this one  *)
(* assumes it.                                                             *)
LeaseAssumption ==
    /\ Lease \in Nat /\ RenewInterval \in Nat \ {0} /\ RenewInterval < Lease
    /\ TTL \in Nat /\ Lease < TTL
    /\ MaxFailures \in Nat /\ MaxTime \in Nat

VARIABLES now,        \* the clock
          row,        \* the row of systemOperationLockKey
          lastId,     \* the sequence that numbers rows
          op,         \* the operations, see Operation
          failures,   \* renewals that failed so far
          lapsed,     \* history: some holder held on without a valid lease
          late,       \* history: some claim came too late to miss one renewal
          foreign     \* history: some claimed row carries another operation's id

vars == <<now, row, lastId, op, failures, lapsed, late, foreign>>

causes == <<late, foreign>>

Held == {"running", "releasing"}

Rows == [id : Nat, fingerprint : OperationIDs \cup {None}, status : Statuses,
         response : OperationIDs \cup {None}, locked : Nat, expires : Nat]

(* renew is when the ticker of renewLoop fires next, 0 once the loop ended.*)
Operation == [pc : Held \cup {"new", "create", "get", "reclaim", "busy", "unavailable",
                              "done", "crashed"},
              id : OperationIDs, start : Nat, existing : Rows, record : Nat, renew : Nat]

New(i) == [pc |-> "new", id |-> i, start |-> 0, existing |-> NoRow, record |-> 0, renew |-> 0]

Init ==
    /\ now = 0
    /\ row = NoRow
    /\ lastId = 0
    /\ op \in [Operations -> {New(i) : i \in OperationIDs}]
    /\ failures = 0
    /\ lapsed = FALSE /\ late = FALSE /\ foreign = FALSE

Goto(o, pc) == op' = [op EXCEPT ![o].pc = pc]

(* The call is over; what it knew is of no use to anyone.                  *)
End(o, pc)  == op' = [op EXCEPT ![o] = [New(@.id) EXCEPT !.pc = pc]]

Begin(o) ==
    /\ op[o].pc = "new"
    /\ op' = [op EXCEPT ![o].pc = "create", ![o].start = now]
    /\ UNCHANGED <<now, row, lastId, failures, causes>>

LockedUntil(o) == op[o].start + Lease
ExpiresAt(o)   == op[o].start + TTL

(* Acquire returns and renewLoop starts.                                   *)
Hold(o, record) ==
    /\ op' = [op EXCEPT ![o].pc = "running", ![o].record = record, ![o].existing = NoRow,
                        ![o].renew = now + RenewInterval]
    /\ late' = (late \/ now + 2 * RenewInterval >= LockedUntil(o))
    /\ foreign' = (foreign \/ row'.fingerprint # op[o].id)

Create(o) ==
    /\ op[o].pc = "create"
    /\ row' = CreateProcessing(row, lastId + 1, op[o].id, LockedUntil(o), ExpiresAt(o))
    /\ IF row.id = 0
       THEN lastId' = lastId + 1 /\ Hold(o, lastId + 1)
       ELSE UNCHANGED <<lastId, causes>> /\ Goto(o, "get")
    /\ UNCHANGED <<now, failures>>

GetExisting(o) ==
    /\ op[o].pc = "get"
    /\ \/ row.id = 0 /\ End(o, "unavailable")
       \/ row.id # 0 /\ row.status = "processing" /\ row.locked > op[o].start /\ End(o, "busy")
       \/ /\ row.id # 0 /\ ~(row.status = "processing" /\ row.locked > op[o].start)
          /\ op' = [op EXCEPT ![o].pc = "reclaim", ![o].existing = row]
    /\ UNCHANGED <<now, row, lastId, failures, causes>>

Reclaim(o) ==
    /\ op[o].pc = "reclaim"
    /\ LET old == op[o].existing
       IN  /\ row' = TryReclaim(row, old.id, old.status, op[o].start, LockedUntil(o), ExpiresAt(o))
           /\ IF Reclaimable(row, old.id, old.status, op[o].start)
              THEN Hold(o, old.id)
              ELSE End(o, "busy") /\ UNCHANGED causes
    /\ UNCHANGED <<now, lastId, failures>>

(* Mutant: an error of one renewal ends the loop.                          *)
RenewOnce(o) ==
    /\ op[o].pc = "running" /\ op[o].renew # 0 /\ op[o].renew <= now
    /\ \/ /\ row' = ExtendProcessingLock(row, op[o].record, op[o].id, now + Lease, now + TTL)
          /\ op' = [op EXCEPT ![o].renew =
                       IF Extendable(row, op[o].record, op[o].id) THEN now + RenewInterval ELSE 0]
          /\ UNCHANGED failures
       \/ /\ failures < MaxFailures
          /\ failures' = failures + 1
          /\ op' = [op EXCEPT ![o].renew = 0]
          /\ UNCHANGED row
    /\ UNCHANGED <<now, lastId, causes>>

(* One round of renewLoop.  ExtendProcessingLock asks for the holder's own *)
(* operation id in request_fingerprint; an answer "no row" ends the loop,  *)
(* an error does not.                                                      *)
RenewDue(o) == op[o].pc = "running" /\ op[o].renew # 0 /\ op[o].renew <= now

Renew(o) ==
    /\ RenewDue(o)
    /\ \/ /\ row' = ExtendProcessingLock(row, op[o].record, op[o].id, now + Lease, now + TTL)
          /\ op' = [op EXCEPT ![o].renew =
                       IF Extendable(row, op[o].record, op[o].id) THEN now + RenewInterval ELSE 0]
          /\ UNCHANGED failures
       \/ /\ failures < MaxFailures
          /\ failures' = failures + 1
          /\ op' = [op EXCEPT ![o].renew = now + RenewInterval]
          /\ UNCHANGED row
    /\ UNCHANGED <<now, lastId, causes>>

(* The operation ends: Release first stops the loop, then marks the row.   *)
Finish(o) ==
    /\ op[o].pc = "running"
    /\ op' = [op EXCEPT ![o].pc = "releasing", ![o].renew = 0]
    /\ UNCHANGED <<now, row, lastId, failures, causes>>

Release(o) ==
    /\ op[o].pc = "releasing"
    /\ End(o, "done")
    /\ \/ row' = MarkSucceeded(row, op[o].record, op[o].id, now + TTL)
       \/ row' = MarkFailedRetryable(row, op[o].record, now, now + TTL)
       \/ UNCHANGED row
    /\ UNCHANGED <<now, lastId, failures, causes>>

(* The process of the holder dies, and its renewals with it.               *)
Crash(o) ==
    /\ op[o].pc \in Held
    /\ End(o, "crashed")
    /\ UNCHANGED <<now, row, lastId, failures, causes>>

(* IdempotencyCleanupService.cleanupOnce works on the same table.          *)
Cleanup ==
    /\ row' = DeleteExpired(row, now)
    /\ UNCHANGED <<now, lastId, op, failures, causes>>

(* A ticker that is due fires before the clock moves on, and a holder that *)
(* stopped its loop writes its mark.                                       *)
Tick ==
    /\ now < MaxTime
    /\ \A o \in Operations : ~RenewDue(o) /\ op[o].pc # "releasing"
    /\ now' = now + 1
    /\ UNCHANGED <<row, lastId, op, failures, causes>>

OperationStep(o) ==
    \/ Begin(o) \/ Create(o) \/ GetExisting(o) \/ Reclaim(o)
    \/ Renew(o) \/ Finish(o) \/ Release(o) \/ Crash(o)

Leased(o) == row.id = op[o].record /\ row.status = "processing" /\ row.locked > now

Next ==
    /\ Cleanup \/ Tick \/ \E o \in Operations : OperationStep(o)
    /\ lapsed' = (lapsed \/ \E o \in Operations : op'[o].pc \in Held /\ ~Leased(o)')

Spec == Init /\ [][Next]_vars

-----------------------------------------------------------------------------
(* Types of the variables.                                                 *)
TypeOK ==
    /\ now \in Nat /\ lastId \in Nat /\ failures \in Nat
    /\ row \in Rows
    /\ op \in [Operations -> Operation]
    /\ {lapsed, late, foreign} \subseteq BOOLEAN

(* What the code gives: exclusion up to the first lapse of a lease, over   *)
(* crashes, takeovers, cleanup rounds and operations that share an id ...  *)
ExclusionUntilLapse ==
    ~lapsed => \A o, p \in Operations : op[o].pc \in Held /\ op[p].pc \in Held => o = p

(* ... and the first lapse has one of two causes.  A failed renewal is not *)
(* one of them, since Lease leaves room for it; a late claim is, and so is *)
(* TryReclaim, which leaves the id of an earlier operation in the row: the *)
(* new holder's renewals match nothing and its loop ends.                  *)
LapseHasCause ==
    lapsed => late \/ foreign
=============================================================================
