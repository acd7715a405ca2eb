--------------------------- MODULE BillingCenter ---------------------------
(***************************************************************************)
(* One billed operation of the gateway and everything that can touch it:   *)
(* the executions (HTTP requests or WebSocket turns) that share its        *)
(* idempotency key, the persisted media jobs and usage tasks they leave    *)
(* behind, the outbox workers of several gateway processes, and the        *)
(* external billing authority that owns the money.                         *)
(*                                                                         *)
(* Every row the code writes is keyed by the operation and no statement    *)
(* relates two operations, so one operation is the whole protocol.         *)
(*                                                                         *)
(* A database statement or transaction is one step; a read whose result is *)
(* used by a later statement is a step of its own (the reader keeps what   *)
(* it saw in its own record); an HTTP call is three: sent, applied by the  *)
(* authority (possibly late, or never), answered (possibly lost).          *)
(***************************************************************************)
EXTENDS Naturals

CONSTANTS
    Execs,      \* executions prepared for this operation
    MediaExecs, \* those that persist a media job before calling the supplier
    Workers,    \* outbox delivery goroutines, over all gateway processes
    NoExec,     \* the empty attempt_id
    NoWorker    \* the empty lease_token

ASSUME ConstantsAssumption ==
    MediaExecs \subseteq Execs /\ NoExec \notin Execs /\ NoWorker \notin Workers

VARIABLES
    op,           \* row of billing_center_operations
    outbox,       \* row of billing_center_outbox, at most one per operation
    receipt,      \* a row of billing_center_reconciliation_receipts exists
    auth,         \* the reservation at the authority
    case,         \* the operator's resolution published by the authority
    reserveSent,  \* a Reserve request has been put on the wire
    dispatchSent, \* Dispatch requests put on the wire
    terminalSent, \* the outbox event has been put on the wire
    exec,         \* what each execution is doing and what it last read
    permits,      \* executions that were allowed to call the supplier
    task,         \* media job or usage task left by each execution
    worker        \* what each outbox worker is doing and what it holds

storeVars  == <<op, outbox, receipt>>
remoteVars == <<auth, case>>
netVars    == <<reserveSent, dispatchSent, terminalSent>>
vars == <<storeVars, remoteVars, netVars, exec, permits, task, worker>>

-----------------------------------------------------------------------------
OperationStates ==
    {"absent", "intent", "reserved", "dispatching", "dispatched",
     "settlement_pending", "release_pending", "settled", "released",
     "reconciliation_required"}
Terminal == {"settled", "released"}
Kinds == {"settle", "release"}
Deliverable == {"pending", "processing"}

\* Mutant: the event's kind is written where the state belongs.
TargetStateIsKind(kind) == kind

PendingState(kind) == IF kind = "settle" THEN "settlement_pending" ELSE "release_pending"
TargetState(kind)  == IF kind = "settle" THEN "settled" ELSE "released"

Reservations == [state : {"none", "reserved", "dispatched"} \cup Terminal, ver : Nat]
NoReservation == [state |-> "none", ver |-> 0]
Snapshots == [version : Nat, rver : Nat]
NoSnapshot == [version |-> 0, rver |-> 0]
Snapshot == [version |-> op.version, rver |-> op.rver]
Remote == [state |-> auth.state, ver |-> auth.ver]

ExecPCs ==
    {"start", "query", "reserve", "reserving", "requery", "bind", "ready",
     "claim", "dispatching", "confirm", "supplier", "finish", "release",
     "mark", "ended"}
TaskStates ==
    {"none", "queued", "submitted", "failed", "marking", "usage", "settling",
     "done", "lost"}
WorkerPCs == {"reconcile", "resolving", "apply", "claim", "deliver", "ack"}

Operations == [state : OperationStates, version : Nat,
               attempt : Execs \cup {NoExec}, rver : Nat]
Events == [status : {"none", "pending", "processing", "delivered", "blocked",
                     "superseded"},
           kind : Kinds, expected : Nat,
           holder : Workers \cup {NoWorker}, live : BOOLEAN]
Accounts == [state : {"none", "reserved", "dispatched"} \cup Terminal, ver : Nat,
             attempts : SUBSET Execs, by : {"none", "event", "expiry", "admin"}]
DispatchRequests == [attempt : Execs, expected : Nat]
ExecRecords == [pc : ExecPCs, seen : Snapshots, got : Reservations,
                attempted : BOOLEAN, handedOff : BOOLEAN]
TaskRecords == [st : TaskStates, seen : Snapshots]
WorkerRecords == [pc : WorkerPCs, seen : Snapshots, got : Reservations]

-----------------------------------------------------------------------------
Init ==
    /\ op = [state |-> "absent", version |-> 0, attempt |-> NoExec, rver |-> 0]
    /\ outbox = [status |-> "none", kind |-> "settle", expected |-> 0,
                 holder |-> NoWorker, live |-> FALSE]
    /\ receipt = FALSE
    /\ auth = [state |-> "none", ver |-> 0, attempts |-> {}, by |-> "none"]
    /\ case = NoReservation
    /\ reserveSent = FALSE
    /\ dispatchSent = {}
    /\ terminalSent = FALSE
    /\ exec = [e \in Execs |-> [pc |-> "start", seen |-> NoSnapshot,
                                got |-> NoReservation, attempted |-> FALSE,
                                handedOff |-> FALSE]]
    /\ permits = {}
    /\ task = [e \in Execs |-> [st |-> "none", seen |-> NoSnapshot]]
    /\ worker = [w \in Workers |-> [pc |-> "reconcile", seen |-> NoSnapshot,
                                    got |-> NoReservation]]

-----------------------------------------------------------------------------
(* Helpers that move one actor and leave the others alone. *)

Goto(e, pc) == exec' = [exec EXCEPT ![e].pc = pc]

\* ... and with its last reads no longer needed.
Leave(e, pc) == exec' = [exec EXCEPT ![e].pc = pc, ![e].seen = NoSnapshot,
                                     ![e].got = NoReservation]
WorkerGoto(w, pc) ==
    worker' = [worker EXCEPT ![w] = [pc |-> pc, seen |-> NoSnapshot,
                                     got |-> NoReservation]]

\* The execution is over but for Finish. A media request records its job as
\* failed on the way out, and ignores an error of that write.
Abandon(e) ==
    /\ Leave(e, "finish")
    /\ \/ UNCHANGED task
       \/ task[e].st = "queued" /\ task' = [task EXCEPT ![e].st = "failed"]

\* An UPDATE of the operation row: every one of them increments version.
SetOperation(state) == op' = [op EXCEPT !.state = state, !.version = @ + 1]

\* States from which EnqueueTx accepts an event of this kind.
EnqueueFrom(kind) ==
    IF kind = "settle" THEN {"dispatched", "reconciliation_required"}
    ELSE {"reserved", "dispatched", "reconciliation_required"}

\* Mutant: the version the event was built on is not compared.
EnqueueTxAnyVersion(kind, expected) ==
    IF outbox.status = "none" /\ op.state \in EnqueueFrom(kind)
    THEN /\ outbox' = [outbox EXCEPT !.status = "pending", !.kind = kind,
                                     !.expected = expected]
         /\ SetOperation(PendingState(kind))
    ELSE UNCHANGED <<op, outbox>>

\* The one terminal event of the operation is inserted with the move to its
\* pending state; an event that is already there, a stale remote version or an
\* inadmissible state leaves everything as it was.
EnqueueTx(kind, expected) ==
    IF /\ outbox.status = "none"
       /\ expected = op.rver
       /\ op.state \in EnqueueFrom(kind)
    THEN /\ outbox' = [outbox EXCEPT !.status = "pending", !.kind = kind,
                                     !.expected = expected]
         /\ SetOperation(PendingState(kind))
    ELSE UNCHANGED <<op, outbox>>

MarkReconciliation(version) ==
    IF op.version = version /\ op.state \in {"dispatching", "dispatched"}
    THEN SetOperation("reconciliation_required")
    ELSE UNCHANGED op

-----------------------------------------------------------------------------
(* Admission: Coordinator.Reserve, from prepareWithQuote. *)

\* INSERT ... ON CONFLICT DO NOTHING, then re-read. A row past intent is
\* returned as it is, and only a reserved one admits the request.
CreateIntent(e) ==
    /\ exec[e].pc = "start"
    /\ op' = IF op.state = "absent"
             THEN [op EXCEPT !.state = "intent", !.version = 1] ELSE op
    /\ exec' = [exec EXCEPT
         ![e].seen = [version |-> op'.version, rver |-> op'.rver],
         ![e].pc = CASE op.state = "absent"   -> "reserve"
                     [] op.state = "intent"   -> "query"
                     [] op.state = "reserved" -> "ready"
                     [] OTHER                 -> "ended"]
    /\ UNCHANGED <<outbox, receipt, remoteVars, netVars, permits, task, worker>>

\* GET by operation ID: before reserving an intent somebody else created, and
\* after a Reserve whose outcome is unknown. Only 404 lets the former go on.
GetOperation(e) ==
    /\ exec[e].pc \in {"query", "requery"}
    /\ \/ /\ auth.state # "none"
          /\ exec' = [exec EXCEPT ![e].pc = "bind", ![e].got = Remote]
       \/ /\ auth.state = "none" /\ exec[e].pc = "query"
          /\ Goto(e, "reserve")
       \/ Leave(e, "ended")
    /\ UNCHANGED <<storeVars, remoteVars, netVars, permits, task, worker>>

SendReserve(e) ==
    /\ exec[e].pc = "reserve"
    /\ reserveSent' = TRUE
    /\ Goto(e, "reserving")
    /\ UNCHANGED <<storeVars, remoteVars, dispatchSent, terminalSent, permits, task, worker>>

\* The answer, an unknown outcome, or a definite refusal.
ReserveAnswer(e) ==
    /\ exec[e].pc = "reserving"
    /\ \/ /\ auth.state # "none"
          /\ exec' = [exec EXCEPT ![e].pc = "bind", ![e].got = Remote]
       \/ Goto(e, "requery")
       \/ Leave(e, "ended")
    /\ UNCHANGED <<storeVars, remoteVars, netVars, permits, task, worker>>

\* CAS on the version read with the intent; then the row is read again and
\* admits the request because it is reserved.
BindReservation(e) ==
    /\ exec[e].pc = "bind"
    /\ IF /\ exec[e].got.state = "reserved"
          /\ op.state = "intent"
          /\ op.version = exec[e].seen.version
       THEN /\ op' = [op EXCEPT !.state = "reserved", !.version = @ + 1,
                                !.rver = exec[e].got.ver]
            /\ Leave(e, "ready")
       ELSE /\ UNCHANGED op
            /\ Leave(e, "ended")
    /\ UNCHANGED <<outbox, receipt, remoteVars, netVars, permits, task, worker>>

-----------------------------------------------------------------------------
(* Dispatch: BeforeSupplierRequest and Coordinator.Dispatch. *)

\* The media service persists the job before it calls the supplier.
CreateJob(e) ==
    /\ exec[e].pc = "ready"
    /\ e \in MediaExecs /\ task[e].st = "none"
    /\ task' = [task EXCEPT ![e].st = "queued"]
    /\ UNCHANGED <<storeVars, remoteVars, netVars, exec, permits, worker>>

\* The request ends before any supplier call (no account, bad mapping, ...).
GiveUp(e) ==
    /\ exec[e].pc = "ready"
    /\ Abandon(e)
    /\ UNCHANGED <<storeVars, remoteVars, netVars, permits, worker>>

\* The first call reads the row; a later one of the same execution is refused
\* whatever happened to the first.
BeforeSupplierRequest(e) ==
    /\ exec[e].pc = "ready"
    /\ e \in MediaExecs => task[e].st # "none"
    /\ IF ~exec[e].attempted /\ op.state = "reserved"
       THEN /\ exec' = [exec EXCEPT ![e].pc = "claim", ![e].attempted = TRUE,
                                    ![e].seen = Snapshot]
            /\ UNCHANGED task
       ELSE Abandon(e)
    /\ UNCHANGED <<storeVars, remoteVars, netVars, permits, worker>>

\* Mutant: the claim is an UPDATE without state and version.
ClaimDispatchUnguarded(e) ==
    /\ exec[e].pc = "claim"
    /\ op' = [op EXCEPT !.state = "dispatching", !.attempt = e, !.version = @ + 1]
    /\ dispatchSent' = dispatchSent \cup
                         {[attempt |-> e, expected |-> exec[e].seen.rver]}
    /\ Goto(e, "dispatching")
    /\ UNCHANGED <<outbox, receipt, remoteVars, reserveSent, terminalSent,
                   permits, task, worker>>

\* The execution is the attempt: it makes at most one, with a fresh id.
ClaimDispatch(e) ==
    /\ exec[e].pc = "claim"
    /\ IF op.state = "reserved" /\ op.version = exec[e].seen.version
       THEN /\ op' = [op EXCEPT !.state = "dispatching", !.attempt = e,
                                !.version = @ + 1]
            /\ dispatchSent' = dispatchSent \cup
                                 {[attempt |-> e, expected |-> exec[e].seen.rver]}
            /\ Goto(e, "dispatching")
            /\ UNCHANGED task
       ELSE /\ UNCHANGED <<op, dispatchSent>>
            /\ Abandon(e)
    /\ UNCHANGED <<outbox, receipt, remoteVars, reserveSent, terminalSent, permits, worker>>

\* A refused or unanswered Dispatch leaves the row dispatching for good.
DispatchAnswer(e) ==
    /\ exec[e].pc = "dispatching"
    /\ \/ /\ e \in auth.attempts
          /\ exec' = [exec EXCEPT ![e].pc = "confirm",
                 ![e].got = [state |-> "dispatched", ver |-> exec[e].seen.rver + 1]]
          /\ UNCHANGED task
       \/ Abandon(e)
    /\ UNCHANGED <<storeVars, remoteVars, netVars, permits, worker>>

\* Mutant: the number of affected rows is not looked at.
ConfirmDispatchedUnchecked(e) ==
    /\ exec[e].pc = "confirm"
    /\ op' = IF op.state = "dispatching"
             THEN [op EXCEPT !.state = "dispatched", !.version = @ + 1,
                             !.rver = exec[e].got.ver] ELSE op
    /\ permits' = permits \cup {e}
    /\ Leave(e, "supplier")
    /\ UNCHANGED <<outbox, receipt, remoteVars, netVars, task, worker>>

\* The permit goes to the owner of the CAS, provided the commit is also
\* acknowledged; a commit of unknown outcome loses it.
ConfirmDispatched(e) ==
    /\ exec[e].pc = "confirm"
    /\ IF /\ op.state = "dispatching"
          /\ op.version = exec[e].seen.version + 1
          /\ op.attempt = e
       THEN /\ op' = [op EXCEPT !.state = "dispatched", !.version = @ + 1,
                                !.rver = exec[e].got.ver]
            /\ \/ /\ permits' = permits \cup {e}
                  /\ Leave(e, "supplier")
                  /\ UNCHANGED task
               \/ UNCHANGED permits /\ Abandon(e)
       ELSE UNCHANGED <<op, permits>> /\ Abandon(e)
    /\ UNCHANGED <<outbox, receipt, remoteVars, netVars, worker>>

-----------------------------------------------------------------------------
(* The supplier's answer and the end of the request. *)

\* Text work runs its usage task before the request ends; an accepted media
\* task is persisted and the execution handed off to it.
SupplierAccepted(e) ==
    /\ exec[e].pc = "supplier"
    /\ task' = [task EXCEPT ![e].st = IF e \in MediaExecs THEN "submitted" ELSE "usage"]
    /\ exec' = [exec EXCEPT ![e].pc = "finish", ![e].handedOff = e \in MediaExecs]
    /\ UNCHANGED <<storeVars, remoteVars, netVars, permits, worker>>

\* A refusal, a broken answer, or a media task that could not be persisted.
SupplierFailed(e) ==
    /\ exec[e].pc = "supplier"
    /\ Abandon(e)
    /\ UNCHANGED <<storeVars, remoteVars, netVars, permits, worker>>

\* The failover loop picks another account and tries to send again.
Failover(e) ==
    /\ exec[e].pc = "supplier"
    /\ Leave(e, "ready")
    /\ UNCHANGED <<storeVars, remoteVars, netVars, permits, task, worker>>

\* The usage task of a text execution, which the request waits for.
RecordingUsage(e) == e \notin MediaExecs /\ task[e].st \in {"usage", "settling"}

\* Finish reads the row, then acts on what it read.
Finish(e) ==
    /\ exec[e].pc = "finish" /\ ~RecordingUsage(e)
    /\ exec' = [exec EXCEPT
         ![e].seen = Snapshot,
         ![e].pc = CASE exec[e].handedOff        -> "ended"
                     [] ~exec[e].handedOff /\ op.state = "reserved" -> "release"
                     [] /\ ~exec[e].handedOff
                        /\ op.state \in {"dispatching", "dispatched"}
                        /\ e \in permits         -> "mark"
                     [] OTHER                    -> "ended"]
    /\ UNCHANGED <<storeVars, remoteVars, netVars, permits, task, worker>>

FinishRelease(e) ==
    /\ exec[e].pc = "release"
    /\ EnqueueTx("release", exec[e].seen.rver)
    /\ Leave(e, "ended")
    /\ UNCHANGED <<receipt, remoteVars, netVars, permits, task, worker>>

FinishMark(e) ==
    /\ exec[e].pc = "mark"
    /\ MarkReconciliation(exec[e].seen.version)
    /\ Leave(e, "ended")
    /\ UNCHANGED <<outbox, receipt, remoteVars, netVars, permits, task, worker>>

\* The process dies, and an in-memory usage task with it; what the media
\* service persisted stays. A Finish that fails or times out ends the same way.
ExecCrash(e) ==
    /\ exec[e].pc # "ended"
    /\ Leave(e, "ended")
    /\ task' = IF RecordingUsage(e) THEN [task EXCEPT ![e].st = "lost"] ELSE task
    /\ UNCHANGED <<storeVars, remoteVars, netVars, permits, worker>>

-----------------------------------------------------------------------------
(* Usage tasks and persisted media jobs. *)

\* Mutant: jobs that were never submitted are polled too.
JobReportUnsubmitted(e) ==
    /\ task[e].st \in {"queued", "submitted"}
    /\ \E st \in {"usage", "failed"} : task' = [task EXCEPT ![e].st = st]
    /\ UNCHANGED <<storeVars, remoteVars, netVars, exec, permits, worker>>

\* The supplier reports on a submitted job.
JobReport(e) ==
    /\ task[e].st = "submitted"
    /\ \E st \in {"usage", "failed"} : task' = [task EXCEPT ![e].st = st]
    /\ UNCHANGED <<storeVars, remoteVars, netVars, exec, permits, worker>>

\* ReconcileFailure of a failed job: read, then compare and set.
ReconcileFailure(e) ==
    /\ task[e].st = "failed"
    /\ op.state \in {"dispatching", "dispatched"}
    /\ task' = [task EXCEPT ![e].st = "marking", ![e].seen = Snapshot]
    /\ UNCHANGED <<storeVars, remoteVars, netVars, exec, permits, worker>>

ReconcileFailureMark(e) ==
    /\ task[e].st = "marking"
    /\ MarkReconciliation(task[e].seen.version)
    /\ task' = [task EXCEPT ![e].st = "failed"]
    /\ UNCHANGED <<outbox, receipt, remoteVars, netVars, exec, permits, worker>>

\* attachCentralUsageMeters: the settlement is built on the version read now,
\* or on that of the settlement already persisted. Refused work is lost with
\* its usage task; a media job stays and is tried again.
AttachUsage(e) ==
    /\ task[e].st = "usage"
    /\ IF /\ op.state \in {"dispatched", "reconciliation_required",
                           "settlement_pending", "settled"}
          /\ outbox.status # "none" => outbox.kind = "settle"
       THEN task' = [task EXCEPT ![e].st = "settling",
                ![e].seen = [version |-> op.version,
                             rver |-> IF outbox.status = "none" THEN op.rver
                                      ELSE outbox.expected]]
       ELSE /\ e \notin MediaExecs
            /\ task' = [task EXCEPT ![e].st = "lost"]
    /\ UNCHANGED <<storeVars, remoteVars, netVars, exec, permits, worker>>

\* Apply commits the dedup claim, the ledger and the settlement together.
ApplyUsage(e) ==
    /\ task[e].st = "settling"
    /\ EnqueueTx("settle", task[e].seen.rver)
    /\ task' = [task EXCEPT ![e].st =
         IF \/ outbox'.status # outbox.status
            \/ /\ outbox.status # "none" /\ outbox.kind = "settle"
               /\ outbox.expected = task[e].seen.rver
         THEN "done" ELSE IF e \in MediaExecs THEN "usage" ELSE "lost"]
    /\ UNCHANGED <<receipt, remoteVars, netVars, exec, permits, worker>>

\* The task fails or is refused: usage in memory is gone, a persisted job is
\* tried again.
TaskCrash(e) ==
    /\ task[e].st \in {"usage", "settling"}
    /\ task' = [task EXCEPT ![e].st = IF e \in MediaExecs THEN "usage" ELSE "lost"]
    /\ UNCHANGED <<storeVars, remoteVars, netVars, exec, permits, worker>>

-----------------------------------------------------------------------------
(* Outbox workers: RunOnce is reconcile, then Claim, then deliver.          *)
(* The lease token, fresh at every claim, is the worker that holds it: a    *)
(* worker drops its token before it can claim again.                        *)

Reconcilable == {"dispatching", "dispatched", "settlement_pending",
                 "release_pending", "reconciliation_required"}

WorkerFrame == UNCHANGED <<remoteVars, reserveSent, dispatchSent, exec, permits, task>>

\* A candidate is a row old enough; whether it is, is left open.
PendingReconciliations(w) ==
    /\ worker[w].pc = "reconcile" /\ op.state \in Reconcilable
    /\ worker' = [worker EXCEPT ![w].pc = "resolving", ![w].seen = Snapshot]
    /\ UNCHANGED <<storeVars, terminalSent>> /\ WorkerFrame

\* Only a resolved case that passes ValidateResolution is acted on.
FetchResolution(w) ==
    /\ worker[w].pc = "resolving"
    /\ case.state # "none" /\ case.ver >= worker[w].seen.rver
    /\ worker' = [worker EXCEPT ![w].pc = "apply", ![w].got = case]
    /\ UNCHANGED <<storeVars, terminalSent>> /\ WorkerFrame

\* No candidate; or 404, an open case, an error: on to the events.
NothingToReconcile(w) ==
    /\ worker[w].pc \in {"reconcile", "resolving"}
    /\ WorkerGoto(w, "claim")
    /\ UNCHANGED <<storeVars, terminalSent>> /\ WorkerFrame

\* Mutant: an event that was already blocked stops the decision.
ApplyReconciliationUnlessBlocked(w) ==
    /\ worker[w].pc = "apply"
    /\ WorkerGoto(w, "claim")
    /\ LET decision == worker[w].got IN
       IF /\ ~receipt /\ outbox.status # "blocked"
          /\ op.version = worker[w].seen.version
          /\ decision.ver > op.rver /\ op.state \in Reconcilable
       THEN /\ receipt' = TRUE
            /\ op' = [op EXCEPT !.state = decision.state, !.version = @ + 1,
                                !.rver = decision.ver]
            /\ outbox' = IF outbox.status \in Deliverable
                         THEN [outbox EXCEPT !.status = "superseded",
                                             !.holder = NoWorker, !.live = FALSE]
                         ELSE outbox
       ELSE UNCHANGED storeVars
    /\ UNCHANGED terminalSent /\ WorkerFrame

\* Receipt, superseded outbox row and final operation row in one transaction.
ApplyReconciliation(w) ==
    /\ worker[w].pc = "apply"
    /\ WorkerGoto(w, "claim")
    /\ LET decision == worker[w].got IN
       IF /\ ~receipt
          /\ op.version = worker[w].seen.version
          /\ decision.ver > op.rver
          /\ op.state \in Reconcilable
       THEN /\ receipt' = TRUE
            /\ op' = [op EXCEPT !.state = decision.state, !.version = @ + 1,
                                !.rver = decision.ver]
            /\ outbox' = IF outbox.status \in {"pending", "processing", "blocked"}
                         THEN [outbox EXCEPT !.status = "superseded",
                                             !.holder = NoWorker, !.live = FALSE]
                         ELSE outbox
       ELSE UNCHANGED storeVars
    /\ UNCHANGED terminalSent /\ WorkerFrame

\* Mutant: only pending events are due, a lost lease is never recovered.
ClaimPendingOnly(w) ==
    /\ worker[w].pc = "claim"
    /\ outbox.status = "pending"
    /\ outbox' = [outbox EXCEPT !.status = "processing", !.holder = w, !.live = TRUE]
    /\ terminalSent' = TRUE
    /\ WorkerGoto(w, "deliver")
    /\ UNCHANGED <<op, receipt>> /\ WorkerFrame

\* A due event without a live lease; what is sent is the stored body.
Claim(w) ==
    /\ worker[w].pc = "claim"
    /\ outbox.status \in Deliverable /\ ~outbox.live
    /\ outbox' = [outbox EXCEPT !.status = "processing", !.holder = w, !.live = TRUE]
    /\ terminalSent' = TRUE
    /\ WorkerGoto(w, "deliver")
    /\ UNCHANGED <<op, receipt>> /\ WorkerFrame

NothingToClaim(w) ==
    /\ worker[w].pc = "claim"
    /\ WorkerGoto(w, "reconcile")
    /\ UNCHANGED <<storeVars, terminalSent>> /\ WorkerFrame

LeaseExpires ==
    /\ outbox.live
    /\ outbox' = [outbox EXCEPT !.live = FALSE]
    /\ UNCHANGED <<op, receipt, remoteVars, netVars, exec, permits, task, worker>>

HoldsLease(w) ==
    outbox.status = "processing" /\ outbox.holder = w /\ outbox.live

\* Mutant: the state in the answer is not compared with the event's.
DeliveryConfirmedUnchecked(w) ==
    /\ worker[w].pc = "deliver"
    /\ worker' = [worker EXCEPT ![w].pc = "ack", ![w].got = Remote]
    /\ UNCHANGED <<storeVars, terminalSent>> /\ WorkerFrame

\* The authority confirms the event, now or from an earlier delivery.
DeliveryConfirmed(w) ==
    /\ worker[w].pc = "deliver"
    /\ auth.by = "event"
    /\ worker' = [worker EXCEPT ![w].pc = "ack", ![w].got = Remote]
    /\ UNCHANGED <<storeVars, terminalSent>> /\ WorkerFrame

\* Complete is one transaction: without the lease, or when the operation is
\* not waiting for this event, neither row changes.
Complete(w) ==
    /\ worker[w].pc = "ack"
    /\ WorkerGoto(w, "reconcile")
    /\ IF /\ HoldsLease(w)
          /\ op.state = PendingState(outbox.kind)
          /\ op.rver < worker[w].got.ver
       THEN /\ outbox' = [outbox EXCEPT !.status = "delivered",
                                        !.holder = NoWorker, !.live = FALSE]
            /\ op' = [op EXCEPT !.state = TargetState(outbox.kind),
                                !.version = @ + 1, !.rver = worker[w].got.ver]
       ELSE UNCHANGED <<op, outbox>>
    /\ UNCHANGED <<receipt, terminalSent>> /\ WorkerFrame

\* Mutant: a blocked event leaves its operation waiting.
RetryEventOnly(w, permanent) ==
    /\ worker[w].pc = "deliver"
    /\ WorkerGoto(w, "reconcile")
    /\ outbox' = IF HoldsLease(w)
                 THEN [outbox EXCEPT
                         !.status = IF permanent THEN "blocked" ELSE "pending",
                         !.holder = NoWorker, !.live = FALSE]
                 ELSE outbox
    /\ UNCHANGED <<op, receipt, terminalSent>> /\ WorkerFrame

\* Any error: retryable ones (timeouts, 5xx, 401, unpaid usage) reschedule the
\* event, the others (any other 4xx, whatever its cause) block it.
Retry(w, permanent) ==
    /\ worker[w].pc = "deliver"
    /\ WorkerGoto(w, "reconcile")
    /\ IF HoldsLease(w)
       THEN /\ outbox' = [outbox EXCEPT
                 !.status = IF permanent THEN "blocked" ELSE "pending",
                 !.holder = NoWorker, !.live = FALSE]
            /\ IF permanent /\ op.state \in {"settlement_pending", "release_pending"}
               THEN SetOperation("reconciliation_required")
               ELSE UNCHANGED op
       ELSE UNCHANGED <<op, outbox>>
    /\ UNCHANGED <<receipt, terminalSent>> /\ WorkerFrame

\* The process stops or the acknowledgement is lost: the lease stays behind.
WorkerCrash(w) ==
    /\ worker[w].pc # "reconcile"
    /\ WorkerGoto(w, "reconcile")
    /\ UNCHANGED <<storeVars, terminalSent>> /\ WorkerFrame

\* Mutant: any stored event can be replayed.
ReplayAnyStatus ==
    /\ outbox.status # "none"
    /\ outbox' = [outbox EXCEPT !.status = "pending", !.holder = NoWorker,
                                !.live = FALSE]
    /\ UNCHANGED <<op, receipt, remoteVars, netVars, exec, permits, task, worker>>

\* billing-migrate replay-outbox: an operator makes a blocked event due again.
Replay ==
    /\ outbox.status \in {"blocked", "pending"}
    /\ outbox' = [outbox EXCEPT !.status = "pending", !.holder = NoWorker,
                                !.live = FALSE]
    /\ UNCHANGED <<op, receipt, remoteVars, netVars, exec, permits, task, worker>>

-----------------------------------------------------------------------------
(* The external authority, as the client code relies on it: idempotent per  *)
(* event ID, guarded by the expected version, free to apply a request late. *)

AuthorityFrame == UNCHANGED <<storeVars, netVars, exec, permits, task, worker>>

AuthorityReserve ==
    /\ reserveSent /\ auth.state = "none"
    /\ auth' = [auth EXCEPT !.state = "reserved", !.ver = 1]
    /\ UNCHANGED case /\ AuthorityFrame

AuthorityDispatch(m) ==
    /\ m \in dispatchSent
    /\ auth.state = "reserved" /\ auth.ver = m.expected
    /\ auth' = [auth EXCEPT !.state = "dispatched", !.ver = @ + 1,
                            !.attempts = @ \cup {m.attempt}]
    /\ UNCHANGED case /\ AuthorityFrame

AuthorityTerminal ==
    /\ terminalSent /\ auth.ver = outbox.expected
    /\ auth.state \in IF outbox.kind = "settle" THEN {"dispatched"}
                      ELSE {"reserved", "dispatched"}
    /\ auth' = [auth EXCEPT !.state = TargetState(outbox.kind), !.ver = @ + 1,
                            !.by = "event"]
    /\ UNCHANGED case /\ AuthorityFrame

\* An unused hold runs out (expires_at of the Reserve request).
AuthorityExpire ==
    /\ auth.state = "reserved"
    /\ auth' = [auth EXCEPT !.state = "released", !.ver = @ + 1, !.by = "expiry"]
    /\ UNCHANGED case /\ AuthorityFrame

\* An operator settles verified usage or waives the charge, and the decision
\* is published with the reservation it produced.
AdminResolve ==
    /\ auth.state \in {"reserved", "dispatched"}
    /\ \E state \in Terminal :
         /\ auth' = [auth EXCEPT !.state = state, !.ver = @ + 1, !.by = "admin"]
         /\ case' = [state |-> state, ver |-> auth.ver + 1]
    /\ AuthorityFrame

-----------------------------------------------------------------------------
ExecStep(e) ==
    \/ CreateIntent(e) \/ GetOperation(e) \/ SendReserve(e) \/ ReserveAnswer(e)
    \/ BindReservation(e) \/ CreateJob(e) \/ GiveUp(e)
    \/ BeforeSupplierRequest(e) \/ ClaimDispatch(e) \/ DispatchAnswer(e)
    \/ ConfirmDispatched(e) \/ SupplierAccepted(e) \/ SupplierFailed(e)
    \/ Failover(e) \/ Finish(e) \/ FinishRelease(e) \/ FinishMark(e)
    \/ ExecCrash(e)

TaskStep(e) ==
    \/ JobReport(e) \/ ReconcileFailure(e) \/ ReconcileFailureMark(e)
    \/ AttachUsage(e) \/ ApplyUsage(e) \/ TaskCrash(e)

WorkerStep(w) ==
    \/ PendingReconciliations(w) \/ FetchResolution(w) \/ NothingToReconcile(w)
    \/ ApplyReconciliation(w) \/ Claim(w) \/ NothingToClaim(w)
    \/ DeliveryConfirmed(w) \/ Complete(w)
    \/ \E permanent \in BOOLEAN : Retry(w, permanent)
    \/ WorkerCrash(w)

AuthorityStep ==
    \/ AuthorityReserve \/ AuthorityTerminal \/ AuthorityExpire \/ AdminResolve
    \/ \E m \in dispatchSent : AuthorityDispatch(m)

Next ==
    \/ \E e \in Execs : ExecStep(e) \/ TaskStep(e)
    \/ \E w \in Workers : WorkerStep(w)
    \/ LeaseExpires \/ Replay \/ AuthorityStep

Spec == Init /\ [][Next]_vars

\* The authority has neither applied the event nor ever will.
Refused ==
    /\ auth.by # "event"
    /\ \/ auth.ver # outbox.expected
       \/ auth.state \notin {"reserved", "dispatched"}

\* Every worker process polls for ever (Worker.Run); each of its steps is
\* possible again and again and in the end is not cut short by a crash, an
\* outage or the lease, which is longer than an attempt. The authority applies
\* what it received, and the payer's funds come back. Nothing is assumed of
\* requests, jobs, operators or administrators.
Fairness ==
    /\ WF_vars(LeaseExpires) /\ WF_vars(AuthorityTerminal)
    /\ \A w \in Workers :
        /\ WF_vars(WorkerStep(w))
        /\ WF_vars(NothingToReconcile(w) \/ NothingToClaim(w))
        /\ SF_vars(PendingReconciliations(w)) /\ SF_vars(FetchResolution(w))
        /\ SF_vars(ApplyReconciliation(w)) /\ SF_vars(Claim(w))
        /\ SF_vars(HoldsLease(w) /\ DeliveryConfirmed(w))
        /\ SF_vars(HoldsLease(w) /\ Complete(w))
        /\ SF_vars(Refused /\ HoldsLease(w) /\ Retry(w, TRUE))
FairSpec == Spec /\ Fairness

-----------------------------------------------------------------------------
(* Properties. *)

TypeOK ==
    /\ op \in Operations
    /\ outbox \in Events
    /\ receipt \in BOOLEAN
    /\ auth \in Accounts
    /\ case \in Reservations
    /\ reserveSent \in BOOLEAN
    /\ dispatchSent \in SUBSET DispatchRequests
    /\ terminalSent \in BOOLEAN
    /\ exec \in [Execs -> ExecRecords]
    /\ permits \in SUBSET Execs
    /\ task \in [Execs -> TaskRecords]
    /\ worker \in [Workers -> WorkerRecords]

\* Whatever the retries, duplicates, crashes and lost answers, the supplier is
\* called under at most one permit per operation, and the authority dispatched
\* exactly that attempt (Coordinator.Dispatch: "a one-shot execution permit").
OnePermit ==
    \A e \in permits : op.attempt = e /\ auth.attempts = {e}

\* Work that was permitted is never given back by the gateway itself: once a
\* permit exists no release is on its way and the authority released nothing
\* on the gateway's word. Only an operator can waive it.
NoReleaseOfPermittedWork ==
    permits # {} =>
        /\ outbox.kind = "release" => outbox.status = "none"
        /\ auth.state = "released" => auth.by = "admin"

\* The gateway never makes the authority charge for work it did not permit.
NoChargeWithoutWork ==
    auth.state = "settled" /\ auth.by = "event" => permits # {}

\* A final local row states the authority's own final answer and its version.
FinalMirrorsAuthority ==
    op.state \in Terminal => op.state = auth.state /\ op.rver = auth.ver

\* The two local rows tell one story: an operation waits for an event exactly
\* when that event can still be delivered, and each final outbox status says
\* how the operation became final.
RowsAgree ==
    /\ \A k \in Kinds : op.state = PendingState(k) =>
            outbox.kind = k /\ outbox.status \in Deliverable
    /\ outbox.status \in Deliverable \cup {"blocked"} =>
            op.state \in {PendingState(outbox.kind), "reconciliation_required"}
    /\ outbox.status = "blocked" => op.state = "reconciliation_required"
    /\ outbox.status = "delivered" =>
            op.state = TargetState(outbox.kind) /\ auth.by = "event"
    /\ outbox.status = "superseded" =>
            op.state \in Terminal /\ receipt /\ auth.by = "admin"

\* A final row and what the authority was told about it never change again,
\* and the version read from the authority never goes back: a worker that
\* wakes up late, a duplicate answer or a second decision writes nothing.
FinalIsFinal ==
    [][ /\ op.state \in Terminal => op' = op
        /\ op.rver <= op'.rver
        /\ outbox.status \in {"delivered", "superseded"} => outbox' = outbox ]_vars

\* The operation as BillingPermit sees it.
Permit == INSTANCE BillingPermit WITH
    outcome  <- IF op.state \in Terminal THEN op.state ELSE "open",
    closedBy <- IF op.state \notin Terminal THEN "nobody"
                ELSE IF receipt THEN "operator" ELSE "gateway"

\* The protocol keeps the promise of BillingPermit.
ImplementsPermit == Permit!Spec

\* An event that was enqueued does not wait for ever: the authority's answer
\* becomes the operation's, or the operation is set aside for reconciliation.
DeliveryIsDecided ==
    op.state \in {"settlement_pending", "release_pending"} ~>
        op.state \in Terminal \cup {"reconciliation_required"}

\* An operator's decision on an operation that went wrong reaches its row,
\* whatever deliveries are in flight when it is taken.
DecisionIsApplied ==
    case.state # "none" /\ op.state \in Reconcilable ~> op.state \in Terminal

\* The documentation: only a request that was not dispatched yet may queue a
\* release (docs/BILLING_CENTER_GATEWAY_CN.md:114; Finish says the same of
\* "the local durable state").
ReleaseOnlyBeforeDispatch ==
    [][ outbox.status = "none" /\ outbox'.status # "none" /\ outbox'.kind = "release"
        => op.attempt = NoExec ]_vars

\* The documentation: once the gateway has the authority's definite result it
\* records it as settled (docs/BILLING_CENTER_INTEGRATION_CN.md:61). So a worker
\* that holds both the confirmation and the lease closes the operation.
DefiniteResultIsRecorded ==
    [][ \A w \in Workers : HoldsLease(w) /\ Complete(w) =>
            op'.state = TargetState(outbox.kind) ]_vars

=============================================================================
