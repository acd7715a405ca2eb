------------------------ MODULE BillingCenterProofs ------------------------
(***************************************************************************)
(* Proofs about BillingCenter, for any number of executions and workers    *)
(* and without the bounds of the TLC instances.  First the types and the   *)
(* one permit; then the two local rows and the authority, which tell one   *)
(* story that stays; then the money, which fits the permit, so that the    *)
(* protocol implements BillingPermit.                                      *)
(***************************************************************************)
EXTENDS BillingCenter, TLAPS

-----------------------------------------------------------------------------
(* The helpers keep the types of what they update. *)

LEMMA ReadsType ==
    ASSUME op \in Operations, auth \in Accounts
    PROVE  /\ Snapshot \in Snapshots /\ NoSnapshot \in Snapshots
           /\ Remote \in Reservations /\ NoReservation \in Reservations
    BY DEF Operations, Accounts, Snapshots, Reservations, Snapshot, NoSnapshot,
           Remote, NoReservation

LEMMA GotoType ==
    ASSUME exec \in [Execs -> ExecRecords], NEW e \in Execs, NEW pc \in ExecPCs,
           Goto(e, pc)
    PROVE  exec' \in [Execs -> ExecRecords]
    BY DEF Goto, ExecRecords

LEMMA LeaveType ==
    ASSUME exec \in [Execs -> ExecRecords], NEW e \in Execs, NEW pc \in ExecPCs,
           Leave(e, pc)
    PROVE  exec' \in [Execs -> ExecRecords]
<1>1. NoSnapshot \in Snapshots /\ NoReservation \in Reservations
    BY DEF NoSnapshot, Snapshots, NoReservation, Reservations
<1>2. QED  BY ZenonT(40), <1>1 DEF Leave, ExecRecords

LEMMA ExecAnswerType ==
    ASSUME exec \in [Execs -> ExecRecords], NEW e \in Execs,
           NEW pc \in ExecPCs, NEW got \in Reservations
    PROVE  [exec EXCEPT ![e].pc = pc, ![e].got = got] \in [Execs -> ExecRecords]
    BY DEF ExecRecords

LEMMA ExecAttemptType ==
    ASSUME exec \in [Execs -> ExecRecords], NEW e \in Execs,
           NEW pc \in ExecPCs, NEW seen \in Snapshots
    PROVE  [exec EXCEPT ![e].pc = pc, ![e].attempted = TRUE, ![e].seen = seen]
             \in [Execs -> ExecRecords]
    BY ZenonT(40) DEF ExecRecords

LEMMA RemoteVersionType ==
    ASSUME op \in Operations, NEW state \in OperationStates, NEW rver \in Nat
    PROVE  [op EXCEPT !.state = state, !.version = @ + 1, !.rver = rver] \in Operations
<1>1. op.version + 1 \in Nat  BY DEF Operations
<1>2. QED  BY <1>1 DEF Operations

LEMMA TaskType ==
    ASSUME task \in [Execs -> TaskRecords], NEW e \in Execs, NEW st \in TaskStates
    PROVE  [task EXCEPT ![e].st = st] \in [Execs -> TaskRecords]
    BY DEF TaskRecords

LEMMA AbandonType ==
    ASSUME exec \in [Execs -> ExecRecords], task \in [Execs -> TaskRecords],
           NEW e \in Execs, Abandon(e)
    PROVE  exec' \in [Execs -> ExecRecords] /\ task' \in [Execs -> TaskRecords]
<1>1. "finish" \in ExecPCs /\ "failed" \in TaskStates
    BY DEF ExecPCs, TaskStates
<1>2. QED  BY <1>1, LeaveType, TaskType DEF Abandon

LEMMA WorkerGotoType ==
    ASSUME worker \in [Workers -> WorkerRecords], NEW w \in Workers,
           NEW pc \in WorkerPCs, WorkerGoto(w, pc)
    PROVE  worker' \in [Workers -> WorkerRecords]
<1>1. NoSnapshot \in Snapshots /\ NoReservation \in Reservations
    BY DEF NoSnapshot, Snapshots, NoReservation, Reservations
<1>2. QED  BY <1>1 DEF WorkerGoto, WorkerRecords

LEMMA SetOperationType ==
    ASSUME op \in Operations, NEW state \in OperationStates, SetOperation(state)
    PROVE  op' \in Operations
<1>1. op.version \in Nat  BY DEF Operations
<1>2. op.version + 1 \in Nat  BY <1>1
<1>3. QED  BY <1>2 DEF SetOperation, Operations

LEMMA PendingStateType ==
    ASSUME NEW kind PROVE  PendingState(kind) \in OperationStates
    BY DEF PendingState, OperationStates

LEMMA EnqueueTxType ==
    ASSUME op \in Operations, outbox \in Events, NEW kind \in Kinds,
           NEW expected \in Nat, EnqueueTx(kind, expected)
    PROVE  op' \in Operations /\ outbox' \in Events
<1>1. CASE UNCHANGED <<op, outbox>>  BY <1>1
<1>2. CASE /\ outbox' = [outbox EXCEPT !.status = "pending", !.kind = kind,
                                       !.expected = expected]
           /\ SetOperation(PendingState(kind))
    <2>1. op' \in Operations  BY <1>2, SetOperationType, PendingStateType
    <2>2. outbox' \in Events  BY <1>2 DEF Events
    <2>3. QED  BY <2>1, <2>2
<1>3. QED  BY <1>1, <1>2 DEF EnqueueTx

LEMMA MarkReconciliationType ==
    ASSUME op \in Operations, NEW version \in Nat, MarkReconciliation(version)
    PROVE  op' \in Operations
<1>1. "reconciliation_required" \in OperationStates  BY DEF OperationStates
<1>2. QED  BY <1>1, SetOperationType DEF MarkReconciliation

-----------------------------------------------------------------------------
(* Every action keeps the types; one lemma per action. *)

LEMMA FunctionsType ==
    ASSUME TypeOK
    PROVE  /\ \A e \in Execs : exec[e] \in ExecRecords /\ task[e] \in TaskRecords
           /\ \A w \in Workers : worker[w] \in WorkerRecords
    BY DEF TypeOK

LEMMA CreateIntentType ==
    ASSUME TypeOK, NEW e \in Execs, CreateIntent(e) PROVE TypeOK'
<1>1. op' \in Operations
    BY DEF TypeOK, CreateIntent, Operations, OperationStates
<1>2. [version |-> op'.version, rver |-> op'.rver] \in Snapshots
    BY <1>1 DEF Operations, Snapshots
<1>3. exec' \in [Execs -> ExecRecords]
    BY <1>2 DEF TypeOK, CreateIntent, ExecRecords, ExecPCs
<1>4. QED  BY <1>1, <1>3 DEF TypeOK, CreateIntent, remoteVars, netVars

LEMMA GetOperationType ==
    ASSUME TypeOK, NEW e \in Execs, GetOperation(e) PROVE TypeOK'
<1>1. exec' \in [Execs -> ExecRecords]
    <2>1. CASE exec' = [exec EXCEPT ![e].pc = "bind", ![e].got = Remote]
        BY <2>1, ReadsType, ExecAnswerType DEF TypeOK, ExecPCs
    <2>2. CASE Goto(e, "reserve") \/ Leave(e, "ended")
        BY <2>2, GotoType, LeaveType DEF TypeOK, ExecPCs
    <2>3. QED  BY <2>1, <2>2 DEF GetOperation
<1>2. QED  BY <1>1 DEF TypeOK, GetOperation, storeVars, remoteVars, netVars

LEMMA SendReserveType ==
    ASSUME TypeOK, NEW e \in Execs, SendReserve(e) PROVE TypeOK'
    BY GotoType DEF TypeOK, SendReserve, storeVars, remoteVars, ExecPCs

LEMMA ReserveAnswerType ==
    ASSUME TypeOK, NEW e \in Execs, ReserveAnswer(e) PROVE TypeOK'
<1>1. exec' \in [Execs -> ExecRecords]
    <2>1. CASE exec' = [exec EXCEPT ![e].pc = "bind", ![e].got = Remote]
        BY <2>1, ReadsType, ExecAnswerType DEF TypeOK, ExecPCs
    <2>2. CASE Goto(e, "requery") \/ Leave(e, "ended")
        BY <2>2, GotoType, LeaveType DEF TypeOK, ExecPCs
    <2>3. QED  BY <2>1, <2>2 DEF ReserveAnswer
<1>2. QED  BY <1>1 DEF TypeOK, ReserveAnswer, storeVars, remoteVars, netVars

LEMMA BindReservationType ==
    ASSUME TypeOK, NEW e \in Execs, BindReservation(e) PROVE TypeOK'
<1>1. exec[e].got.ver \in Nat
    BY FunctionsType DEF ExecRecords, Reservations
<1>2. op' \in Operations
    BY <1>1, RemoteVersionType DEF TypeOK, BindReservation, OperationStates
<1>3. exec' \in [Execs -> ExecRecords]
    BY LeaveType DEF TypeOK, BindReservation, ExecPCs
<1>4. QED  BY <1>2, <1>3 DEF TypeOK, BindReservation, remoteVars, netVars

LEMMA CreateJobType ==
    ASSUME TypeOK, NEW e \in Execs, CreateJob(e) PROVE TypeOK'
    BY TaskType DEF TypeOK, CreateJob, storeVars, remoteVars, netVars, TaskStates

LEMMA GiveUpType ==
    ASSUME TypeOK, NEW e \in Execs, GiveUp(e) PROVE TypeOK'
    BY AbandonType DEF TypeOK, GiveUp, storeVars, remoteVars, netVars

LEMMA BeforeSupplierRequestType ==
    ASSUME TypeOK, NEW e \in Execs, BeforeSupplierRequest(e) PROVE TypeOK'
<1>1. exec' \in [Execs -> ExecRecords] /\ task' \in [Execs -> TaskRecords]
    <2>1. CASE Abandon(e)  BY <2>1, AbandonType DEF TypeOK
    <2>2. CASE /\ exec' = [exec EXCEPT ![e].pc = "claim", ![e].attempted = TRUE,
                                       ![e].seen = Snapshot]
               /\ UNCHANGED task
        BY <2>2, ReadsType, ExecAttemptType DEF TypeOK, ExecPCs
    <2>3. QED  BY <2>1, <2>2 DEF BeforeSupplierRequest
<1>2. QED  BY <1>1 DEF TypeOK, BeforeSupplierRequest, storeVars, remoteVars, netVars

LEMMA ClaimDispatchType ==
    ASSUME TypeOK, NEW e \in Execs, ClaimDispatch(e) PROVE TypeOK'
<1>1. op' \in Operations
    <2>1. op.version + 1 \in Nat  BY DEF TypeOK, Operations
    <2>2. [op EXCEPT !.state = "dispatching", !.attempt = e, !.version = @ + 1]
            \in Operations
        BY <2>1 DEF TypeOK, Operations, OperationStates
    <2>3. QED  BY <2>2 DEF TypeOK, ClaimDispatch
<1>2. dispatchSent' \in SUBSET DispatchRequests
    <2>1. exec[e].seen.rver \in Nat  BY FunctionsType DEF ExecRecords, Snapshots
    <2>2. QED  BY <2>1 DEF TypeOK, ClaimDispatch, DispatchRequests
<1>3. exec' \in [Execs -> ExecRecords] /\ task' \in [Execs -> TaskRecords]
    BY GotoType, AbandonType DEF TypeOK, ClaimDispatch, ExecPCs
<1>4. QED  BY <1>1, <1>2, <1>3 DEF TypeOK, ClaimDispatch, remoteVars

LEMMA DispatchAnswerType ==
    ASSUME TypeOK, NEW e \in Execs, DispatchAnswer(e) PROVE TypeOK'
<1>1. exec' \in [Execs -> ExecRecords] /\ task' \in [Execs -> TaskRecords]
    <2>1. CASE Abandon(e)  BY <2>1, AbandonType DEF TypeOK
    <2>2. CASE /\ exec' = [exec EXCEPT ![e].pc = "confirm",
                    ![e].got = [state |-> "dispatched", ver |-> exec[e].seen.rver + 1]]
               /\ UNCHANGED task
        <3>1. exec[e].seen.rver \in Nat  BY FunctionsType DEF ExecRecords, Snapshots
        <3>2. [state |-> "dispatched", ver |-> exec[e].seen.rver + 1] \in Reservations
            BY <3>1 DEF Reservations
        <3>3. QED  BY <2>2, <3>2, ExecAnswerType DEF TypeOK, ExecPCs
    <2>3. QED  BY <2>1, <2>2 DEF DispatchAnswer
<1>2. QED  BY <1>1 DEF TypeOK, DispatchAnswer, storeVars, remoteVars, netVars

LEMMA ConfirmDispatchedType ==
    ASSUME TypeOK, NEW e \in Execs, ConfirmDispatched(e) PROVE TypeOK'
<1>1. exec[e].got.ver \in Nat
    BY FunctionsType DEF ExecRecords, Reservations
<1>2. op' \in Operations
    BY <1>1, RemoteVersionType DEF TypeOK, ConfirmDispatched, OperationStates
<1>3. exec' \in [Execs -> ExecRecords] /\ task' \in [Execs -> TaskRecords]
    BY LeaveType, AbandonType DEF TypeOK, ConfirmDispatched, ExecPCs
<1>4. permits' \in SUBSET Execs  BY DEF TypeOK, ConfirmDispatched
<1>5. QED  BY <1>2, <1>3, <1>4 DEF TypeOK, ConfirmDispatched, remoteVars, netVars

LEMMA SupplierAcceptedType ==
    ASSUME TypeOK, NEW e \in Execs, SupplierAccepted(e) PROVE TypeOK'
<1>1. task' \in [Execs -> TaskRecords]
    BY DEF TypeOK, SupplierAccepted, TaskRecords, TaskStates
<1>2. exec' \in [Execs -> ExecRecords]
    <2>1. (e \in MediaExecs) \in BOOLEAN  OBVIOUS
    <2>2. [exec EXCEPT ![e].pc = "finish", ![e].handedOff = e \in MediaExecs]
            \in [Execs -> ExecRecords]
        BY ZenonT(40), <2>1 DEF TypeOK, ExecRecords, ExecPCs
    <2>3. QED  BY <2>2 DEF SupplierAccepted
<1>3. QED  BY <1>1, <1>2 DEF TypeOK, SupplierAccepted, storeVars, remoteVars, netVars

LEMMA SupplierFailedType ==
    ASSUME TypeOK, NEW e \in Execs, SupplierFailed(e) PROVE TypeOK'
    BY AbandonType DEF TypeOK, SupplierFailed, storeVars, remoteVars, netVars

LEMMA FailoverType ==
    ASSUME TypeOK, NEW e \in Execs, Failover(e) PROVE TypeOK'
    BY LeaveType DEF TypeOK, Failover, storeVars, remoteVars, netVars, ExecPCs

LEMMA FinishType ==
    ASSUME TypeOK, NEW e \in Execs, Finish(e) PROVE TypeOK'
<1>1. exec' \in [Execs -> ExecRecords]
    BY ReadsType DEF TypeOK, Finish, ExecRecords, ExecPCs
<1>2. QED  BY <1>1 DEF TypeOK, Finish, storeVars, remoteVars, netVars

LEMMA FinishReleaseType ==
    ASSUME TypeOK, NEW e \in Execs, FinishRelease(e) PROVE TypeOK'
<1>1. exec[e].seen.rver \in Nat  BY FunctionsType DEF ExecRecords, Snapshots
<1>2. op' \in Operations /\ outbox' \in Events
    BY <1>1, EnqueueTxType DEF TypeOK, FinishRelease, Kinds
<1>3. exec' \in [Execs -> ExecRecords]
    BY LeaveType DEF TypeOK, FinishRelease, ExecPCs
<1>4. QED  BY <1>2, <1>3 DEF TypeOK, FinishRelease, remoteVars, netVars

LEMMA FinishMarkType ==
    ASSUME TypeOK, NEW e \in Execs, FinishMark(e) PROVE TypeOK'
<1>1. exec[e].seen.version \in Nat  BY FunctionsType DEF ExecRecords, Snapshots
<1>2. op' \in Operations
    BY <1>1, MarkReconciliationType DEF TypeOK, FinishMark
<1>3. exec' \in [Execs -> ExecRecords]
    BY LeaveType DEF TypeOK, FinishMark, ExecPCs
<1>4. QED  BY <1>2, <1>3 DEF TypeOK, FinishMark, remoteVars, netVars

LEMMA ExecCrashType ==
    ASSUME TypeOK, NEW e \in Execs, ExecCrash(e) PROVE TypeOK'
<1>1. exec' \in [Execs -> ExecRecords]
    BY LeaveType DEF TypeOK, ExecCrash, ExecPCs
<1>2. task' \in [Execs -> TaskRecords]
    BY TaskType DEF TypeOK, ExecCrash, TaskStates
<1>3. QED  BY <1>1, <1>2 DEF TypeOK, ExecCrash, storeVars, remoteVars, netVars

LEMMA JobReportType ==
    ASSUME TypeOK, NEW e \in Execs, JobReport(e) PROVE TypeOK'
<1>1. task' \in [Execs -> TaskRecords]
    <2>1. PICK st \in {"usage", "failed"} : task' = [task EXCEPT ![e].st = st]
        BY DEF JobReport
    <2>2. st \in TaskStates  BY DEF TaskStates
    <2>3. QED  BY <2>1, <2>2, TaskType DEF TypeOK
<1>2. QED  BY <1>1 DEF TypeOK, JobReport, storeVars, remoteVars, netVars

LEMMA ReconcileFailureType ==
    ASSUME TypeOK, NEW e \in Execs, ReconcileFailure(e) PROVE TypeOK'
<1>1. task' \in [Execs -> TaskRecords]
    BY ReadsType DEF TypeOK, ReconcileFailure, TaskRecords, TaskStates
<1>2. QED  BY <1>1 DEF TypeOK, ReconcileFailure, storeVars, remoteVars, netVars

LEMMA ReconcileFailureMarkType ==
    ASSUME TypeOK, NEW e \in Execs, ReconcileFailureMark(e) PROVE TypeOK'
<1>1. task[e].seen.version \in Nat  BY FunctionsType DEF TaskRecords, Snapshots
<1>2. op' \in Operations
    BY <1>1, MarkReconciliationType DEF TypeOK, ReconcileFailureMark
<1>3. task' \in [Execs -> TaskRecords]
    BY TaskType DEF TypeOK, ReconcileFailureMark, TaskStates
<1>4. QED  BY <1>2, <1>3 DEF TypeOK, ReconcileFailureMark, remoteVars, netVars

LEMMA AttachUsageType ==
    ASSUME TypeOK, NEW e \in Execs, AttachUsage(e) PROVE TypeOK'
<1>1. [version |-> op.version,
       rver |-> IF outbox.status = "none" THEN op.rver ELSE outbox.expected]
         \in Snapshots
    BY DEF TypeOK, Operations, Events, Snapshots
<1>2. task' \in [Execs -> TaskRecords]
    BY <1>1 DEF TypeOK, AttachUsage, TaskRecords, TaskStates
<1>3. QED  BY <1>2 DEF TypeOK, AttachUsage, storeVars, remoteVars, netVars

LEMMA ApplyUsageType ==
    ASSUME TypeOK, NEW e \in Execs, ApplyUsage(e) PROVE TypeOK'
<1>1. task[e].seen.rver \in Nat  BY FunctionsType DEF TaskRecords, Snapshots
<1>2. op' \in Operations /\ outbox' \in Events
    BY <1>1, EnqueueTxType DEF TypeOK, ApplyUsage, Kinds
<1>3. task' \in [Execs -> TaskRecords]
    BY DEF TypeOK, ApplyUsage, TaskRecords, TaskStates
<1>4. QED  BY <1>2, <1>3 DEF TypeOK, ApplyUsage, remoteVars, netVars

LEMMA TaskCrashType ==
    ASSUME TypeOK, NEW e \in Execs, TaskCrash(e) PROVE TypeOK'
<1>1. task' \in [Execs -> TaskRecords]
    BY DEF TypeOK, TaskCrash, TaskRecords, TaskStates
<1>2. QED  BY <1>1 DEF TypeOK, TaskCrash, storeVars, remoteVars, netVars

LEMMA PendingReconciliationsType ==
    ASSUME TypeOK, NEW w \in Workers, PendingReconciliations(w) PROVE TypeOK'
<1>1. worker' \in [Workers -> WorkerRecords]
    BY ReadsType DEF TypeOK, PendingReconciliations, WorkerRecords, WorkerPCs
<1>2. QED  BY <1>1 DEF TypeOK, PendingReconciliations, WorkerFrame, storeVars, remoteVars

LEMMA FetchResolutionType ==
    ASSUME TypeOK, NEW w \in Workers, FetchResolution(w) PROVE TypeOK'
<1>1. worker' \in [Workers -> WorkerRecords]
    BY DEF TypeOK, FetchResolution, WorkerRecords, WorkerPCs
<1>2. QED  BY <1>1 DEF TypeOK, FetchResolution, WorkerFrame, storeVars, remoteVars

LEMMA NothingToReconcileType ==
    ASSUME TypeOK, NEW w \in Workers, NothingToReconcile(w) PROVE TypeOK'
    BY WorkerGotoType
    DEF TypeOK, NothingToReconcile, WorkerFrame, storeVars, remoteVars, WorkerPCs

\* What a worker applies is an operator's decision, hence a final state.
Decisions ==
    /\ case.state \in Terminal \cup {"none"}
    /\ \A w \in Workers : worker[w].pc = "apply" => worker[w].got.state \in Terminal

LEMMA ApplyReconciliationType ==
    ASSUME TypeOK, Decisions, NEW w \in Workers, ApplyReconciliation(w) PROVE TypeOK'
<1>1. worker' \in [Workers -> WorkerRecords]
    BY WorkerGotoType DEF TypeOK, ApplyReconciliation, WorkerPCs
<1>2. worker[w].got.ver \in Nat /\ worker[w].got.state \in OperationStates
    BY FunctionsType
    DEF Decisions, ApplyReconciliation, WorkerRecords, Reservations, Terminal,
        OperationStates
<1>3. op' \in Operations
    <2>1. \/ op' = [op EXCEPT !.state = worker[w].got.state, !.version = @ + 1,
                             !.rver = worker[w].got.ver]
          \/ op' = op
        BY DEF ApplyReconciliation, storeVars
    <2>2. [op EXCEPT !.state = worker[w].got.state, !.version = @ + 1,
                     !.rver = worker[w].got.ver] \in Operations
        BY <1>2, RemoteVersionType DEF TypeOK
    <2>3. QED  BY <2>1, <2>2 DEF TypeOK
<1>4. outbox' \in Events
    BY DEF TypeOK, ApplyReconciliation, storeVars, Events
<1>5. receipt' \in BOOLEAN
    BY DEF TypeOK, ApplyReconciliation, storeVars
<1>6. QED
    BY <1>1, <1>3, <1>4, <1>5 DEF TypeOK, ApplyReconciliation, WorkerFrame, remoteVars

LEMMA ClaimType ==
    ASSUME TypeOK, NEW w \in Workers, Claim(w) PROVE TypeOK'
<1>1. outbox' \in Events  BY DEF TypeOK, Claim, Events
<1>2. worker' \in [Workers -> WorkerRecords]
    BY WorkerGotoType DEF TypeOK, Claim, WorkerPCs
<1>3. QED  BY <1>1, <1>2 DEF TypeOK, Claim, WorkerFrame, remoteVars

LEMMA NothingToClaimType ==
    ASSUME TypeOK, NEW w \in Workers, NothingToClaim(w) PROVE TypeOK'
    BY WorkerGotoType
    DEF TypeOK, NothingToClaim, WorkerFrame, storeVars, remoteVars, WorkerPCs

LEMMA DeliveryConfirmedType ==
    ASSUME TypeOK, NEW w \in Workers, DeliveryConfirmed(w) PROVE TypeOK'
<1>1. worker' \in [Workers -> WorkerRecords]
    BY ReadsType DEF TypeOK, DeliveryConfirmed, WorkerRecords, WorkerPCs
<1>2. QED  BY <1>1 DEF TypeOK, DeliveryConfirmed, WorkerFrame, storeVars, remoteVars

LEMMA CompleteType ==
    ASSUME TypeOK, NEW w \in Workers, Complete(w) PROVE TypeOK'
<1>1. worker' \in [Workers -> WorkerRecords]
    BY WorkerGotoType DEF TypeOK, Complete, WorkerPCs
<1>2. worker[w].got.ver \in Nat /\ TargetState(outbox.kind) \in OperationStates
    BY FunctionsType DEF WorkerRecords, Reservations, TargetState, OperationStates
<1>3. op' \in Operations
    <2>1. \/ op' = [op EXCEPT !.state = TargetState(outbox.kind), !.version = @ + 1,
                             !.rver = worker[w].got.ver]
          \/ op' = op
        BY DEF Complete
    <2>2. [op EXCEPT !.state = TargetState(outbox.kind), !.version = @ + 1,
                     !.rver = worker[w].got.ver] \in Operations
        BY <1>2, RemoteVersionType DEF TypeOK
    <2>3. QED  BY <2>1, <2>2 DEF TypeOK
<1>4. outbox' \in Events  BY DEF TypeOK, Complete, Events
<1>5. QED  BY <1>1, <1>3, <1>4 DEF TypeOK, Complete, WorkerFrame, remoteVars

LEMMA RetryType ==
    ASSUME TypeOK, NEW w \in Workers, NEW permanent \in BOOLEAN, Retry(w, permanent)
    PROVE  TypeOK'
<1>1. worker' \in [Workers -> WorkerRecords]
    BY WorkerGotoType DEF TypeOK, Retry, WorkerPCs
<1>2. op' \in Operations
    BY SetOperationType DEF TypeOK, Retry, OperationStates
<1>3. outbox' \in Events  BY ZenonT(40) DEF TypeOK, Retry, Events
<1>4. QED  BY <1>1, <1>2, <1>3 DEF TypeOK, Retry, WorkerFrame, remoteVars

LEMMA WorkerCrashType ==
    ASSUME TypeOK, NEW w \in Workers, WorkerCrash(w) PROVE TypeOK'
    BY WorkerGotoType
    DEF TypeOK, WorkerCrash, WorkerFrame, storeVars, remoteVars, WorkerPCs

LEMMA LeaseExpiresType == ASSUME TypeOK, LeaseExpires PROVE TypeOK'
<1>1. outbox' \in Events  BY DEF TypeOK, LeaseExpires, Events
<1>2. QED  BY <1>1 DEF TypeOK, LeaseExpires, remoteVars, netVars

LEMMA ReplayType == ASSUME TypeOK, Replay PROVE TypeOK'
<1>1. outbox' \in Events  BY DEF TypeOK, Replay, Events
<1>2. QED  BY <1>1 DEF TypeOK, Replay, remoteVars, netVars

LEMMA AuthorityStepType == ASSUME TypeOK, AuthorityStep PROVE TypeOK'
<1>0. auth.ver + 1 \in Nat  BY DEF TypeOK, Accounts
<1>1. CASE AuthorityReserve
    <2>1. auth' \in Accounts  BY <1>1 DEF TypeOK, AuthorityReserve, Accounts
    <2>2. QED  BY <1>1, <2>1 DEF TypeOK, AuthorityReserve, AuthorityFrame, storeVars, netVars
<1>2. CASE AuthorityTerminal
    <2>1. TargetState(outbox.kind) \in Terminal  BY DEF TargetState, Terminal
    <2>2. auth' \in Accounts
        BY <1>0, <1>2, <2>1 DEF TypeOK, AuthorityTerminal, Accounts
    <2>3. QED  BY <1>2, <2>2 DEF TypeOK, AuthorityTerminal, AuthorityFrame, storeVars, netVars
<1>3. CASE AuthorityExpire
    <2>1. auth' \in Accounts
        BY <1>0, <1>3 DEF TypeOK, AuthorityExpire, Accounts, Terminal
    <2>2. QED  BY <1>3, <2>1 DEF TypeOK, AuthorityExpire, AuthorityFrame, storeVars, netVars
<1>4. CASE AdminResolve
    <2>1. PICK state \in Terminal :
            /\ auth' = [auth EXCEPT !.state = state, !.ver = @ + 1, !.by = "admin"]
            /\ case' = [state |-> state, ver |-> auth.ver + 1]
        BY <1>4 DEF AdminResolve
    <2>2. auth' \in Accounts  BY <1>0, <2>1 DEF TypeOK, Accounts
    <2>3. case' \in Reservations  BY <1>0, <2>1 DEF Reservations
    <2>4. QED  BY <1>4, <2>2, <2>3 DEF TypeOK, AdminResolve, AuthorityFrame, storeVars, netVars
<1>5. ASSUME NEW m \in dispatchSent, AuthorityDispatch(m) PROVE TypeOK'
    <2>1. m.attempt \in Execs  BY <1>5 DEF TypeOK, DispatchRequests
    <2>2. auth' \in Accounts  BY <1>0, <1>5, <2>1 DEF TypeOK, AuthorityDispatch, Accounts
    <2>3. QED  BY <1>5, <2>2 DEF TypeOK, AuthorityDispatch, AuthorityFrame, storeVars, netVars
<1>6. QED  BY <1>1, <1>2, <1>3, <1>4, <1>5 DEF AuthorityStep

LEMMA InitType == ASSUME Init PROVE TypeOK
<1>1. NoSnapshot \in Snapshots /\ NoReservation \in Reservations
    BY DEF NoSnapshot, Snapshots, NoReservation, Reservations
<1>2. op \in Operations /\ outbox \in Events /\ auth \in Accounts
    BY DEF Init, Operations, OperationStates, Events, Kinds, Accounts
<1>3. exec \in [Execs -> ExecRecords]
    BY <1>1 DEF Init, ExecRecords, ExecPCs
<1>4. task \in [Execs -> TaskRecords]
    BY <1>1 DEF Init, TaskRecords, TaskStates
<1>5. worker \in [Workers -> WorkerRecords]
    BY <1>1 DEF Init, WorkerRecords, WorkerPCs
<1>6. QED  BY <1>1, <1>2, <1>3, <1>4, <1>5 DEF Init, TypeOK

LEMMA NextType == ASSUME TypeOK, Decisions, [Next]_vars PROVE TypeOK'
<1>1. ASSUME NEW e \in Execs, ExecStep(e) PROVE TypeOK'
    BY <1>1, CreateIntentType, GetOperationType, SendReserveType, ReserveAnswerType,
       BindReservationType, CreateJobType, GiveUpType, BeforeSupplierRequestType,
       ClaimDispatchType, DispatchAnswerType, ConfirmDispatchedType,
       SupplierAcceptedType, SupplierFailedType, FailoverType, FinishType,
       FinishReleaseType, FinishMarkType, ExecCrashType DEF ExecStep
<1>2. ASSUME NEW e \in Execs, TaskStep(e) PROVE TypeOK'
    BY <1>2, JobReportType, ReconcileFailureType, ReconcileFailureMarkType,
       AttachUsageType, ApplyUsageType, TaskCrashType DEF TaskStep
<1>3. ASSUME NEW w \in Workers, WorkerStep(w) PROVE TypeOK'
    BY <1>3, PendingReconciliationsType, FetchResolutionType, NothingToReconcileType,
       ApplyReconciliationType, ClaimType, NothingToClaimType, DeliveryConfirmedType,
       CompleteType, RetryType, WorkerCrashType DEF WorkerStep
<1>4. CASE UNCHANGED vars
    BY <1>4 DEF TypeOK, vars, storeVars, remoteVars, netVars
<1>5. QED
    BY <1>1, <1>2, <1>3, <1>4, LeaseExpiresType, ReplayType, AuthorityStepType DEF Next

-----------------------------------------------------------------------------
(* At most one permit.                                                      *)
(* Before ClaimDispatch nothing was put on the wire, and it can succeed only *)
(* once because nothing ever leads back to reserved. So every Dispatch       *)
(* request, hence everything the authority dispatched, hence every permit,   *)
(* names the one attempt stored in the row.                                  *)

Undispatched == {"absent", "intent", "reserved"}

PermitInv ==
    /\ op.state \in Undispatched => dispatchSent = {}
    /\ \A m \in dispatchSent : m.attempt = op.attempt
    /\ \A e \in auth.attempts : \E m \in dispatchSent : m.attempt = e
    /\ \A e \in Execs : exec[e].pc = "confirm" => e \in auth.attempts
    /\ permits \subseteq auth.attempts

Inv == TypeOK /\ Decisions /\ PermitInv

LEMMA InvImpliesOnePermit == ASSUME PermitInv PROVE OnePermit
    BY DEF PermitInv, OnePermit

\* What most steps leave alone, and why that is enough.
Quiet ==
    /\ UNCHANGED <<dispatchSent, permits>>
    /\ auth'.attempts = auth.attempts
    /\ op'.attempt = op.attempt
    /\ op'.state \in Undispatched => op.state \in Undispatched
    /\ \A e \in Execs : exec'[e].pc = "confirm" => exec[e].pc = "confirm"

LEMMA QuietKeepsPermitInv == ASSUME PermitInv, Quiet PROVE PermitInv'
    BY DEF PermitInv, Quiet

\* The helpers never lead back to an undispatched row, nor to confirm.
LEMMA SetOperationQuiet ==
    ASSUME op \in Operations, NEW state \in OperationStates \ Undispatched,
           SetOperation(state)
    PROVE  op'.attempt = op.attempt /\ op'.state \notin Undispatched
    BY DEF SetOperation, Operations

LEMMA EnqueueTxQuiet ==
    ASSUME op \in Operations, NEW kind, NEW expected, EnqueueTx(kind, expected)
    PROVE  /\ op'.attempt = op.attempt
           /\ op'.state \in Undispatched => op.state \in Undispatched
<1>1. PendingState(kind) \in OperationStates \ Undispatched
    BY DEF PendingState, OperationStates, Undispatched
<1>2. QED  BY <1>1, SetOperationQuiet DEF EnqueueTx

LEMMA MarkReconciliationQuiet ==
    ASSUME op \in Operations, NEW version, MarkReconciliation(version)
    PROVE  /\ op'.attempt = op.attempt
           /\ op'.state \in Undispatched => op.state \in Undispatched
<1>1. "reconciliation_required" \in OperationStates \ Undispatched
    BY DEF OperationStates, Undispatched
<1>2. QED  BY <1>1, SetOperationQuiet DEF MarkReconciliation

LEMMA GotoQuiet ==
    ASSUME exec \in [Execs -> ExecRecords], NEW e \in Execs, NEW pc,
           pc # "confirm", Goto(e, pc) \/ Leave(e, pc)
    PROVE  \A x \in Execs : exec'[x].pc = "confirm" => exec[x].pc = "confirm"
    BY DEF Goto, Leave, ExecRecords

LEMMA AbandonQuiet ==
    ASSUME exec \in [Execs -> ExecRecords], NEW e \in Execs, Abandon(e)
    PROVE  \A x \in Execs : exec'[x].pc = "confirm" => exec[x].pc = "confirm"
    BY GotoQuiet DEF Abandon

LEMMA QuietExecSteps ==
    ASSUME TypeOK, NEW e \in Execs,
           \/ CreateIntent(e) \/ GetOperation(e) \/ SendReserve(e)
           \/ ReserveAnswer(e) \/ BindReservation(e) \/ CreateJob(e) \/ GiveUp(e)
           \/ BeforeSupplierRequest(e) \/ SupplierAccepted(e) \/ SupplierFailed(e)
           \/ Failover(e) \/ Finish(e) \/ FinishRelease(e) \/ FinishMark(e)
           \/ ExecCrash(e)
    PROVE  Quiet
<1> USE DEF TypeOK, Quiet, storeVars, remoteVars, netVars
<1>1. CASE CreateIntent(e)
    BY <1>1 DEF CreateIntent, Operations, ExecRecords, Undispatched
<1>2. CASE GetOperation(e)
    BY <1>2, GotoQuiet DEF GetOperation, ExecRecords
<1>3. CASE SendReserve(e)  BY <1>3, GotoQuiet DEF SendReserve
<1>4. CASE ReserveAnswer(e)
    BY <1>4, GotoQuiet DEF ReserveAnswer, ExecRecords
<1>5. CASE BindReservation(e)
    BY <1>5, GotoQuiet DEF BindReservation, Operations, Undispatched
<1>6. CASE CreateJob(e)  BY <1>6 DEF CreateJob
<1>7. CASE GiveUp(e)  BY <1>7, AbandonQuiet DEF GiveUp
<1>8. CASE BeforeSupplierRequest(e)
    BY <1>8, AbandonQuiet DEF BeforeSupplierRequest, ExecRecords
<1>9. CASE SupplierAccepted(e)  BY <1>9 DEF SupplierAccepted, ExecRecords
<1>10. CASE SupplierFailed(e)  BY <1>10, AbandonQuiet DEF SupplierFailed
<1>11. CASE Failover(e)  BY <1>11, GotoQuiet DEF Failover
<1>12. CASE Finish(e)  BY <1>12 DEF Finish, ExecRecords
<1>13. CASE FinishRelease(e)
    BY <1>13, GotoQuiet, EnqueueTxQuiet DEF FinishRelease
<1>14. CASE FinishMark(e)
    BY <1>14, GotoQuiet, MarkReconciliationQuiet DEF FinishMark
<1>15. CASE ExecCrash(e)  BY <1>15, GotoQuiet DEF ExecCrash
<1>16. QED
    BY <1>1, <1>2, <1>3, <1>4, <1>5, <1>6, <1>7, <1>8, <1>9, <1>10, <1>11, <1>12,
       <1>13, <1>14, <1>15

LEMMA QuietTaskSteps ==
    ASSUME TypeOK, NEW e \in Execs, TaskStep(e) PROVE Quiet
<1> USE DEF TypeOK, Quiet, storeVars, remoteVars, netVars
<1>1. CASE JobReport(e)  BY <1>1 DEF JobReport
<1>2. CASE ReconcileFailure(e)  BY <1>2 DEF ReconcileFailure
<1>3. CASE ReconcileFailureMark(e)
    BY <1>3, MarkReconciliationQuiet DEF ReconcileFailureMark
<1>4. CASE AttachUsage(e)  BY <1>4 DEF AttachUsage
<1>5. CASE ApplyUsage(e)  BY <1>5, EnqueueTxQuiet DEF ApplyUsage
<1>6. CASE TaskCrash(e)  BY <1>6 DEF TaskCrash
<1>7. QED  BY <1>1, <1>2, <1>3, <1>4, <1>5, <1>6 DEF TaskStep

LEMMA QuietWorkerSteps ==
    ASSUME TypeOK, Decisions, NEW w \in Workers, WorkerStep(w) PROVE Quiet
<1> USE DEF TypeOK, Quiet, storeVars, remoteVars, WorkerFrame
<1>1. CASE PendingReconciliations(w)  BY <1>1 DEF PendingReconciliations
<1>2. CASE FetchResolution(w)  BY <1>2 DEF FetchResolution
<1>3. CASE NothingToReconcile(w)  BY <1>3 DEF NothingToReconcile
<1>4. CASE ApplyReconciliation(w)
    <2>1. worker[w].got.state \notin Undispatched
        BY <1>4 DEF ApplyReconciliation, Decisions, Terminal, Undispatched
    <2>2. QED  BY <1>4, <2>1 DEF ApplyReconciliation, Operations
<1>5. CASE Claim(w)  BY <1>5 DEF Claim
<1>6. CASE NothingToClaim(w)  BY <1>6 DEF NothingToClaim
<1>7. CASE DeliveryConfirmed(w)  BY <1>7 DEF DeliveryConfirmed
<1>8. CASE Complete(w)
    <2>1. TargetState(outbox.kind) \notin Undispatched
        BY DEF TargetState, Undispatched
    <2>2. QED  BY <1>8, <2>1 DEF Complete, Operations
<1>9. ASSUME NEW permanent \in BOOLEAN, Retry(w, permanent) PROVE Quiet
    <2>1. "reconciliation_required" \in OperationStates \ Undispatched
        BY DEF OperationStates, Undispatched
    <2>2. QED  BY <1>9, <2>1, SetOperationQuiet DEF Retry
<1>10. CASE WorkerCrash(w)  BY <1>10 DEF WorkerCrash
<1>11. QED
    BY <1>1, <1>2, <1>3, <1>4, <1>5, <1>6, <1>7, <1>8, <1>9, <1>10 DEF WorkerStep

LEMMA ClaimDispatchPermit ==
    ASSUME TypeOK, PermitInv, NEW e \in Execs, ClaimDispatch(e) PROVE PermitInv'
<1>1. CASE op.state = "reserved" /\ op.version = exec[e].seen.version
    <2>1. dispatchSent = {} /\ auth.attempts = {} /\ permits = {}
        BY <1>1 DEF PermitInv, Undispatched
    <2>2. /\ op'.state = "dispatching" /\ op'.attempt = e
          /\ dispatchSent' = {[attempt |-> e, expected |-> exec[e].seen.rver]}
        BY <1>1, <2>1 DEF TypeOK, ClaimDispatch, Operations
    <2>3. \A x \in Execs : exec'[x].pc # "confirm"
        <3>1. Goto(e, "dispatching")  BY <1>1 DEF ClaimDispatch
        <3>2. QED  BY <2>1, <3>1, GotoQuiet DEF TypeOK, PermitInv
    <2>4. auth' = auth /\ permits' = permits
        BY DEF ClaimDispatch, remoteVars
    <2>5. QED  BY <2>1, <2>2, <2>3, <2>4 DEF PermitInv, Undispatched
<1>2. CASE ~(op.state = "reserved" /\ op.version = exec[e].seen.version)
    <2>1. Quiet
        BY <1>2, AbandonQuiet DEF TypeOK, Quiet, ClaimDispatch, remoteVars
    <2>2. QED  BY <2>1, QuietKeepsPermitInv
<1>3. QED  BY <1>1, <1>2

LEMMA DispatchAnswerPermit ==
    ASSUME TypeOK, PermitInv, NEW e \in Execs, DispatchAnswer(e) PROVE PermitInv'
<1>1. UNCHANGED <<op, dispatchSent, permits, auth>>
    BY DEF DispatchAnswer, storeVars, remoteVars, netVars
<1>2. \A x \in Execs : exec'[x].pc = "confirm" => x \in auth.attempts
    <2>1. CASE Abandon(e)  BY <2>1, AbandonQuiet DEF TypeOK, PermitInv
    <2>2. CASE e \in auth.attempts /\ ~Abandon(e)
        BY <2>2 DEF TypeOK, PermitInv, DispatchAnswer, ExecRecords
    <2>3. QED  BY <2>1, <2>2 DEF DispatchAnswer
<1>3. QED  BY <1>1, <1>2 DEF PermitInv

LEMMA ConfirmDispatchedPermit ==
    ASSUME TypeOK, PermitInv, NEW e \in Execs, ConfirmDispatched(e) PROVE PermitInv'
<1>1. e \in auth.attempts
    BY DEF PermitInv, ConfirmDispatched
<1>2. /\ UNCHANGED <<dispatchSent, auth>>
      /\ permits' \subseteq permits \cup {e}
    BY DEF ConfirmDispatched, remoteVars, netVars
<1>3. /\ op'.attempt = op.attempt
      /\ op'.state \in Undispatched => op.state \in Undispatched
    BY DEF TypeOK, ConfirmDispatched, Operations, Undispatched
<1>4. \A x \in Execs : exec'[x].pc = "confirm" => exec[x].pc = "confirm"
    BY GotoQuiet, AbandonQuiet DEF TypeOK, ConfirmDispatched
<1>5. QED  BY <1>1, <1>2, <1>3, <1>4 DEF PermitInv

LEMMA AuthorityPermit ==
    ASSUME TypeOK, PermitInv, AuthorityStep PROVE PermitInv'
<1>1. UNCHANGED <<op, dispatchSent, permits, exec>>
    BY DEF AuthorityStep, AuthorityReserve, AuthorityTerminal, AuthorityExpire,
           AdminResolve, AuthorityDispatch, AuthorityFrame, storeVars, netVars
<1>2. ASSUME NEW m \in dispatchSent, AuthorityDispatch(m) PROVE PermitInv'
    <2>1. auth'.attempts = auth.attempts \cup {m.attempt}
        BY <1>2 DEF TypeOK, AuthorityDispatch, Accounts
    <2>2. QED  BY <1>1, <2>1 DEF PermitInv
<1>3. CASE AuthorityReserve \/ AuthorityTerminal \/ AuthorityExpire \/ AdminResolve
    <2>1. auth'.attempts = auth.attempts
        BY <1>3 DEF TypeOK, AuthorityReserve, AuthorityTerminal, AuthorityExpire,
                    AdminResolve, Accounts
    <2>2. QED  BY <1>1, <2>1 DEF PermitInv
<1>4. QED  BY <1>2, <1>3 DEF AuthorityStep

LEMMA NextPermit == ASSUME TypeOK, Decisions, PermitInv, [Next]_vars PROVE PermitInv'
<1>1. ASSUME NEW e \in Execs, ExecStep(e) PROVE PermitInv'
    BY <1>1, QuietExecSteps, QuietKeepsPermitInv, ClaimDispatchPermit,
       DispatchAnswerPermit, ConfirmDispatchedPermit DEF ExecStep
<1>2. ASSUME NEW e \in Execs, TaskStep(e) PROVE PermitInv'
    BY <1>2, QuietTaskSteps, QuietKeepsPermitInv
<1>3. ASSUME NEW w \in Workers, WorkerStep(w) PROVE PermitInv'
    BY <1>3, QuietWorkerSteps, QuietKeepsPermitInv
<1>4. CASE LeaseExpires \/ Replay \/ UNCHANGED vars
    BY <1>4 DEF PermitInv, LeaseExpires, Replay, vars, storeVars, remoteVars, netVars
<1>5. QED  BY <1>1, <1>2, <1>3, <1>4, AuthorityPermit DEF Next

LEMMA NextDecisions == ASSUME TypeOK, Decisions, [Next]_vars PROVE Decisions'
<1>1. CASE UNCHANGED <<case, worker>>  BY <1>1 DEF Decisions
<1>2. CASE AdminResolve
    BY <1>2 DEF Decisions, AdminResolve, AuthorityFrame
<1>3. ASSUME NEW w \in Workers, WorkerStep(w) PROVE Decisions'
    <2>1. case' = case
        BY <1>3 DEF WorkerStep, PendingReconciliations, FetchResolution,
             NothingToReconcile, ApplyReconciliation, Claim, NothingToClaim,
             DeliveryConfirmed, Complete, Retry, WorkerCrash, WorkerFrame, remoteVars
    <2>2. CASE FetchResolution(w)
        BY <2>1, <2>2 DEF TypeOK, Decisions, FetchResolution, WorkerRecords
    <2>3. CASE ~FetchResolution(w)
        <3>1. CASE PendingReconciliations(w) \/ DeliveryConfirmed(w)
            BY <2>1, <3>1
            DEF TypeOK, Decisions, PendingReconciliations, DeliveryConfirmed, WorkerRecords
        <3>2. CASE ~(PendingReconciliations(w) \/ DeliveryConfirmed(w))
            <4>1. \E pc \in WorkerPCs \ {"apply"} : WorkerGoto(w, pc)
                BY <1>3, <2>3, <3>2
                DEF WorkerStep, NothingToReconcile, ApplyReconciliation, Claim,
                    NothingToClaim, Complete, Retry, WorkerCrash, WorkerPCs
            <4>2. QED  BY <2>1, <4>1 DEF TypeOK, Decisions, WorkerGoto, WorkerRecords
        <3>3. QED  BY <3>1, <3>2
    <2>4. QED  BY <2>2, <2>3
<1>4. QED
    BY ZenonT(40), <1>1, <1>2, <1>3
    DEF Next, ExecStep, TaskStep, AuthorityStep, vars, remoteVars, AuthorityFrame,
        CreateIntent, GetOperation, SendReserve, ReserveAnswer, BindReservation,
        CreateJob, GiveUp, BeforeSupplierRequest, ClaimDispatch, DispatchAnswer,
        ConfirmDispatched, SupplierAccepted, SupplierFailed, Failover, Finish,
        FinishRelease, FinishMark, ExecCrash, JobReport, ReconcileFailure,
        ReconcileFailureMark, AttachUsage, ApplyUsage, TaskCrash, LeaseExpires,
        Replay, AuthorityReserve, AuthorityDispatch, AuthorityTerminal, AuthorityExpire

LEMMA InitInv == ASSUME Init PROVE Inv
<1>1. Decisions /\ PermitInv
    BY DEF Init, Decisions, PermitInv, NoReservation, Terminal
<1>2. QED  BY <1>1, InitType DEF Inv

LEMMA NextInv == ASSUME Inv, [Next]_vars PROVE Inv'
    BY NextType, NextPermit, NextDecisions DEF Inv

\* The inductive invariant: types, what a decision may be, and who was
\* dispatched. The two results below are its consequences.
THEOREM InvHolds == Spec => []Inv
    BY InitInv, NextInv, PTL DEF Spec

\* The variables keep their types: the rows stay in the states the schema and
\* the Go constants allow, whatever steps are taken.
THEOREM TypeCorrect == Spec => []TypeOK
<1>1. Inv => TypeOK  BY DEF Inv
<1>2. QED  BY <1>1, InvHolds, PTL

\* Coordinator.Dispatch grants a one-shot permit: however many duplicates of
\* the request run, in however many processes, at most one of them is allowed
\* to call the supplier, and it is the one the authority dispatched.
THEOREM AtMostOnePermit == Spec => []OnePermit
<1>1. Inv => OnePermit  BY InvImpliesOnePermit DEF Inv
<1>2. QED  BY <1>1, InvHolds, PTL

-----------------------------------------------------------------------------
(* The rows and the authority.  Closing ties the rows, the workers and the *)
(* authority's verdict to each other; it is inductive given the types.     *)
(* Versions is what keeps the recorded remote version from going back, and *)
(* PermitGuards, which needs all of it, is what keeps a late release or a  *)
(* stray settlement away.                                                  *)

\* The operation has not met its outbox event.
Early == {"absent", "intent", "reserved", "dispatching", "dispatched"}

\* The authority's answer, whoever caused it, and who heard of it.
Verdicts ==
    /\ auth.state \in Terminal <=> auth.by # "none"
    /\ case.state # "none" =>
          auth.by = "admin" /\ case.state = auth.state /\ case.ver = auth.ver
    /\ auth.by = "event" => terminalSent /\ auth.state = TargetState(outbox.kind)
    /\ terminalSent => outbox.status # "none"

Heard(w) ==
    /\ worker[w].pc = "apply" => case.state # "none" /\ worker[w].got = case
    /\ worker[w].pc = "ack" => auth.by = "event" /\ worker[w].got.ver = auth.ver

Closing ==
    /\ Verdicts
    /\ \A w \in Workers : Heard(w)
    /\ outbox.live => outbox.status = "processing"
    /\ RowsAgree /\ FinalMirrorsAuthority

\* An execution that is about to write the remote version read the current one.
Held == {"claim", "dispatching", "confirm"}
Fresh(e) ==
    /\ exec[e].pc = "claim" =>
          /\ exec[e].seen.version <= op.version
          /\ exec[e].seen.version = op.version => exec[e].seen.rver = op.rver
    /\ exec[e].pc \in {"dispatching", "confirm"} =>
          (op.state = "dispatching" /\ op.attempt = e => exec[e].seen.rver = op.rver)
    /\ exec[e].pc = "confirm" => exec[e].got.ver = exec[e].seen.rver + 1

Versions ==
    /\ op.state = "absent" => op.version = 0
    /\ op.state \in {"absent", "intent"} => op.rver = 0
    /\ \A e \in Execs : Fresh(e)

\* What one step may do to what is final.
Kept ==
    /\ op.state \in Terminal => op' = op
    /\ op.rver <= op'.rver
    /\ outbox.status \in {"delivered", "superseded"} => outbox' = outbox

RowsInv == TypeOK /\ Decisions /\ Closing /\ Versions

-----------------------------------------------------------------------------
(* Moves of the rows. *)

rest == <<auth, case, terminalSent, worker>>

\* Nothing that Closing speaks of changes.
LEMMA StillMove ==
    ASSUME TypeOK, Closing, UNCHANGED <<op, outbox, receipt, rest>>
    PROVE  Closing' /\ Kept
<1>1. op.rver \in Nat
    BY DEF TypeOK, Operations
<1>2. QED
    BY <1>1 DEF rest, Closing, Verdicts, Heard, RowsAgree, FinalMirrorsAuthority, Kept

\* An operation that has met no event moves on without one.
LEMMA EarlyMove ==
    ASSUME TypeOK, Closing, UNCHANGED <<outbox, receipt, rest>>,
           op.state \in Early, op'.state \in Early \cup {"reconciliation_required"},
           op.rver <= op'.rver
    PROVE  Closing' /\ Kept
<1>1. outbox \in Events
    BY DEF TypeOK
<1>2. outbox.status = "none"
    BY <1>1 DEF Closing, RowsAgree, Early, PendingState, TargetState, Terminal, Deliverable,
                Kinds, Events
<1>3. RowsAgree'
    BY <1>2 DEF RowsAgree, Early, PendingState, Deliverable, Kinds
<1>4. FinalMirrorsAuthority'
    BY DEF FinalMirrorsAuthority, Early, Terminal
<1>5. Kept
    BY <1>2 DEF Kept, Early, Terminal
<1>6. QED  BY <1>3, <1>4, <1>5 DEF rest, Closing, Verdicts, Heard

\* The event is queued; until then the authority could not have heard of one.
LEMMA EnqueueMove ==
    ASSUME TypeOK, Closing, UNCHANGED <<receipt, rest>>,
           NEW kind \in Kinds, NEW expected, EnqueueTx(kind, expected)
    PROVE  Closing' /\ Kept
<1>1. CASE UNCHANGED <<op, outbox>>
    BY <1>1, StillMove
<1>2. CASE /\ outbox.status = "none" /\ op.state \in EnqueueFrom(kind)
           /\ outbox' = [outbox EXCEPT !.status = "pending", !.kind = kind,
                                       !.expected = expected]
           /\ SetOperation(PendingState(kind))
  <2>1. /\ outbox'.status = "pending" /\ outbox'.kind = kind /\ outbox'.live = outbox.live
        /\ op'.state = PendingState(kind) /\ op'.rver = op.rver /\ op.rver \in Nat
      BY <1>2 DEF TypeOK, SetOperation, Operations, Events
  <2>2. ~terminalSent /\ auth.by # "event" /\ ~outbox.live
      BY <1>2 DEF Closing, Verdicts
  <2>3. op.state \notin Terminal
      BY <1>2 DEF EnqueueFrom, Terminal
  <2>4. RowsAgree'
      BY <2>1 DEF RowsAgree, PendingState, Deliverable, Kinds
  <2>5. FinalMirrorsAuthority'
      BY <2>1 DEF FinalMirrorsAuthority, PendingState, Terminal
  <2>6. Verdicts' /\ \A w \in Workers : Heard(w)'
      BY <2>1, <2>2 DEF rest, Closing, Verdicts, Heard
  <2>7. QED  BY <1>2, <2>1, <2>2, <2>3, <2>4, <2>5, <2>6 DEF Closing, Kept
<1>3. QED  BY <1>1, <1>2 DEF EnqueueTx

-----------------------------------------------------------------------------
(* Moves of the versions. *)

\* Executions that hold versions stay where they are, or let go of them.
Steady == \A e \in Execs : exec'[e] = exec[e] \/ exec'[e].pc \notin Held

\* Writes after the intent count the version up.
Counted ==
    \/ op' = op
    \/ op'.version = op.version + 1 /\ op'.state \notin {"absent", "intent", "dispatching"}

LEMMA SteadyVersions == ASSUME TypeOK, Versions, Steady, Counted PROVE Versions'
<1>1. op.version \in Nat /\ \A e \in Execs : exec[e].seen.version \in Nat
    BY FunctionsType DEF TypeOK, Operations, ExecRecords, Snapshots
<1>2. ASSUME NEW e \in Execs PROVE Fresh(e)'
  <2>1. CASE exec'[e].pc \notin Held
      BY <2>1 DEF Fresh, Held
  <2>2. CASE exec'[e] = exec[e]
      BY <1>1, <2>2 DEF Versions, Fresh, Counted
  <2>3. QED  BY <2>1, <2>2 DEF Steady
<1>3. QED  BY <1>2 DEF Versions, Counted

LEMMA GotoSteady ==
    ASSUME exec \in [Execs -> ExecRecords], NEW e \in Execs, NEW pc, pc \notin Held,
           Goto(e, pc) \/ Leave(e, pc)
    PROVE  Steady
    BY DEF Goto, Leave, ExecRecords, Steady

LEMMA AbandonSteady ==
    ASSUME exec \in [Execs -> ExecRecords], NEW e \in Execs, Abandon(e)
    PROVE  Steady
<1>1. "finish" \notin Held
    BY DEF Held
<1>2. QED  BY <1>1, GotoSteady DEF Abandon

LEMMA MarkMove ==
    ASSUME TypeOK, NEW version, MarkReconciliation(version)
    PROVE  /\ Counted /\ op'.rver = op.rver
           /\ op' = op \/ (op.state \in Early /\ op'.state = "reconciliation_required")
    BY DEF TypeOK, MarkReconciliation, SetOperation, Operations, Counted, Early

LEMMA EnqueueCounted ==
    ASSUME TypeOK, NEW kind, NEW expected, EnqueueTx(kind, expected)
    PROVE  Counted
    BY DEF TypeOK, EnqueueTx, SetOperation, Operations, PendingState, Counted

-----------------------------------------------------------------------------
(* Executions and their tasks. *)

LEMMA StillExecSteps ==
    ASSUME TypeOK, Closing, Versions, NEW e \in Execs,
           \/ GetOperation(e) \/ SendReserve(e) \/ ReserveAnswer(e) \/ CreateJob(e)
           \/ GiveUp(e) \/ SupplierAccepted(e) \/ SupplierFailed(e) \/ Failover(e)
           \/ Finish(e) \/ ExecCrash(e)
    PROVE  Closing' /\ Kept /\ Versions'
<1> USE DEF storeVars, remoteVars, netVars
<1>1. UNCHANGED <<op, outbox, receipt, rest>>
    BY DEF GetOperation, SendReserve, ReserveAnswer, CreateJob, GiveUp, SupplierAccepted,
           SupplierFailed, Failover, Finish, ExecCrash, rest
<1>2. exec \in [Execs -> ExecRecords]
    BY DEF TypeOK
<1>3. Steady
  <2>1. CASE GetOperation(e) \/ ReserveAnswer(e)
      BY <1>2, <2>1, GotoSteady DEF GetOperation, ReserveAnswer, Steady, ExecRecords, Held
  <2>2. CASE SendReserve(e) \/ Failover(e) \/ ExecCrash(e)
      BY <1>2, <2>2, GotoSteady DEF SendReserve, Failover, ExecCrash, Held
  <2>3. CASE CreateJob(e)
      BY <2>3 DEF CreateJob, Steady
  <2>4. CASE GiveUp(e) \/ SupplierFailed(e)
      BY <1>2, <2>4, AbandonSteady DEF GiveUp, SupplierFailed
  <2>5. CASE SupplierAccepted(e) \/ Finish(e)
      BY <1>2, <2>5 DEF SupplierAccepted, Finish, Steady, ExecRecords, Held
  <2>6. QED  BY <2>1, <2>2, <2>3, <2>4, <2>5
<1>4. QED  BY <1>1, <1>3, StillMove, SteadyVersions DEF Counted

\* Admission writes the row while it is an intent at most.
LEMMA AdmissionSteps ==
    ASSUME TypeOK, Closing, Versions, NEW e \in Execs, CreateIntent(e) \/ BindReservation(e)
    PROVE  Closing' /\ Kept /\ Versions'
<1>1. exec \in [Execs -> ExecRecords] /\ op \in Operations
    BY DEF TypeOK
<1>2. op.rver \in Nat /\ op.version \in Nat /\ exec[e].got.ver \in Nat
    BY <1>1 DEF Operations, ExecRecords, Reservations
<1>3. UNCHANGED <<outbox, receipt, rest>>
    BY DEF CreateIntent, BindReservation, remoteVars, netVars, rest
<1>4. CASE CreateIntent(e)
  <2>1. Steady
      BY <1>1, <1>4 DEF CreateIntent, ExecRecords, Steady, Held
  <2>2. CASE op' = op
      BY <1>3, <2>1, <2>2, StillMove, SteadyVersions DEF Counted
  <2>3. CASE op' # op
    <3>1. /\ op.state = "absent" /\ op'.state = "intent" /\ op'.rver = op.rver
          /\ op'.version = 1 /\ op.version = 0
        BY <1>1, <1>4, <2>3 DEF CreateIntent, Operations, Versions
    <3>2. Closing' /\ Kept
        BY <1>2, <1>3, <3>1, EarlyMove DEF Early
    <3>3. ASSUME NEW x \in Execs PROVE Fresh(x)'
      <4>1. CASE exec'[x].pc \notin Held
          BY <4>1 DEF Fresh, Held
      <4>2. CASE exec'[x] = exec[x]
        <5>1. exec[x].seen.version \in Nat
            BY <1>1 DEF ExecRecords, Snapshots
        <5>2. QED  BY <3>1, <4>2, <5>1 DEF Versions, Fresh
      <4>3. QED  BY <2>1, <4>1, <4>2 DEF Steady
    <3>4. QED  BY <3>1, <3>2, <3>3 DEF Versions
  <2>4. QED  BY <2>2, <2>3
<1>5. CASE BindReservation(e)
  <2>1. Steady
      BY <1>1, <1>5, GotoSteady DEF BindReservation, Held
  <2>2. CASE op' = op
      BY <1>3, <2>1, <2>2, StillMove, SteadyVersions DEF Counted
  <2>3. CASE op' # op
    <3>1. /\ op.state = "intent" /\ op'.state = "reserved" /\ op'.version = op.version + 1
          /\ op'.rver = exec[e].got.ver /\ op.rver = 0
        BY <1>1, <1>5, <2>3 DEF BindReservation, Operations, Versions
    <3>2. QED  BY <1>2, <1>3, <2>1, <3>1, EarlyMove, SteadyVersions DEF Early, Counted
  <2>4. QED  BY <2>2, <2>3
<1>6. QED  BY <1>4, <1>5

\* The read before the claim, and the claim: the row still has what was read.
LEMMA ClaimSteps ==
    ASSUME TypeOK, Closing, Versions, NEW e \in Execs,
           BeforeSupplierRequest(e) \/ ClaimDispatch(e)
    PROVE  Closing' /\ Kept /\ Versions'
<1>1. exec \in [Execs -> ExecRecords] /\ op \in Operations
    BY DEF TypeOK
<1>2. op.rver \in Nat /\ op.version \in Nat
    BY <1>1 DEF Operations
<1>3. UNCHANGED <<outbox, receipt, rest>>
    BY DEF BeforeSupplierRequest, ClaimDispatch, storeVars, remoteVars, netVars, rest
<1>4. CASE BeforeSupplierRequest(e)
  <2>1. UNCHANGED op
      BY <1>4 DEF BeforeSupplierRequest, storeVars
  <2>2. CASE Abandon(e)
      BY <1>1, <1>3, <2>1, <2>2, AbandonSteady, StillMove, SteadyVersions DEF Counted
  <2>3. CASE exec' = [exec EXCEPT ![e].pc = "claim", ![e].attempted = TRUE,
                                  ![e].seen = Snapshot]
    <3>1. exec'[e].pc = "claim" /\ exec'[e].seen = Snapshot
        BY <1>1, <2>3 DEF ExecRecords
    <3>2. Fresh(e)'
        BY <1>2, <2>1, <3>1 DEF Fresh, Snapshot
    <3>3. ASSUME NEW x \in Execs \ {e} PROVE Fresh(x)'
      <4>1. exec'[x] = exec[x]
          BY <1>1, <2>3
      <4>2. QED  BY <2>1, <4>1 DEF Versions, Fresh
    <3>4. Versions'
        BY <2>1, <3>2, <3>3 DEF Versions
    <3>5. QED  BY <1>3, <2>1, <3>4, StillMove
  <2>4. QED  BY <1>4, <2>2, <2>3 DEF BeforeSupplierRequest
<1>5. CASE ClaimDispatch(e)
  <2>1. CASE op.state = "reserved" /\ op.version = exec[e].seen.version
    <3>1. /\ op'.state = "dispatching" /\ op'.attempt = e /\ op'.version = op.version + 1
          /\ op'.rver = op.rver
        BY <1>1, <1>5, <2>1 DEF ClaimDispatch, Operations
    <3>2. Closing' /\ Kept
        BY <1>2, <1>3, <2>1, <3>1, EarlyMove DEF Early
    <3>3. exec[e].pc = "claim" /\ Goto(e, "dispatching")
        BY <1>5, <2>1 DEF ClaimDispatch
    <3>4. Fresh(e)'
      <4>1. exec'[e].pc = "dispatching" /\ exec'[e].seen = exec[e].seen
          BY <1>1, <3>3 DEF Goto, ExecRecords
      <4>2. exec[e].seen.rver = op.rver
          BY <2>1, <3>3 DEF Versions, Fresh
      <4>3. QED  BY <3>1, <4>1, <4>2 DEF Fresh
    <3>5. ASSUME NEW x \in Execs \ {e} PROVE Fresh(x)'
      <4>1. exec'[x] = exec[x] /\ exec[x].seen.version \in Nat
          BY <1>1, <3>3 DEF Goto, ExecRecords, Snapshots
      <4>2. QED  BY <1>2, <3>1, <4>1 DEF Versions, Fresh
    <3>6. QED  BY <3>1, <3>2, <3>4, <3>5 DEF Versions
  <2>2. CASE ~(op.state = "reserved" /\ op.version = exec[e].seen.version)
    <3>1. Abandon(e) /\ UNCHANGED op
        BY <1>5, <2>2 DEF ClaimDispatch
    <3>2. QED  BY <1>1, <1>3, <3>1, AbandonSteady, StillMove, SteadyVersions DEF Counted
  <2>3. QED  BY <2>1, <2>2
<1>6. QED  BY <1>4, <1>5

\* The authority's answer and its confirmation: nobody moved the row meanwhile.
LEMMA DispatchSteps ==
    ASSUME TypeOK, Closing, Versions, NEW e \in Execs,
           DispatchAnswer(e) \/ ConfirmDispatched(e)
    PROVE  Closing' /\ Kept /\ Versions'
<1>1. exec \in [Execs -> ExecRecords] /\ op \in Operations
    BY DEF TypeOK
<1>2. op.rver \in Nat /\ op.version \in Nat
    BY <1>1 DEF Operations
<1>3. UNCHANGED <<outbox, receipt, rest>>
    BY DEF DispatchAnswer, ConfirmDispatched, storeVars, remoteVars, netVars, rest
<1>4. CASE DispatchAnswer(e)
  <2>1. UNCHANGED op
      BY <1>4 DEF DispatchAnswer, storeVars
  <2>2. CASE Abandon(e)
      BY <1>1, <1>3, <2>1, <2>2, AbandonSteady, StillMove, SteadyVersions DEF Counted
  <2>3. CASE exec' = [exec EXCEPT ![e].pc = "confirm",
                  ![e].got = [state |-> "dispatched", ver |-> exec[e].seen.rver + 1]]
    <3>1. /\ exec'[e].pc = "confirm" /\ exec'[e].seen = exec[e].seen
          /\ exec'[e].got.ver = exec[e].seen.rver + 1
        BY <1>1, <2>3 DEF ExecRecords
    <3>2. exec[e].pc = "dispatching"
        BY <1>4 DEF DispatchAnswer
    <3>3. Fresh(e)'
        BY <2>1, <3>1, <3>2 DEF Versions, Fresh
    <3>4. ASSUME NEW x \in Execs \ {e} PROVE Fresh(x)'
      <4>1. exec'[x] = exec[x]
          BY <1>1, <2>3
      <4>2. QED  BY <2>1, <4>1 DEF Versions, Fresh
    <3>5. Versions'
        BY <2>1, <3>3, <3>4 DEF Versions
    <3>6. QED  BY <1>3, <2>1, <3>5, StillMove
  <2>4. QED  BY <1>4, <2>2, <2>3 DEF DispatchAnswer
<1>5. CASE ConfirmDispatched(e)
  <2>1. Steady
    <3>1. "supplier" \notin Held
        BY DEF Held
    <3>2. QED  BY <1>1, <1>5, <3>1, AbandonSteady, GotoSteady DEF ConfirmDispatched
  <2>2. CASE op' = op
      BY <1>3, <2>1, <2>2, StillMove, SteadyVersions DEF Counted
  <2>3. CASE op' # op
    <3>1. /\ op.state = "dispatching" /\ op.attempt = e /\ op'.state = "dispatched"
          /\ op'.version = op.version + 1 /\ op'.rver = exec[e].got.ver
          /\ exec[e].pc = "confirm"
        BY <1>1, <1>5, <2>3 DEF ConfirmDispatched, Operations
    <3>2. exec[e].got.ver = op.rver + 1
        BY <3>1 DEF Versions, Fresh
    <3>3. QED  BY <1>2, <1>3, <2>1, <3>1, <3>2, EarlyMove, SteadyVersions DEF Early, Counted
  <2>4. QED  BY <2>2, <2>3
<1>6. QED  BY <1>4, <1>5

LEMMA FinishSteps ==
    ASSUME TypeOK, Closing, Versions, NEW e \in Execs, FinishRelease(e) \/ FinishMark(e)
    PROVE  Closing' /\ Kept /\ Versions'
<1>1. Steady
  <2>1. "ended" \notin Held
      BY DEF Held
  <2>2. QED  BY <2>1, GotoSteady DEF TypeOK, FinishRelease, FinishMark
<1>2. UNCHANGED <<receipt, rest>>
    BY DEF FinishRelease, FinishMark, remoteVars, netVars, rest
<1>3. CASE FinishRelease(e)
  <2>1. "release" \in Kinds
      BY DEF Kinds
  <2>2. QED  BY <1>1, <1>2, <1>3, <2>1, EnqueueMove, EnqueueCounted, SteadyVersions
             DEF FinishRelease
<1>4. CASE FinishMark(e)
  <2>1. op.rver \in Nat /\ UNCHANGED outbox
      BY <1>4 DEF TypeOK, Operations, FinishMark
  <2>2. MarkReconciliation(exec[e].seen.version)
      BY <1>4 DEF FinishMark
  <2>3. QED  BY <1>1, <1>2, <2>1, <2>2, MarkMove, StillMove, EarlyMove, SteadyVersions
<1>5. QED  BY <1>3, <1>4

LEMMA TaskSteps ==
    ASSUME TypeOK, Closing, Versions, NEW e \in Execs, TaskStep(e)
    PROVE  Closing' /\ Kept /\ Versions'
<1>1. Steady
    BY DEF TaskStep, JobReport, ReconcileFailure, ReconcileFailureMark, AttachUsage,
           ApplyUsage, TaskCrash, Steady
<1>2. UNCHANGED <<receipt, rest>>
    BY DEF TaskStep, JobReport, ReconcileFailure, ReconcileFailureMark, AttachUsage,
           ApplyUsage, TaskCrash, storeVars, remoteVars, netVars, rest
<1>3. CASE JobReport(e) \/ ReconcileFailure(e) \/ AttachUsage(e) \/ TaskCrash(e)
  <2>1. UNCHANGED <<op, outbox>>
      BY <1>3 DEF JobReport, ReconcileFailure, AttachUsage, TaskCrash, storeVars
  <2>2. QED  BY <1>1, <1>2, <2>1, StillMove, SteadyVersions DEF Counted
<1>4. CASE ReconcileFailureMark(e)
  <2>1. op.rver \in Nat /\ UNCHANGED outbox
      BY <1>4 DEF TypeOK, Operations, ReconcileFailureMark
  <2>2. MarkReconciliation(task[e].seen.version)
      BY <1>4 DEF ReconcileFailureMark
  <2>3. QED  BY <1>1, <1>2, <2>1, <2>2, MarkMove, StillMove, EarlyMove, SteadyVersions
<1>5. CASE ApplyUsage(e)
  <2>1. "settle" \in Kinds
      BY DEF Kinds
  <2>2. QED  BY <1>1, <1>2, <1>5, <2>1, EnqueueMove, EnqueueCounted, SteadyVersions
             DEF ApplyUsage
<1>6. QED  BY <1>3, <1>4, <1>5 DEF TaskStep

LEMMA ExecSteps ==
    ASSUME TypeOK, Closing, Versions, NEW e \in Execs, ExecStep(e)
    PROVE  Closing' /\ Kept /\ Versions'
    BY StillExecSteps, AdmissionSteps, ClaimSteps, DispatchSteps, FinishSteps DEF ExecStep

-----------------------------------------------------------------------------
(* Outbox workers. *)

\* A worker that starts over or goes on without an answer has heard nothing.
LEMMA WorkerGotoHeard ==
    ASSUME TypeOK, Closing, UNCHANGED <<auth, case>>, NEW w \in Workers,
           NEW pc, pc \notin {"apply", "ack"}, WorkerGoto(w, pc)
    PROVE  \A x \in Workers : Heard(x)'
    BY DEF TypeOK, Closing, Heard, WorkerGoto

\* The rows stay and so does everything a worker does not own.
LEMMA WorkerListens ==
    ASSUME TypeOK, Closing, Versions, NEW w \in Workers,
           UNCHANGED <<op, outbox, receipt, auth, case, terminalSent, exec>>,
           \A x \in Workers : Heard(x)'
    PROVE  Closing' /\ Kept /\ Versions'
<1>1. op.rver \in Nat
    BY DEF TypeOK, Operations
<1>2. Closing' /\ Kept
    BY <1>1 DEF Closing, Verdicts, RowsAgree, FinalMirrorsAuthority, Kept
<1>3. QED  BY <1>2 DEF Versions, Fresh

LEMMA ListeningSteps ==
    ASSUME TypeOK, Closing, Versions, NEW w \in Workers,
           \/ PendingReconciliations(w) \/ FetchResolution(w) \/ NothingToReconcile(w)
           \/ NothingToClaim(w) \/ DeliveryConfirmed(w) \/ WorkerCrash(w)
    PROVE  Closing' /\ Kept /\ Versions'
<1> USE DEF storeVars, remoteVars, WorkerFrame
<1>1. UNCHANGED <<op, outbox, receipt, auth, case, terminalSent, exec>>
    BY DEF PendingReconciliations, FetchResolution, NothingToReconcile, NothingToClaim,
           DeliveryConfirmed, WorkerCrash
<1>2. \A x \in Workers : Heard(x)'
  <2>1. CASE NothingToReconcile(w) \/ NothingToClaim(w) \/ WorkerCrash(w)
      BY <1>1, <2>1, WorkerGotoHeard DEF NothingToReconcile, NothingToClaim, WorkerCrash
  <2>2. CASE PendingReconciliations(w) \/ FetchResolution(w) \/ DeliveryConfirmed(w)
      BY <1>1, <2>2 DEF TypeOK, Closing, Heard, WorkerRecords, PendingReconciliations,
                        FetchResolution, DeliveryConfirmed, Remote
  <2>3. QED  BY <2>1, <2>2
<1>3. QED  BY <1>1, <1>2, WorkerListens

LEMMA WriteVersions ==
    ASSUME TypeOK, Versions, UNCHANGED exec, Counted
    PROVE  Versions'
    BY SteadyVersions DEF Steady

\* The operator's decision is what the authority says, and the last it says.
LEMMA ApplySteps ==
    ASSUME TypeOK, Decisions, Closing, Versions, NEW w \in Workers,
           ApplyReconciliation(w)
    PROVE  Closing' /\ Kept /\ Versions'
<1>1. /\ UNCHANGED <<auth, case, terminalSent, exec>> /\ worker[w].pc = "apply"
      /\ WorkerGoto(w, "claim")
    BY DEF ApplyReconciliation, WorkerFrame, remoteVars
<1>2. \A x \in Workers : Heard(x)'
    BY <1>1, WorkerGotoHeard
<1>3. CASE UNCHANGED storeVars
    BY <1>1, <1>2, <1>3, WorkerListens DEF storeVars
<1>4. CASE ~UNCHANGED storeVars
  <2> DEFINE decision == worker[w].got
  <2>1. /\ decision.ver > op.rver /\ op.state \in Reconcilable /\ receipt' = TRUE
        /\ op' = [op EXCEPT !.state = decision.state, !.version = @ + 1,
                            !.rver = decision.ver]
        /\ outbox' = IF outbox.status \in {"pending", "processing", "blocked"}
                     THEN [outbox EXCEPT !.status = "superseded",
                                         !.holder = NoWorker, !.live = FALSE]
                     ELSE outbox
      BY <1>4 DEF ApplyReconciliation
  <2>2. /\ auth.by = "admin" /\ decision.state = auth.state /\ decision.ver = auth.ver
        /\ decision.state \in Terminal
      BY <1>1 DEF Decisions, Closing, Verdicts, Heard
  <2>3. /\ op'.state = auth.state /\ op'.rver = auth.ver /\ op'.version = op.version + 1
        /\ op'.state \in Terminal
      BY <2>1, <2>2 DEF TypeOK, Operations
  <2>4. op.state \notin Terminal /\ op.rver \in Nat /\ auth.ver \in Nat
      BY <2>1 DEF TypeOK, Operations, Accounts, Reconcilable, Terminal
  <2>5. outbox.status \notin {"delivered", "superseded"}
      BY <2>4 DEF Closing, RowsAgree, TargetState, Terminal
  <2>6. /\ outbox'.status \in {"none", "superseded"}
        /\ outbox'.status = "none" => outbox' = outbox
        /\ outbox'.status = "superseded" => ~outbox'.live
        /\ outbox'.kind = outbox.kind
        /\ outbox.status # "none" => outbox'.status # "none"
      BY <2>1, <2>5 DEF TypeOK, Events
  <2>7. RowsAgree'
      BY <1>1, <2>1, <2>2, <2>3, <2>6 DEF RowsAgree, PendingState, Terminal, Deliverable
  <2>8. FinalMirrorsAuthority' /\ Verdicts'
      BY <1>1, <2>3, <2>6 DEF FinalMirrorsAuthority, Closing, Verdicts
  <2>9. outbox'.live => outbox'.status = "processing"
      BY <2>6 DEF Closing
  <2>10. Kept
      BY <2>1, <2>2, <2>3, <2>4, <2>5 DEF Kept
  <2>11. Versions'
      <3>1. Counted
          BY <2>3 DEF Counted, Terminal
      <3>2. QED  BY <1>1, <3>1, WriteVersions
  <2>12. QED  BY <1>2, <2>7, <2>8, <2>9, <2>10, <2>11 DEF Closing
<1>5. QED  BY <1>3, <1>4

LEMMA ClaimEventSteps ==
    ASSUME TypeOK, Closing, Versions, NEW w \in Workers, Claim(w)
    PROVE  Closing' /\ Kept /\ Versions'
<1>1. /\ UNCHANGED <<op, receipt, auth, case, exec>> /\ terminalSent' = TRUE
      /\ WorkerGoto(w, "deliver") /\ outbox.status \in Deliverable
      /\ outbox' = [outbox EXCEPT !.status = "processing", !.holder = w, !.live = TRUE]
    BY DEF Claim, WorkerFrame, remoteVars
<1>2. \A x \in Workers : Heard(x)'
    BY <1>1, WorkerGotoHeard
<1>3. outbox'.status = "processing" /\ outbox'.kind = outbox.kind /\ op.rver \in Nat
    BY <1>1 DEF TypeOK, Events, Operations
<1>4. RowsAgree'
    BY <1>1, <1>3 DEF Closing, RowsAgree, Deliverable
<1>5. FinalMirrorsAuthority' /\ Verdicts'
    BY <1>1, <1>3 DEF Closing, FinalMirrorsAuthority, Verdicts
<1>6. Kept
    BY <1>1, <1>3 DEF Kept, Deliverable
<1>7. QED  BY <1>1, <1>2, <1>3, <1>4, <1>5, <1>6 DEF Closing, Versions, Fresh

\* Only an operation that waits for this event is closed by its confirmation.
LEMMA CompleteSteps ==
    ASSUME TypeOK, Closing, Versions, NEW w \in Workers, Complete(w)
    PROVE  Closing' /\ Kept /\ Versions'
<1>1. /\ UNCHANGED <<receipt, auth, case, terminalSent, exec>> /\ worker[w].pc = "ack"
      /\ WorkerGoto(w, "reconcile")
    BY DEF Complete, WorkerFrame, remoteVars
<1>2. \A x \in Workers : Heard(x)'
    BY <1>1, WorkerGotoHeard
<1>3. CASE UNCHANGED <<op, outbox>>
    BY <1>1, <1>2, <1>3, WorkerListens
<1>4. CASE ~UNCHANGED <<op, outbox>>
  <2>1. /\ outbox.status = "processing" /\ op.state = PendingState(outbox.kind)
        /\ op.rver < worker[w].got.ver
        /\ outbox' = [outbox EXCEPT !.status = "delivered",
                                    !.holder = NoWorker, !.live = FALSE]
        /\ op' = [op EXCEPT !.state = TargetState(outbox.kind),
                            !.version = @ + 1, !.rver = worker[w].got.ver]
      BY <1>4 DEF Complete, HoldsLease
  <2>2. /\ auth.by = "event" /\ worker[w].got.ver = auth.ver
        /\ auth.state = TargetState(outbox.kind)
      BY <1>1 DEF Closing, Verdicts, Heard
  <2>3. /\ op'.state = TargetState(outbox.kind) /\ op'.rver = auth.ver
        /\ op'.version = op.version + 1 /\ op.rver < auth.ver
        /\ outbox'.status = "delivered" /\ outbox'.kind = outbox.kind /\ ~outbox'.live
      BY <2>1, <2>2 DEF TypeOK, Operations, Events
  <2>4. RowsAgree'
      BY <1>1, <2>2, <2>3 DEF RowsAgree, PendingState, TargetState, Deliverable
  <2>5. FinalMirrorsAuthority' /\ Verdicts'
      BY <1>1, <2>2, <2>3 DEF Closing, FinalMirrorsAuthority, Verdicts
  <2>6. Kept
      <3>1. op.rver \in Nat /\ auth.ver \in Nat
          BY DEF TypeOK, Operations, Accounts
      <3>2. QED  BY <2>1, <2>3, <3>1 DEF Kept, PendingState, Terminal
  <2>7. Versions'
      <3>1. Counted
          BY <2>3 DEF Counted, TargetState
      <3>2. QED  BY <1>1, <3>1, WriteVersions
  <2>8. QED  BY <1>2, <2>3, <2>4, <2>5, <2>6, <2>7 DEF Closing
<1>5. QED  BY <1>3, <1>4

\* A blocked event sets its operation aside, a rescheduled one leaves it.
LEMMA RetrySteps ==
    ASSUME TypeOK, Closing, Versions, NEW w \in Workers, NEW permanent \in BOOLEAN,
           Retry(w, permanent)
    PROVE  Closing' /\ Kept /\ Versions'
<1>1. /\ UNCHANGED <<receipt, auth, case, terminalSent, exec>>
      /\ WorkerGoto(w, "reconcile")
    BY DEF Retry, WorkerFrame, remoteVars
<1>2. \A x \in Workers : Heard(x)'
    BY <1>1, WorkerGotoHeard
<1>3. CASE ~HoldsLease(w)
    BY <1>1, <1>2, <1>3, WorkerListens DEF Retry
<1>4. CASE HoldsLease(w)
  <2>1. /\ outbox.status = "processing" /\ outbox'.kind = outbox.kind /\ ~outbox'.live
        /\ outbox'.status = IF permanent THEN "blocked" ELSE "pending"
      BY <1>4 DEF TypeOK, Events, Retry, HoldsLease
  <2>2. op.state \in {PendingState(outbox.kind), "reconciliation_required"}
      BY <2>1 DEF Closing, RowsAgree, Deliverable
  <2>3. op.rver \in Nat /\ op.state \notin Terminal
      BY <2>2 DEF TypeOK, Operations, PendingState, Terminal
  <2>4. \/ op' = op /\ (permanent => op.state = "reconciliation_required")
        \/ /\ permanent /\ op'.state = "reconciliation_required"
           /\ op'.rver = op.rver /\ op'.version = op.version + 1
      BY <1>4, <2>2 DEF TypeOK, Operations, Retry, SetOperation, PendingState
  <2>5. RowsAgree'
      BY <1>1, <2>1, <2>2, <2>4 DEF Closing, RowsAgree, PendingState, Deliverable
  <2>6. FinalMirrorsAuthority' /\ Verdicts'
      BY <1>1, <2>1, <2>3, <2>4 DEF Closing, FinalMirrorsAuthority, Verdicts, Terminal
  <2>7. Kept
      BY <2>1, <2>3, <2>4 DEF Kept
  <2>8. Versions'
      <3>1. Counted
          BY <2>4 DEF Counted
      <3>2. QED  BY <1>1, <3>1, WriteVersions
  <2>9. QED  BY <1>2, <2>1, <2>5, <2>6, <2>7, <2>8 DEF Closing
<1>5. QED  BY <1>3, <1>4

LEMMA WorkerSteps ==
    ASSUME TypeOK, Decisions, Closing, Versions, NEW w \in Workers, WorkerStep(w)
    PROVE  Closing' /\ Kept /\ Versions'
    BY ListeningSteps, ApplySteps, ClaimEventSteps, CompleteSteps, RetrySteps
    DEF WorkerStep

-----------------------------------------------------------------------------
(* The clock, the operator's replay, and the authority. *)

LEMMA EventSteps ==
    ASSUME TypeOK, Closing, Versions, LeaseExpires \/ Replay
    PROVE  Closing' /\ Kept /\ Versions'
<1>1. UNCHANGED <<op, receipt, auth, case, terminalSent, exec, worker>>
    BY DEF LeaseExpires, Replay, remoteVars, netVars
<1>2. /\ outbox'.kind = outbox.kind /\ ~outbox'.live
      /\ outbox.status \in {"processing", "blocked", "pending"}
      /\ outbox'.status \in {outbox.status, "pending"}
    BY DEF TypeOK, Events, Closing, LeaseExpires, Replay
<1>3. op.rver \in Nat
    BY DEF TypeOK, Operations
<1>4. RowsAgree'
    BY <1>1, <1>2 DEF Closing, RowsAgree, Deliverable
<1>5. FinalMirrorsAuthority' /\ Verdicts' /\ \A w \in Workers : Heard(w)'
    BY <1>1, <1>2 DEF Closing, FinalMirrorsAuthority, Verdicts, Heard
<1>6. Kept
    BY <1>1, <1>2, <1>3 DEF Kept
<1>7. QED  BY <1>1, <1>2, <1>4, <1>5, <1>6 DEF Closing, Versions, Fresh

\* Until the authority has said its last word, nobody has heard one and
\* neither row is final: it may go on.
LEMMA OpenVerdict ==
    ASSUME TypeOK, Closing, auth.state \notin Terminal
    PROVE  /\ auth.by = "none" /\ case.state = "none" /\ op.state \notin Terminal
           /\ outbox.status \notin {"delivered", "superseded"}
           /\ \A w \in Workers : worker[w].pc \notin {"apply", "ack"}
<1>1. auth.by = "none" /\ case.state = "none"
    BY DEF TypeOK, Accounts, Closing, Verdicts
<1>2. QED  BY <1>1 DEF Closing, Heard, RowsAgree, FinalMirrorsAuthority

LEMMA AuthoritySteps ==
    ASSUME TypeOK, Closing, Versions, AuthorityStep
    PROVE  Closing' /\ Kept /\ Versions'
<1>1. UNCHANGED <<op, outbox, receipt, terminalSent, exec, worker>>
    BY DEF AuthorityStep, AuthorityReserve, AuthorityTerminal, AuthorityExpire,
           AdminResolve, AuthorityDispatch, AuthorityFrame, storeVars, netVars
<1>2. auth.state \notin Terminal
    BY DEF AuthorityStep, AuthorityReserve, AuthorityTerminal, AuthorityExpire,
           AdminResolve, AuthorityDispatch, Terminal
<1>3. /\ auth.by = "none" /\ case.state = "none" /\ op.state \notin Terminal
      /\ outbox.status \notin {"delivered", "superseded"}
      /\ \A w \in Workers : worker[w].pc \notin {"apply", "ack"}
    BY <1>2, OpenVerdict
<1>4. auth \in Accounts /\ op.rver \in Nat /\ (terminalSent => outbox.status # "none")
    BY DEF TypeOK, Operations, Closing, Verdicts
<1>5. Verdicts'
  <2>1. CASE AuthorityReserve \/ \E m \in dispatchSent : AuthorityDispatch(m)
      BY <1>1, <1>3, <1>4, <2>1
      DEF AuthorityReserve, AuthorityDispatch, Accounts, Verdicts, Terminal
  <2>2. CASE AuthorityTerminal
    <3>1. /\ auth'.by = "event" /\ auth'.state = TargetState(outbox.kind)
          /\ terminalSent /\ case' = case
        BY <1>4, <2>2 DEF AuthorityTerminal, Accounts
    <3>2. TargetState(outbox.kind) \in Terminal
        BY DEF TargetState, Terminal
    <3>3. QED  BY <1>1, <1>3, <1>4, <3>1, <3>2 DEF Verdicts
  <2>3. CASE AuthorityExpire
      BY <1>1, <1>3, <1>4, <2>3 DEF AuthorityExpire, Accounts, Verdicts, Terminal
  <2>4. CASE AdminResolve
    <3>1. PICK state \in Terminal :
            /\ auth' = [auth EXCEPT !.state = state, !.ver = @ + 1, !.by = "admin"]
            /\ case' = [state |-> state, ver |-> auth.ver + 1]
        BY <2>4 DEF AdminResolve
    <3>2. /\ auth'.state = state /\ auth'.by = "admin" /\ auth'.ver = auth.ver + 1
          /\ case'.state = state /\ case'.ver = auth.ver + 1
        BY <1>4, <3>1 DEF Accounts
    <3>3. QED  BY <1>1, <1>4, <3>2 DEF Verdicts
  <2>5. QED  BY <2>1, <2>2, <2>3, <2>4 DEF AuthorityStep
<1>6. (\A w \in Workers : Heard(w)') /\ FinalMirrorsAuthority'
    BY <1>1, <1>3 DEF Heard, FinalMirrorsAuthority
<1>7. RowsAgree'
    BY <1>1, <1>3 DEF Closing, RowsAgree
<1>8. QED  BY <1>1, <1>3, <1>4, <1>5, <1>6, <1>7 DEF Closing, Kept, Versions, Fresh

-----------------------------------------------------------------------------
LEMMA InitRows == ASSUME Init PROVE RowsInv
<1>1. TypeOK /\ Decisions
    BY InitInv DEF Inv
<1>2. Closing
    BY DEF Init, Closing, Verdicts, Heard, RowsAgree, FinalMirrorsAuthority,
           NoReservation, Terminal, Kinds, PendingState, Deliverable
<1>3. Versions
    BY DEF Init, Versions, Fresh
<1>4. QED  BY <1>1, <1>2, <1>3 DEF RowsInv

LEMMA NextRows == ASSUME RowsInv, [Next]_vars PROVE RowsInv' /\ (Kept \/ UNCHANGED vars)
<1>1. TypeOK' /\ Decisions'
    BY NextType, NextDecisions DEF RowsInv
<1>2. CASE UNCHANGED vars
  <2>1. UNCHANGED <<op, outbox, receipt, rest>> /\ UNCHANGED exec
      BY <1>2 DEF vars, storeVars, remoteVars, netVars, rest
  <2>2. Closing' /\ Versions'
      BY <2>1, StillMove, WriteVersions DEF RowsInv, Counted
  <2>3. QED  BY <1>1, <1>2, <2>2 DEF RowsInv
<1>3. ASSUME Next PROVE Closing' /\ Kept /\ Versions'
    BY <1>3, ExecSteps, TaskSteps, WorkerSteps, EventSteps, AuthoritySteps
    DEF RowsInv, Next
<1>4. QED  BY <1>1, <1>2, <1>3 DEF RowsInv

\* The inductive invariant: types, decisions, the authority's verdict and who
\* heard it, the rows, and the versions read. The results below follow.
THEOREM RowsHold == Spec => []RowsInv
<1>1. RowsInv /\ [Next]_vars => RowsInv'
    BY NextRows
<1>2. QED  BY <1>1, InitRows, PTL DEF Spec

\* The operation row and its outbox row are written by different transactions
\* of many processes (EnqueueTx, Claim, Complete, Retry, ApplyReconciliation,
\* replay-outbox): whatever their order, the two tell one story.
THEOREM RowsTellOneStory == Spec => []RowsAgree
<1>1. RowsInv => RowsAgree
    BY DEF RowsInv, Closing
<1>2. QED  BY <1>1, RowsHold, PTL

\* The gateway closes an operation only with the authority's own last answer:
\* Complete and ApplyReconciliation write neither a guess nor an old answer.
THEOREM FinalIsTheAuthoritys == Spec => []FinalMirrorsAuthority
<1>1. RowsInv => FinalMirrorsAuthority
    BY DEF RowsInv, Closing
<1>2. QED  BY <1>1, RowsHold, PTL

\* A closed operation and a delivered or superseded event are never written
\* again, and no transaction stores an older remote version over a newer one.
THEOREM WhatIsFinalStays == Spec => FinalIsFinal
<1>1. RowsInv /\ [Next]_vars => [Kept]_vars
    BY NextRows
<1>2. Kept =>
        /\ op.state \in Terminal => op' = op
        /\ op.rver <= op'.rver
        /\ outbox.status \in {"delivered", "superseded"} => outbox' = outbox
    BY DEF Kept
<1>3. QED  BY <1>1, <1>2, RowsHold, PTL DEF Spec, FinalIsFinal

-----------------------------------------------------------------------------
(* What is said to the authority fits the permit.                          *)
(* A settlement comes from work, and work from a permit. A release was read *)
(* while the row was reserved: the version it carries is that of the        *)
(* reservation, which the row has left behind once a permit exists.         *)

Working == {"submitted", "usage", "settling", "done"}

WorkIsPermitted(e) == exec[e].pc = "supplier" \/ task[e].st \in Working => e \in permits

ReleaseIsOld(e) ==
    exec[e].pc = "release" =>
        /\ exec[e].seen.rver <= op.rver
        /\ permits # {} => exec[e].seen.rver < op.rver

EventFits == outbox.status # "none" => (outbox.kind = "settle" <=> permits # {})

PermitGuards ==
    /\ \A e \in Execs : WorkIsPermitted(e) /\ ReleaseIsOld(e)
    /\ EventFits
    /\ auth.state \in {"none", "reserved"} \/ auth.by = "expiry" => auth.attempts = {}
    /\ receipt => op.state \in Terminal

\* What most steps do.
Calm ==
    /\ permits' = permits
    /\ outbox'.kind = outbox.kind /\ (outbox'.status = "none" <=> outbox.status = "none")
    /\ auth' = auth
    /\ receipt' => receipt \/ op'.state \in Terminal
    /\ \A x \in Execs : exec'[x] = exec[x] \/ exec'[x].pc \notin {"release", "supplier"}
    /\ \A x \in Execs : task'[x].st \in Working => x \in permits

\* What a step means for the operation, as BillingPermit sees it.
Goes ==
    /\ permits' = permits /\ receipt' = receipt
    /\ op'.state \in Terminal => op.state \in Terminal
Grants ==
    /\ op.state \notin Terminal /\ op'.state \notin Terminal /\ receipt' = receipt
    /\ \E e \in Execs : permits' = permits \cup {e} /\ permits \subseteq {e}
Delivers ==
    /\ op.state \notin Terminal /\ op'.state = TargetState(outbox.kind)
    /\ outbox.status # "none" /\ permits' = permits /\ receipt' = receipt
Decides ==
    /\ op.state \notin Terminal /\ op'.state \in Terminal
    /\ permits' = permits /\ receipt'
Promised == Goes \/ Grants \/ Delivers \/ Decides

\* The versions that ReleaseIsOld compares are numbers.
LEMMA GuardTypes ==
    ASSUME TypeOK
    PROVE  /\ op \in Operations /\ outbox \in Events /\ auth \in Accounts
           /\ exec \in [Execs -> ExecRecords] /\ task \in [Execs -> TaskRecords]
           /\ op.rver \in Nat /\ \A e \in Execs : exec[e].seen.rver \in Nat
<1>1. op \in Operations /\ \A e \in Execs : exec[e] \in ExecRecords
    BY DEF TypeOK
<1>2. \A x \in ExecRecords : x.seen.rver \in Nat
    BY DEF ExecRecords, Snapshots
<1>3. QED  BY <1>1, <1>2 DEF TypeOK, Operations

LEMMA CalmKeeps ==
    ASSUME TypeOK, TypeOK', PermitGuards, Kept, Calm PROVE PermitGuards'
<1>1. /\ op.rver \in Nat /\ op'.rver \in Nat /\ op.rver <= op'.rver
      /\ \A e \in Execs : exec[e].seen.rver \in Nat
    BY GuardTypes DEF Kept, TypeOK, Operations
<1>2. ASSUME NEW e \in Execs PROVE WorkIsPermitted(e)' /\ ReleaseIsOld(e)'
  <2>1. CASE exec'[e] = exec[e]
      BY <1>1, <2>1 DEF PermitGuards, WorkIsPermitted, ReleaseIsOld, Calm
  <2>2. CASE exec'[e].pc \notin {"release", "supplier"}
      BY <2>2 DEF WorkIsPermitted, ReleaseIsOld, Calm
  <2>3. QED  BY <2>1, <2>2 DEF Calm
<1>3. EventFits'
    BY DEF PermitGuards, EventFits, Calm
<1>4. (receipt => op.state \in Terminal)'
    BY DEF PermitGuards, Calm, Kept
<1>5. QED  BY <1>2, <1>3, <1>4 DEF PermitGuards, Calm

\* An execution moves on without reading a release, and without a permit.
LEMMA GotoCalm ==
    ASSUME exec \in [Execs -> ExecRecords], NEW e \in Execs, NEW pc,
           pc \notin {"release", "supplier"}, Goto(e, pc) \/ Leave(e, pc)
    PROVE  \A x \in Execs : exec'[x] = exec[x] \/ exec'[x].pc \notin {"release", "supplier"}
    BY DEF Goto, Leave, ExecRecords

LEMMA AbandonCalm ==
    ASSUME TypeOK, PermitGuards, NEW e \in Execs, Abandon(e)
    PROVE  /\ \A x \in Execs : exec'[x] = exec[x] \/ exec'[x].pc \notin {"release", "supplier"}
           /\ \A x \in Execs : task'[x].st \in Working => x \in permits
<1>1. exec \in [Execs -> ExecRecords] /\ task \in [Execs -> TaskRecords]
    BY DEF TypeOK
<1>2. Leave(e, "finish")
    BY DEF Abandon
<1>3. \A x \in Execs : task[x].st \in Working => x \in permits
    BY DEF PermitGuards, WorkIsPermitted
<1>4. UNCHANGED task \/ task' = [task EXCEPT ![e].st = "failed"]
    BY DEF Abandon
<1>5. \A x \in Execs : task'[x].st \in Working => x \in permits
    BY <1>1, <1>3, <1>4 DEF TaskRecords, Working
<1>6. QED  BY <1>1, <1>2, <1>5, GotoCalm

LEMMA MarkOpen ==
    ASSUME TypeOK, NEW version, MarkReconciliation(version)
    PROVE  op'.state \in Terminal => op.state \in Terminal
    BY DEF TypeOK, MarkReconciliation, SetOperation, Operations, Terminal

LEMMA CalmExecSteps ==
    ASSUME TypeOK, PermitGuards, NEW e \in Execs,
           \/ CreateIntent(e) \/ GetOperation(e) \/ SendReserve(e) \/ ReserveAnswer(e)
           \/ BindReservation(e) \/ CreateJob(e) \/ GiveUp(e) \/ BeforeSupplierRequest(e)
           \/ ClaimDispatch(e) \/ DispatchAnswer(e) \/ SupplierAccepted(e)
           \/ SupplierFailed(e) \/ Failover(e) \/ FinishMark(e) \/ ExecCrash(e)
    PROVE  Calm /\ Goes
<1>1. op \in Operations /\ exec \in [Execs -> ExecRecords] /\ task \in [Execs -> TaskRecords]
    BY DEF TypeOK
<1>2. UNCHANGED <<outbox, receipt, auth, permits>>
    BY DEF CreateIntent, GetOperation, SendReserve, ReserveAnswer, BindReservation, CreateJob,
           GiveUp, BeforeSupplierRequest, ClaimDispatch, DispatchAnswer, SupplierAccepted,
           SupplierFailed, Failover, FinishMark, ExecCrash, storeVars, remoteVars
<1>3. \A x \in Execs : /\ task[x].st \in Working => x \in permits
                       /\ exec[x].pc = "supplier" => x \in permits
    BY DEF PermitGuards, WorkIsPermitted
<1> DEFINE CalmExec ==
        \A x \in Execs : exec'[x] = exec[x] \/ exec'[x].pc \notin {"release", "supplier"}
    CalmTask == \A x \in Execs : task'[x].st \in Working => x \in permits
    Open == op'.state \in Terminal => op.state \in Terminal
<1>4. SUFFICES CalmExec /\ CalmTask /\ Open
    BY <1>2 DEF Calm, Goes
<1>5. CASE UNCHANGED task /\ (CreateIntent(e) \/ GetOperation(e) \/ SendReserve(e)
                               \/ ReserveAnswer(e) \/ BindReservation(e))
  <2>1. CalmTask
      BY <1>3, <1>5
  <2>2. CASE CreateIntent(e)
    <3>1. CalmExec
        BY <1>1, <2>2 DEF CreateIntent, ExecRecords
    <3>2. Open
        BY <1>1, <2>2 DEF CreateIntent, Operations, Terminal
    <3>3. QED  BY <2>1, <3>1, <3>2
  <2>3. CASE GetOperation(e) \/ ReserveAnswer(e)
    <3>1. CASE exec' = [exec EXCEPT ![e].pc = "bind", ![e].got = Remote]
      <4>1. CalmExec
          BY <1>1, <3>1 DEF ExecRecords
      <4>2. QED  BY <2>1, <2>3, <4>1 DEF GetOperation, ReserveAnswer, storeVars
    <3>2. CASE \E pc \in {"reserve", "requery", "ended"} : Goto(e, pc) \/ Leave(e, pc)
      <4>1. CalmExec
          BY <1>1, <3>2, GotoCalm
      <4>2. QED  BY <2>1, <2>3, <4>1 DEF GetOperation, ReserveAnswer, storeVars
    <3>3. QED  BY <2>3, <3>1, <3>2 DEF GetOperation, ReserveAnswer
  <2>4. CASE SendReserve(e)
      BY <1>1, <2>1, <2>4, GotoCalm DEF SendReserve, storeVars
  <2>5. CASE BindReservation(e)
    <3>1. CalmExec
        BY <1>1, <2>5, GotoCalm DEF BindReservation
    <3>2. Open
        BY <1>1, <2>5 DEF BindReservation, Operations, Terminal
    <3>3. QED  BY <2>1, <3>1, <3>2
  <2>6. QED  BY <1>5, <2>2, <2>3, <2>4, <2>5
<1>6. CASE CreateJob(e)
    BY <1>1, <1>3, <1>6 DEF CreateJob, storeVars, TaskRecords, Working
<1>7. CASE GiveUp(e) \/ SupplierFailed(e)
    BY <1>7, AbandonCalm DEF GiveUp, SupplierFailed, storeVars
<1>8. CASE BeforeSupplierRequest(e)
  <2>1. CASE Abandon(e)
      BY <1>8, <2>1, AbandonCalm DEF BeforeSupplierRequest, storeVars
  <2>2. CASE /\ exec' = [exec EXCEPT ![e].pc = "claim", ![e].attempted = TRUE,
                                     ![e].seen = Snapshot]
             /\ UNCHANGED task
    <3>1. CalmExec
        BY <1>1, <2>2 DEF ExecRecords
    <3>2. QED  BY <1>3, <1>8, <2>2, <3>1 DEF BeforeSupplierRequest, storeVars
  <2>3. QED  BY <1>8, <2>1, <2>2 DEF BeforeSupplierRequest
<1>9. CASE ClaimDispatch(e)
  <2>1. CASE Abandon(e) /\ UNCHANGED op
      BY <2>1, AbandonCalm
  <2>2. CASE Goto(e, "dispatching") /\ UNCHANGED task
             /\ op' = [op EXCEPT !.state = "dispatching", !.attempt = e, !.version = @ + 1]
    <3>1. CalmExec
        BY <1>1, <2>2, GotoCalm
    <3>2. Open
        BY <1>1, <2>2 DEF Operations, Terminal
    <3>3. QED  BY <1>3, <2>2, <3>1, <3>2
  <2>3. QED  BY <1>9, <2>1, <2>2 DEF ClaimDispatch
<1>10. CASE DispatchAnswer(e)
  <2>1. CASE Abandon(e)
      BY <1>10, <2>1, AbandonCalm DEF DispatchAnswer, storeVars
  <2>2. CASE /\ exec' = [exec EXCEPT ![e].pc = "confirm",
                   ![e].got = [state |-> "dispatched", ver |-> exec[e].seen.rver + 1]]
             /\ UNCHANGED task
    <3>1. CalmExec
        BY <1>1, <2>2 DEF ExecRecords
    <3>2. QED  BY <1>3, <1>10, <2>2, <3>1 DEF DispatchAnswer, storeVars
  <2>3. QED  BY <1>10, <2>1, <2>2 DEF DispatchAnswer
<1>11. CASE SupplierAccepted(e)
  <2>1. e \in permits
      BY <1>3, <1>11 DEF SupplierAccepted
  <2>2. CalmTask
      BY <1>1, <1>3, <1>11, <2>1 DEF SupplierAccepted
  <2>3. CalmExec
      BY <1>1, <1>11 DEF SupplierAccepted, ExecRecords
  <2>4. QED  BY <1>11, <2>2, <2>3 DEF SupplierAccepted, storeVars
<1>12. CASE Failover(e)
    BY <1>1, <1>3, <1>12, GotoCalm DEF Failover, storeVars
<1>13. CASE FinishMark(e)
  <2>1. CalmExec
      BY <1>1, <1>13, GotoCalm DEF FinishMark
  <2>2. Open
      BY <1>13, MarkOpen DEF FinishMark
  <2>3. QED  BY <1>3, <1>13, <2>1, <2>2 DEF FinishMark
<1>14. CASE ExecCrash(e)
  <2>1. CalmExec
      BY <1>1, <1>14, GotoCalm DEF ExecCrash
  <2>2. CalmTask
      BY <1>1, <1>3, <1>14 DEF ExecCrash, TaskRecords, Working
  <2>3. QED  BY <1>14, <2>1, <2>2 DEF ExecCrash, storeVars
<1>15. QED
    BY <1>5, <1>6, <1>7, <1>8, <1>9, <1>10, <1>11, <1>12, <1>13, <1>14
    DEF CreateIntent, GetOperation, SendReserve, ReserveAnswer, BindReservation

\* The event is queued: it says what the permit says.
LEMMA EnqueueFits ==
    ASSUME TypeOK, TypeOK', PermitGuards, Kept, UNCHANGED <<permits, auth, receipt>>,
           NEW kind \in Kinds, NEW expected, EnqueueTx(kind, expected),
           expected = op.rver => (kind = "settle" <=> permits # {}),
           \A x \in Execs : exec'[x] = exec[x] \/ exec'[x].pc \notin {"release", "supplier"},
           \A x \in Execs : task'[x].st \in Working => x \in permits
    PROVE  PermitGuards' /\ Goes
<1>1. CASE UNCHANGED <<op, outbox>>
    BY <1>1, CalmKeeps DEF Calm, Goes
<1>2. CASE /\ expected = op.rver /\ outbox.status = "none"
           /\ outbox' = [outbox EXCEPT !.status = "pending", !.kind = kind,
                                       !.expected = expected]
           /\ SetOperation(PendingState(kind))
  <2>1. /\ outbox'.kind = kind /\ op'.rver = op.rver /\ op'.state = PendingState(kind)
        /\ op.rver \in Nat
      BY <1>2 DEF TypeOK, SetOperation, Operations, Events
  <2>2. op'.state \notin Terminal
      BY <2>1 DEF PendingState, Terminal
  <2>3. EventFits'
      BY <1>2, <2>1 DEF EventFits
  <2>4. ASSUME NEW x \in Execs PROVE WorkIsPermitted(x)' /\ ReleaseIsOld(x)'
    <3>1. CASE exec'[x] = exec[x]
        BY <2>1, <3>1 DEF PermitGuards, WorkIsPermitted, ReleaseIsOld
    <3>2. CASE exec'[x].pc \notin {"release", "supplier"}
        BY <3>2 DEF WorkIsPermitted, ReleaseIsOld
    <3>3. QED  BY <3>1, <3>2
  <2>5. ~receipt
    <3>1. op.state \in EnqueueFrom(kind)
        BY <1>1, <1>2 DEF EnqueueTx, TypeOK, Events
    <3>2. QED  BY <3>1 DEF PermitGuards, EnqueueFrom, Terminal
  <2>6. QED  BY <2>2, <2>3, <2>4, <2>5 DEF PermitGuards, Goes
<1>3. QED  BY <1>1, <1>2 DEF EnqueueTx

\* The permit: the row leaves the version of the reservation behind, no event was
\* queued yet, and nobody else has one.
LEMMA ConfirmGuards ==
    ASSUME RowsInv, TypeOK', PermitInv, PermitGuards, Kept, NEW e \in Execs, ConfirmDispatched(e)
    PROVE  PermitGuards' /\ Promised
<1>1. /\ op \in Operations /\ exec \in [Execs -> ExecRecords] /\ op.rver \in Nat /\ TypeOK
      /\ \A x \in Execs : exec[x].seen.rver \in Nat
    BY GuardTypes DEF RowsInv
<1>2. UNCHANGED <<outbox, receipt, auth>>
    BY DEF ConfirmDispatched, remoteVars
<1>3. CASE permits' = permits /\ Abandon(e)
  <2>1. op'.state \in Terminal => op.state \in Terminal
      BY <1>1 DEF ConfirmDispatched, Operations, Terminal
  <2>2. QED  BY <1>1, <1>2, <1>3, <2>1, AbandonCalm, CalmKeeps DEF Calm, Goes, Promised
<1>4. CASE permits' # permits \/ ~Abandon(e)
  <2>1. /\ op.state = "dispatching" /\ op.attempt = e /\ exec[e].pc = "confirm"
        /\ op' = [op EXCEPT !.state = "dispatched", !.version = @ + 1, !.rver = exec[e].got.ver]
        /\ permits' = permits \cup {e} /\ Leave(e, "supplier") /\ UNCHANGED task
      BY <1>4 DEF ConfirmDispatched
  <2>2. op'.state = "dispatched" /\ op'.rver = op.rver + 1
    <3>1. exec[e].got.ver = op.rver + 1
        BY <2>1 DEF RowsInv, Versions, Fresh
    <3>2. QED  BY <1>1, <2>1, <3>1 DEF Operations
  <2>3. outbox.status = "none"
      BY <1>1, <2>1 DEF RowsInv, Closing, RowsAgree, PendingState, TargetState, Terminal,
                        Deliverable, TypeOK, Events
  <2>4. permits \subseteq {e}
      BY <2>1, InvImpliesOnePermit DEF OnePermit
  <2>5. op.state \notin Terminal /\ op'.state \notin Terminal
      BY <2>1, <2>2 DEF Terminal
  <2>6. exec'[e].pc = "supplier" /\ \A x \in Execs \ {e} : exec'[x] = exec[x]
      BY <1>1, <2>1 DEF Leave, ExecRecords
  <2>7. WorkIsPermitted(e)' /\ ReleaseIsOld(e)'
      BY <2>1, <2>6 DEF WorkIsPermitted, ReleaseIsOld
  <2>8. ASSUME NEW x \in Execs \ {e} PROVE WorkIsPermitted(x)' /\ ReleaseIsOld(x)'
      BY <1>1, <2>1, <2>2, <2>6 DEF PermitGuards, WorkIsPermitted, ReleaseIsOld
  <2>9. PermitGuards'
      BY <1>2, <2>3, <2>5, <2>7, <2>8 DEF PermitGuards, EventFits
  <2>10. QED  BY <1>2, <2>1, <2>4, <2>5, <2>9 DEF Promised, Grants
<1>5. QED  BY <1>3, <1>4

LEMMA FinishGuards ==
    ASSUME TypeOK, TypeOK', PermitInv, PermitGuards, Kept, NEW e \in Execs,
           Finish(e) \/ FinishRelease(e)
    PROVE  PermitGuards' /\ Goes
<1>1. /\ op \in Operations /\ exec \in [Execs -> ExecRecords] /\ op.rver \in Nat
      /\ \A x \in Execs : exec[x].seen.rver \in Nat
    BY GuardTypes
<1>2. UNCHANGED <<receipt, auth, permits, task>>
    BY DEF Finish, FinishRelease, storeVars, remoteVars
<1>3. \A x \in Execs : task'[x].st \in Working => x \in permits
    BY <1>2 DEF PermitGuards, WorkIsPermitted
<1>4. CASE Finish(e)
  <2>1. UNCHANGED <<op, outbox>>
      BY <1>4 DEF Finish, storeVars
  <2>2. /\ exec'[e].seen = Snapshot /\ exec'[e].pc \in {"release", "mark", "ended"}
        /\ exec'[e].pc = "release" => op.state = "reserved"
        /\ \A x \in Execs \ {e} : exec'[x] = exec[x]
      BY <1>1, <1>4 DEF Finish, ExecRecords
  <2>3. op.state = "reserved" => permits = {}
      BY DEF PermitInv, Undispatched
  <2>4. WorkIsPermitted(e)' /\ ReleaseIsOld(e)'
      BY <1>1, <1>2, <1>3, <2>1, <2>2, <2>3 DEF WorkIsPermitted, ReleaseIsOld, Snapshot
  <2>5. ASSUME NEW x \in Execs \ {e} PROVE WorkIsPermitted(x)' /\ ReleaseIsOld(x)'
      BY <1>2, <2>1, <2>2 DEF PermitGuards, WorkIsPermitted, ReleaseIsOld
  <2>6. QED  BY <1>2, <2>1, <2>4, <2>5 DEF PermitGuards, EventFits, Goes
<1>5. CASE FinishRelease(e)
  <2>1. PICK n \in Nat : n = exec[e].seen.rver
      BY <1>1
  <2>2. EnqueueTx("release", n) /\ exec[e].pc = "release" /\ Leave(e, "ended")
      BY <1>5, <2>1 DEF FinishRelease
  <2>3. n = op.rver => permits = {}
    <3>1. permits # {} => exec[e].seen.rver < op.rver
        BY <2>2 DEF PermitGuards, ReleaseIsOld
    <3>2. QED  BY <1>1, <2>1, <3>1
  <2>4. \A x \in Execs : exec'[x] = exec[x] \/ exec'[x].pc \notin {"release", "supplier"}
      BY <1>1, <2>2, GotoCalm
  <2>5. "release" \in Kinds
      BY DEF Kinds
  <2>6. QED  BY <1>2, <1>3, <2>2, <2>3, <2>4, <2>5, EnqueueFits
<1>6. QED  BY <1>4, <1>5

LEMMA TaskGuards ==
    ASSUME TypeOK, TypeOK', PermitGuards, Kept, NEW e \in Execs, TaskStep(e)
    PROVE  PermitGuards' /\ Goes
<1>1. task \in [Execs -> TaskRecords] /\ task[e] \in TaskRecords
    BY DEF TypeOK
<1>2. UNCHANGED <<receipt, auth, permits, exec>>
    BY DEF TaskStep, JobReport, ReconcileFailure, ReconcileFailureMark, AttachUsage,
           ApplyUsage, TaskCrash, storeVars, remoteVars
<1>3. \A x \in Execs : task[x].st \in Working => x \in permits
    BY DEF PermitGuards, WorkIsPermitted
<1>4. \A x \in Execs : task'[x].st \in Working => x \in permits
  <2>1. \A x \in Execs \ {e} : task'[x] = task[x]
      BY <1>1 DEF TaskStep, JobReport, ReconcileFailure, ReconcileFailureMark, AttachUsage,
                  ApplyUsage, TaskCrash
  <2>2. CASE JobReport(e) \/ AttachUsage(e) \/ ApplyUsage(e) \/ TaskCrash(e)
    <3>1. e \in permits
        BY <1>3, <2>2 DEF JobReport, AttachUsage, ApplyUsage, TaskCrash, Working
    <3>2. QED  BY <1>3, <2>1, <3>1
  <2>3. CASE ReconcileFailure(e) \/ ReconcileFailureMark(e)
    <3>1. task'[e].st \in {"marking", "failed"}
        BY <1>1, <2>3 DEF ReconcileFailure, ReconcileFailureMark, TaskRecords
    <3>2. QED  BY <1>3, <2>1, <3>1 DEF Working
  <2>4. QED  BY <2>2, <2>3 DEF TaskStep
<1>5. CASE JobReport(e) \/ ReconcileFailure(e) \/ AttachUsage(e) \/ TaskCrash(e)
  <2>1. UNCHANGED <<op, outbox>>
      BY <1>5 DEF JobReport, ReconcileFailure, AttachUsage, TaskCrash, storeVars
  <2>2. QED  BY <1>2, <1>4, <2>1, CalmKeeps DEF Calm, Goes
<1>6. CASE ReconcileFailureMark(e)
  <2>1. UNCHANGED outbox /\ MarkReconciliation(task[e].seen.version)
      BY <1>6 DEF ReconcileFailureMark
  <2>2. QED  BY <1>2, <1>4, <2>1, MarkOpen, CalmKeeps DEF Calm, Goes
<1>7. CASE ApplyUsage(e)
  <2>1. EnqueueTx("settle", task[e].seen.rver) /\ e \in permits
      BY <1>3, <1>7 DEF ApplyUsage, Working
  <2>2. "settle" \in Kinds
      BY DEF Kinds
  <2>3. QED  BY <1>2, <1>4, <2>1, <2>2, EnqueueFits
<1>8. QED  BY <1>5, <1>6, <1>7 DEF TaskStep

LEMMA WorkerGuards ==
    ASSUME RowsInv, TypeOK', PermitGuards, Kept, NEW w \in Workers, WorkerStep(w)
    PROVE  PermitGuards' /\ Promised
<1>1. /\ TypeOK /\ op \in Operations /\ outbox \in Events /\ op.state \in OperationStates
      /\ worker[w] \in WorkerRecords
    BY DEF RowsInv, TypeOK, Operations
<1>2. UNCHANGED <<auth, permits, exec, task>>
    BY DEF WorkerStep, PendingReconciliations, FetchResolution, NothingToReconcile,
           ApplyReconciliation, Claim, NothingToClaim, DeliveryConfirmed, Complete, Retry,
           WorkerCrash, WorkerFrame, remoteVars
<1>3. \A x \in Execs : task[x].st \in Working => x \in permits
    BY DEF PermitGuards, WorkIsPermitted
<1>4. ASSUME outbox'.kind = outbox.kind, outbox'.status = "none" <=> outbox.status = "none",
             receipt' => receipt \/ op'.state \in Terminal
      PROVE  PermitGuards'
    BY <1>1, <1>2, <1>3, <1>4, CalmKeeps DEF Calm
<1>5. CASE \/ PendingReconciliations(w) \/ FetchResolution(w) \/ NothingToReconcile(w)
           \/ Claim(w) \/ NothingToClaim(w) \/ DeliveryConfirmed(w) \/ WorkerCrash(w)
  <2>1. UNCHANGED <<op, receipt>>
      BY <1>5 DEF PendingReconciliations, FetchResolution, NothingToReconcile, Claim,
                  NothingToClaim, DeliveryConfirmed, WorkerCrash, storeVars
  <2>2. outbox'.kind = outbox.kind /\ (outbox'.status = "none" <=> outbox.status = "none")
      BY <1>1, <1>5 DEF PendingReconciliations, FetchResolution, NothingToReconcile, Claim,
                  NothingToClaim, DeliveryConfirmed, WorkerCrash, storeVars, Events, Deliverable
  <2>3. QED  BY <1>2, <1>4, <2>1, <2>2 DEF Promised, Goes
<1>6. ASSUME NEW permanent \in BOOLEAN, Retry(w, permanent) PROVE PermitGuards' /\ Promised
  <2>1. UNCHANGED receipt
      BY <1>6 DEF Retry
  <2>2. outbox'.kind = outbox.kind /\ (outbox'.status = "none" <=> outbox.status = "none")
      BY <1>1, <1>6 DEF Retry, HoldsLease, Events
  <2>3. op'.state \in Terminal => op.state \in Terminal
      BY <1>1, <1>6 DEF Retry, SetOperation, Operations, Terminal
  <2>4. QED  BY <1>2, <1>4, <2>1, <2>2, <2>3 DEF Promised, Goes
<1>7. CASE Complete(w)
  <2>1. CASE UNCHANGED <<op, outbox>>
      BY <1>2, <1>4, <1>7, <2>1 DEF Complete, Promised, Goes
  <2>2. CASE /\ HoldsLease(w) /\ op.state = PendingState(outbox.kind)
             /\ outbox' = [outbox EXCEPT !.status = "delivered",
                                         !.holder = NoWorker, !.live = FALSE]
             /\ op' = [op EXCEPT !.state = TargetState(outbox.kind),
                                 !.version = @ + 1, !.rver = worker[w].got.ver]
    <3>1. /\ outbox'.kind = outbox.kind /\ outbox'.status = "delivered"
          /\ outbox.status = "processing" /\ receipt' = receipt
          /\ op'.state = TargetState(outbox.kind)
        BY <1>1, <1>7, <2>2 DEF Complete, HoldsLease, Operations, Events
    <3>2. op.state \notin Terminal
        BY <2>2 DEF PendingState, Terminal
    <3>3. QED  BY <1>2, <1>4, <3>1, <3>2 DEF Promised, Delivers
  <2>3. QED  BY <1>7, <2>1, <2>2 DEF Complete
<1>8. CASE ApplyReconciliation(w)
  <2>1. CASE UNCHANGED storeVars
      BY <1>2, <1>4, <2>1 DEF storeVars, Promised, Goes
  <2>2. CASE /\ op.state \in Reconcilable /\ receipt' = TRUE
             /\ op' = [op EXCEPT !.state = worker[w].got.state, !.version = @ + 1,
                                 !.rver = worker[w].got.ver]
             /\ outbox' = IF outbox.status \in {"pending", "processing", "blocked"}
                          THEN [outbox EXCEPT !.status = "superseded",
                                              !.holder = NoWorker, !.live = FALSE]
                          ELSE outbox
    <3>1. worker[w].got.state \in Terminal
        BY <1>8 DEF ApplyReconciliation, RowsInv, Decisions
    <3>2. op'.state \in Terminal /\ op.state \notin Terminal
        BY <1>1, <2>2, <3>1 DEF Operations, Reconcilable, Terminal
    <3>3. outbox'.kind = outbox.kind /\ (outbox'.status = "none" <=> outbox.status = "none")
        BY <1>1, <2>2 DEF Events
    <3>4. QED  BY <1>2, <1>4, <2>2, <3>2, <3>3 DEF Promised, Decides
  <2>3. QED  BY <1>8, <2>1, <2>2 DEF ApplyReconciliation
<1>9. QED  BY <1>5, <1>6, <1>7, <1>8 DEF WorkerStep

\* A hold that runs out was never dispatched.
LEMMA AuthorityGuards ==
    ASSUME TypeOK, TypeOK', PermitGuards, Closing,
           AuthorityStep \/ LeaseExpires \/ Replay
    PROVE  PermitGuards' /\ Goes
<1>1. UNCHANGED <<op, receipt, exec, permits, task>>
    BY DEF AuthorityStep, AuthorityReserve, AuthorityTerminal, AuthorityExpire, AdminResolve,
           AuthorityDispatch, AuthorityFrame, LeaseExpires, Replay, storeVars
<1>2. CASE LeaseExpires \/ Replay
  <2>1. outbox'.kind = outbox.kind /\ (outbox'.status = "none" <=> outbox.status = "none")
        /\ auth' = auth
      BY <1>2 DEF TypeOK, Events, LeaseExpires, Replay, remoteVars
  <2>2. QED  BY <1>1, <2>1 DEF PermitGuards, WorkIsPermitted, ReleaseIsOld, EventFits, Goes
<1>3. CASE AuthorityStep
  <2>1. UNCHANGED outbox
      BY <1>3 DEF AuthorityStep, AuthorityReserve, AuthorityTerminal, AuthorityExpire,
                  AdminResolve, AuthorityDispatch, AuthorityFrame, storeVars
  <2>2. auth'.state \in {"none", "reserved"} \/ auth'.by = "expiry" => auth'.attempts = {}
    <3>1. auth \in Accounts
        BY DEF TypeOK
    <3>2. CASE AuthorityReserve \/ AuthorityExpire
        BY <3>1, <3>2 DEF Accounts, AuthorityReserve, AuthorityExpire, PermitGuards
    <3>3. CASE AuthorityTerminal \/ AdminResolve
        BY <3>1, <3>3 DEF Accounts, AuthorityTerminal, AdminResolve, TargetState, Terminal
    <3>4. CASE \E m \in dispatchSent : AuthorityDispatch(m)
      <4>1. auth.state = "reserved" /\ auth'.by = auth.by /\ auth'.state = "dispatched"
          BY <3>1, <3>4 DEF Accounts, AuthorityDispatch
      <4>2. auth.by = "none"
          BY <4>1 DEF Closing, Verdicts, Terminal
      <4>3. QED  BY <4>1, <4>2
    <3>5. QED  BY <1>3, <3>2, <3>3, <3>4 DEF AuthorityStep
  <2>3. QED  BY <1>1, <2>1, <2>2 DEF PermitGuards, WorkIsPermitted, ReleaseIsOld, EventFits, Goes
<1>4. QED  BY <1>2, <1>3

-----------------------------------------------------------------------------
(* The permit and the money. *)

MoneyInv == RowsInv /\ PermitInv /\ PermitGuards

LEMMA InitMoney == ASSUME Init PROVE MoneyInv
<1>1. RowsInv /\ PermitInv
    BY InitRows, InitInv DEF Inv
<1>2. PermitGuards
    BY DEF Init, PermitGuards, WorkIsPermitted, ReleaseIsOld, EventFits, Working
<1>3. QED  BY <1>1, <1>2 DEF MoneyInv

LEMMA NextMoney ==
    ASSUME MoneyInv, [Next]_vars
    PROVE  MoneyInv' /\ ((Kept /\ Promised) \/ UNCHANGED vars)
<1>1. RowsInv /\ PermitInv /\ PermitGuards /\ TypeOK /\ Decisions /\ Closing
    BY DEF MoneyInv, RowsInv
<1>2. RowsInv' /\ TypeOK' /\ PermitInv' /\ (Kept \/ UNCHANGED vars)
    BY <1>1, NextRows, NextPermit DEF RowsInv
<1>3. CASE UNCHANGED vars
  <2>1. PermitGuards'
      BY <1>1, <1>3 DEF vars, storeVars, remoteVars, PermitGuards, WorkIsPermitted, ReleaseIsOld,
                        EventFits
  <2>2. QED  BY <1>2, <1>3, <2>1 DEF MoneyInv
<1>4. CASE Next /\ Kept
  <2>1. ASSUME NEW e \in Execs, ExecStep(e) PROVE PermitGuards' /\ Promised
    <3>1. CASE ConfirmDispatched(e)
        BY <1>1, <1>2, <1>4, <3>1, ConfirmGuards
    <3>2. CASE Finish(e) \/ FinishRelease(e)
        BY <1>1, <1>2, <1>4, <3>2, FinishGuards DEF Promised
    <3>3. CASE \/ CreateIntent(e) \/ GetOperation(e) \/ SendReserve(e) \/ ReserveAnswer(e)
               \/ BindReservation(e) \/ CreateJob(e) \/ GiveUp(e) \/ BeforeSupplierRequest(e)
               \/ ClaimDispatch(e) \/ DispatchAnswer(e) \/ SupplierAccepted(e)
               \/ SupplierFailed(e) \/ Failover(e) \/ FinishMark(e) \/ ExecCrash(e)
        BY <1>1, <1>2, <1>4, <3>3, CalmExecSteps, CalmKeeps DEF Promised
    <3>4. QED  BY <2>1, <3>1, <3>2, <3>3 DEF ExecStep
  <2>2. ASSUME NEW e \in Execs, TaskStep(e) PROVE PermitGuards' /\ Promised
      BY <1>1, <1>2, <1>4, <2>2, TaskGuards DEF Promised
  <2>3. ASSUME NEW w \in Workers, WorkerStep(w) PROVE PermitGuards' /\ Promised
      BY <1>1, <1>2, <1>4, <2>3, WorkerGuards
  <2>4. ASSUME AuthorityStep \/ LeaseExpires \/ Replay PROVE PermitGuards' /\ Promised
    <3>1. PermitGuards' /\ Goes
        BY <1>1, <1>2, <1>4, <2>4, AuthorityGuards
    <3>2. QED  BY <3>1 DEF Promised
  <2>5. PermitGuards' /\ Promised
    <3>1. CASE \E e \in Execs : ExecStep(e) \/ TaskStep(e)
        BY <2>1, <2>2, <3>1
    <3>2. CASE \E w \in Workers : WorkerStep(w)
        BY <2>3, <3>2
    <3>3. CASE AuthorityStep \/ LeaseExpires \/ Replay
        BY <2>4, <3>3
    <3>4. QED  BY <1>4, <3>1, <3>2, <3>3 DEF Next
  <2>6. QED  BY <1>2, <1>4, <2>5 DEF MoneyInv
<1>5. CASE Next /\ UNCHANGED vars
    BY <1>3, <1>5
<1>6. QED  BY <1>2, <1>3, <1>4

\* The inductive invariant: what RowsInv and PermitInv say, and that every message
\* about the money fits the permit.
THEOREM MoneyHolds == Spec => []MoneyInv
<1>1. MoneyInv /\ [Next]_vars => MoneyInv'
    BY NextMoney
<1>2. QED  BY <1>1, InitMoney, PTL DEF Spec

\* Finish, the usage tasks and the media jobs each end an execution on their own
\* reads of the row: whatever the interleaving, work that may have reached the
\* supplier is never given back on the gateway's word.
THEOREM PermittedWorkStays == Spec => []NoReleaseOfPermittedWork
<1>1. MoneyInv => NoReleaseOfPermittedWork
  <2>1. SUFFICES ASSUME MoneyInv, permits # {} PROVE
            /\ outbox.kind = "release" => outbox.status = "none"
            /\ auth.state = "released" => auth.by = "admin"
      BY DEF NoReleaseOfPermittedWork
  <2>2. PermitGuards /\ Verdicts /\ outbox \in Events /\ auth \in Accounts
      BY <2>1 DEF MoneyInv, RowsInv, Closing, TypeOK
  <2>3. outbox.kind = "release" => outbox.status = "none"
      BY <2>1, <2>2 DEF PermitGuards, EventFits
  <2>4. ASSUME auth.state = "released" PROVE auth.by = "admin"
    <3>1. auth.by \in {"event", "expiry", "admin"}
        BY <2>2, <2>4 DEF Verdicts, Terminal, Accounts
    <3>2. auth.by # "event"
      <4>1. SUFFICES ASSUME auth.by = "event" PROVE FALSE
          OBVIOUS
      <4>2. outbox.status # "none" /\ TargetState(outbox.kind) = "released"
          BY <2>2, <2>4, <4>1 DEF Verdicts
      <4>3. outbox.kind # "settle"
          BY <4>2 DEF TargetState
      <4>4. QED  BY <2>1, <2>2, <4>2, <4>3 DEF PermitGuards, EventFits
    <3>3. auth.by # "expiry"
        BY <2>1, <2>2 DEF MoneyInv, PermitInv, PermitGuards
    <3>4. QED  BY <3>1, <3>2, <3>3
  <2>5. QED  BY <2>3, <2>4
<1>2. QED  BY <1>1, MoneyHolds, PTL

\* A settlement is enqueued only on the usage of work that was permitted, however
\* the tasks and jobs of the executions interleave.
THEOREM ChargesAreForWork == Spec => []NoChargeWithoutWork
<1>1. MoneyInv => NoChargeWithoutWork
  <2>1. SUFFICES ASSUME MoneyInv, auth.state = "settled", auth.by = "event" PROVE permits # {}
      BY DEF NoChargeWithoutWork
  <2>2. PermitGuards /\ Verdicts
      BY <2>1 DEF MoneyInv, RowsInv, Closing
  <2>3. outbox.status # "none" /\ TargetState(outbox.kind) = "settled"
      BY <2>1, <2>2 DEF Verdicts
  <2>4. outbox.kind = "settle"
      BY <2>3 DEF TargetState
  <2>5. QED  BY <2>2, <2>3, <2>4 DEF PermitGuards, EventFits
<1>2. QED  BY <1>1, MoneyHolds, PTL

\* One step of the protocol is one step, or none, of BillingPermit.
LEMMA PermitStep ==
    ASSUME MoneyInv, MoneyInv', Kept, Promised
    PROVE  [Permit!Next]_(Permit!vars)
<1> DEFINE outcome == IF op.state \in Terminal THEN op.state ELSE "open"
           closedBy == IF op.state \notin Terminal THEN "nobody"
                       ELSE IF receipt THEN "operator" ELSE "gateway"
<1>1. op.state \in Terminal => op' = op
    BY DEF Kept
<1>2. CASE Goes
  <2>1. permits' = permits /\ outcome' = outcome /\ closedBy' = closedBy
      BY <1>1, <1>2 DEF Goes
  <2>2. QED  BY <2>1 DEF Permit!vars
<1>3. CASE Grants
  <2>1. PICK e \in Execs : permits' = permits \cup {e} /\ permits \subseteq {e}
      BY <1>3 DEF Grants
  <2>2. outcome = "open" /\ outcome' = outcome /\ closedBy' = closedBy
      BY <1>3 DEF Grants
  <2>3. CASE permits = {}
      BY <2>1, <2>2, <2>3 DEF Permit!Next, Permit!Grant
  <2>4. CASE permits # {}
      BY <2>1, <2>2, <2>4 DEF Permit!vars
  <2>5. QED  BY <2>3, <2>4
<1>4. CASE Delivers
  <2>1. EventFits /\ outbox.kind \in Kinds /\ outbox.status # "none" /\ permits' = permits
        /\ (receipt => op.state \in Terminal) /\ receipt' = receipt
      BY <1>4 DEF MoneyInv, PermitGuards, RowsInv, TypeOK, Events, Delivers
  <2>2. /\ op.state \notin Terminal /\ op'.state = TargetState(outbox.kind)
        /\ TargetState(outbox.kind) \in Terminal
      BY <1>4 DEF Delivers, TargetState, Terminal
  <2>3. outcome = "open" /\ outcome' = TargetState(outbox.kind) /\ closedBy' = "gateway"
      BY <2>1, <2>2
  <2>4. CASE outbox.kind = "settle"
    <3>1. permits # {} /\ outcome' = "settled"
        BY <2>1, <2>3, <2>4 DEF EventFits, TargetState
    <3>2. QED  BY <2>1, <2>3, <3>1 DEF Permit!Next, Permit!Settle, Permit!Close
  <2>5. CASE outbox.kind = "release"
    <3>1. permits = {} /\ outcome' = "released"
        BY <2>1, <2>3, <2>5 DEF EventFits, TargetState
    <3>2. QED  BY <2>1, <2>3, <3>1 DEF Permit!Next, Permit!Release, Permit!Close
  <2>6. QED  BY <2>1, <2>4, <2>5 DEF Kinds
<1>5. CASE Decides
  <2>1. /\ outcome = "open" /\ outcome' \in {"settled", "released"} /\ closedBy' = "operator"
        /\ permits' = permits
      BY <1>5 DEF Decides, Terminal
  <2>2. QED  BY <2>1 DEF Permit!Next, Permit!Decide, Permit!Close
<1>6. QED  BY <1>2, <1>3, <1>4, <1>5 DEF Promised

\* The whole protocol - reads and writes of many processes, an outbox, lost and late
\* answers, operators - implements the promise of BillingPermit.
THEOREM KeepsThePromise == Spec => ImplementsPermit
<1>1. Init => Permit!Init
    BY DEF Init, Permit!Init, Terminal
<1>2. MoneyInv /\ MoneyInv' /\ [Next]_vars => [Permit!Next]_(Permit!vars)
  <2>1. SUFFICES ASSUME MoneyInv, MoneyInv', [Next]_vars PROVE [Permit!Next]_(Permit!vars)
      OBVIOUS
  <2>2. CASE UNCHANGED vars
      BY <2>2 DEF vars, storeVars, Permit!vars
  <2>3. CASE Kept /\ Promised
      BY <2>1, <2>3, PermitStep
  <2>4. QED  BY <2>1, <2>2, <2>3, NextMoney
<1>3. QED  BY <1>1, <1>2, MoneyHolds, PTL DEF Spec, ImplementsPermit, Permit!Spec
=============================================================================
