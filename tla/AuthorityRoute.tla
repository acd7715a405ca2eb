-------------------------- MODULE AuthorityRoute --------------------------
(***************************************************************************)
(* The move of one account's money from the local wallet to the billing    *)
(* authority: the operators' commands (cmd/billing-migrate), which carry   *)
(* its row of billing_center_account_routes from local to central, against *)
(* the writers of local money, which the triggers of migration 120 fence.  *)
(*                                                                         *)
(* Both sides take the lock of the account's users row. A writer runs at   *)
(* READ COMMITTED and reads the route once it holds the lock. A command    *)
(* runs at SERIALIZABLE: its snapshot is taken before it waits for the     *)
(* lock, and it fails when the row it waited for has been updated, not     *)
(* when it was only locked. A command dies, refuses or finds nothing to do *)
(* by giving up: nothing is left of it and it may be started again.        *)
(***************************************************************************)
EXTENDS Integers

CONSTANTS
    Writers,    \* sessions that write local money: charges, orders, refunds
    Operators,  \* operator sessions
    Batches,    \* migration batches
    Nothing,    \* no holder, no batch, no snapshot
    MinBalance, \* bound: work is admitted only while the wallet holds more
    StartBalance

VARIABLES
    route,    \* the account's row of billing_center_account_routes
    money,    \* what the account's local rows hold: wallet, one order, one key
    holder,   \* the writer that holds the lock of the users row
    writer,   \* what each writer is doing
    command,  \* what each operator's command is doing and what it read
    files,    \* snapshots that were written to a file
    recorded, \* the snapshot whose hash the audit row 'export' holds
    raced     \* an order was left open by a writer that Freeze waited for

vars == <<route, money, holder, writer, command, files, recorded, raced>>

-----------------------------------------------------------------------------
Modes  == {"none", "local", "shadow", "draining", "frozen", "central"}
Open   == {"none", "local", "shadow"}
Fenced == {"frozen", "central"}

\* The states of the order that Freeze accepts, and the others it counts.
Settled  == {"none", "completed", "refunded"}
Pending  == {"pending", "credited", "refund_requested", "refunding", "deducted"}

Moneys == [balance : Int, order : Settled \cup Pending, key : {"active", "disabled"}]

\* A snapshot is the money as the file shows it, under the batch of the route.
Snapshots == [batch : Batches, money : Moneys]

AuthorityAssumption ==
    /\ Nothing \notin Writers \cup Batches /\ Nothing \notin Snapshots
    /\ MinBalance \in Int /\ StartBalance \in Int /\ MinBalance < StartBalance

Routes == [mode : Modes, epoch : {0, 1}, batch : Batches \cup {Nothing},
           opening : Snapshots \cup {Nothing}]

Kinds == {"charge", "create", "credit", "complete", "request", "refund", "deduct", "close"}

\* Fulfilment goes on from the credit to the completion, and a refund from the
\* order's status to the deduction and the provider's answer: each is a
\* transaction of its own, and no check of the route lies between them.
GoesOn == [credit |-> "complete", refund |-> "deduct", deduct |-> "close"]

\* Status of the order a write is made in, and the one it leaves.
From == [create |-> {"none"}, credit |-> {"pending"}, complete |-> {"credited"},
         request |-> {"completed"}, refund |-> {"completed", "refund_requested"},
         deduct |-> {"refunding"}, close |-> {"deducted"}]
To   == [create |-> "pending", credit |-> "credited", complete |-> "completed",
         request |-> "refund_requested", refund |-> "refunding",
         deduct |-> "deducted", close |-> "refunded"]

WriterRecords == [pc : {"idle", "admitted", "locked", "refused"}, kind : Kinds]
IdleWriter == [pc |-> "idle", kind |-> "charge"]

CommandNames == {"map", "shadow", "drain", "freeze", "export", "record", "activate"}
Commands ==
    [pc : {"idle", "read", "written", "waiting"}, name : CommandNames,
     batch : Batches \cup {Nothing}, file : Snapshots \cup {Nothing},
     clear : BOOLEAN, recorded : Snapshots \cup {Nothing}]
IdleCommand ==
    [pc |-> "idle", name |-> "map", batch |-> Nothing, file |-> Nothing,
     clear |-> FALSE, recorded |-> Nothing]

Init ==
    /\ route = [mode |-> "none", epoch |-> 0, batch |-> Nothing, opening |-> Nothing]
    /\ money = [balance |-> StartBalance, order |-> "none", key |-> "active"]
    /\ holder = Nothing
    /\ writer = [w \in Writers |-> IdleWriter]
    /\ command = [o \in Operators |-> IdleCommand]
    /\ files = {} /\ recorded = Nothing /\ raced = FALSE

-----------------------------------------------------------------------------
(* The writers of local money. *)

\* Mutant: a draining account still takes new work.
AdmitsWhileDraining(kind) == route.mode \in Open \cup {"draining"}

\* The application's own check, made before the work and long before the write:
\* Route for requests, legacyPaymentAuthority for orders. A draining account takes
\* no new work, order or refund, and completes the orders it has.
Admits(kind) ==
    route.mode \in Open \cup (IF kind \in {"credit", "complete"} THEN {"draining"} ELSE {})

InStatus(kind) == kind # "charge" => money.order \in From[kind]

Admit(w) ==
    /\ writer[w].pc = "idle"
    /\ \E kind \in Kinds \ {"deduct", "close"} :
        /\ Admits(kind) /\ InStatus(kind)
        /\ kind = "charge" => money.balance > MinBalance
        /\ writer' = [writer EXCEPT ![w] = [pc |-> "admitted", kind |-> kind]]
    /\ UNCHANGED <<route, money, holder, command, files, recorded, raced>>

\* Mutant: the trigger reads the route without locking the users row.
AssertLegacyWriteUnlocked(w) ==
    /\ writer[w].pc = "admitted"
    /\ route.mode \notin Fenced /\ InStatus(writer[w].kind)
    /\ writer' = [writer EXCEPT ![w].pc = "locked"]
    /\ UNCHANGED <<route, money, holder, command, files, recorded, raced>>

\* The first write of the transaction: billing_center_assert_legacy_write locks
\* the users row, then reads the route as it is by then.
AssertLegacyWrite(w) ==
    /\ writer[w].pc = "admitted" /\ holder = Nothing
    /\ route.mode \notin Fenced /\ InStatus(writer[w].kind)
    /\ writer' = [writer EXCEPT ![w].pc = "locked"]
    /\ holder' = w
    /\ UNCHANGED <<route, money, command, files, recorded, raced>>

\* "legacy financial write fenced": the transaction is rolled back. A charge is
\* not tried again (55000 is not retryable) and is lost.
LegacyWriteFenced(w) ==
    /\ writer[w].pc = "admitted" /\ holder = Nothing
    /\ route.mode \in Fenced \/ ~InStatus(writer[w].kind)
    /\ writer' = [writer EXCEPT ![w] =
            IF @.kind = "charge" THEN [@ EXCEPT !.pc = "refused"] ELSE IdleWriter]
    /\ UNCHANGED <<route, money, holder, command, files, recorded, raced>>

\* An update of the users row fails every command that waits for it: it was not
\* in their snapshots.
Touch(commands) ==
    [o \in Operators |-> IF commands[o].pc = "waiting" THEN IdleCommand ELSE commands[o]]

Written(kind) ==
    [money EXCEPT
        !.balance = CASE kind \in {"charge", "deduct"} -> @ - 1
                      [] kind = "credit"   -> @ + 1
                      [] OTHER             -> @,
        !.order   = IF kind = "charge" THEN @ ELSE To[kind]]

\* The transaction ends. A credit and a deduction update the users row, a charge
\* does when the wallet pays and not a subscription, the rest only lock it.
Commit(w) ==
    /\ writer[w].pc = "locked"
    /\ LET kind == writer[w].kind
       IN /\ money' = Written(kind)
          /\ command' \in CASE kind \in {"credit", "deduct"} -> {Touch(command)}
                           [] kind = "charge"               -> {Touch(command), command}
                           [] OTHER                         -> {command}
          /\ writer' = [writer EXCEPT ![w] =
                IF kind \in DOMAIN GoesOn
                THEN [pc |-> "admitted", kind |-> GoesOn[kind]] ELSE IdleWriter]
    /\ holder' = IF holder = w THEN Nothing ELSE holder
    /\ UNCHANGED <<route, files, recorded, raced>>

\* The status of a key is exempt from the fence and takes no lock.
DisableKey ==
    /\ money.key = "active"
    /\ money' = [money EXCEPT !.key = "disabled"]
    /\ UNCHANGED <<route, holder, writer, command, files, recorded, raced>>

-----------------------------------------------------------------------------
(* The operators' commands. *)

\* Mutant: the evidence is not asked for.
ReviewedNever == TRUE

\* Reviewed DrainEvidence: no request of the gateway is under way or unrecorded.
\* It says nothing of orders, which Freeze counts itself.
Reviewed == \A w \in Writers :
    writer[w].kind = "charge" => writer[w].pc \notin {"admitted", "locked"}

\* BeginTx and the first statement, lockUser: the snapshot is what the command
\* will know of the orders and of the audit; the route cannot change unnoticed.
Waiting(o, name, batch, file) ==
    command' = [command EXCEPT ![o] =
        [pc |-> "waiting", name |-> name, batch |-> batch, file |-> file,
         clear |-> money.order \in Settled, recorded |-> recorded]]

BeginCommand(o) ==
    /\ command[o].pc = "idle"
    /\ \/ \E name \in {"map", "shadow"} : Waiting(o, name, Nothing, Nothing)
       \/ \E batch \in Batches : Waiting(o, "drain", batch, Nothing)
       \/ Reviewed /\ \E batch \in Batches : Waiting(o, "freeze", batch, Nothing)
       \* The target imported one of the files, and its receipt names that file.
       \/ \E file \in files : Waiting(o, "activate", file.batch, file)
    /\ UNCHANGED <<route, money, holder, writer, files, recorded, raced>>

\* lockUser returns: no writer holds the row, and nobody updated it meanwhile,
\* or the command would have failed.
HasLock(o, name) ==
    /\ command[o].pc = "waiting" /\ command[o].name = name /\ holder = Nothing

\* The command commits; its change of the route makes the trigger update the
\* users row. The trigger allows no other order of modes, and no other epoch.
SetRoute(o, new) ==
    /\ \/ route.mode \in Open /\ new.mode \in {"local", "shadow", "draining"}
       \/ route.mode = "draining" /\ new.mode = "frozen"
       \/ route.mode = "frozen" /\ new.mode = "central"
    /\ new.epoch = route.epoch + (IF new.mode = "central" THEN 1 ELSE 0)
    /\ route' = new
    /\ command' = [Touch(command) EXCEPT ![o] = IdleCommand]

\* INSERT .. ON CONFLICT DO NOTHING: the trigger updates the users row even when
\* the route exists, which then has to be the same.
Map(o) ==
    /\ HasLock(o, "map")
    /\ \/ /\ route.mode = "none"
          /\ SetRoute(o, [route EXCEPT !.mode = "local"])
       \/ /\ route.mode # "none" /\ route.epoch = 0
          /\ command' = [Touch(command) EXCEPT ![o] = IdleCommand]
          /\ UNCHANGED route
    /\ UNCHANGED <<money, holder, writer, files, recorded, raced>>

Shadow(o) ==
    /\ HasLock(o, "shadow") /\ route.mode \in {"local", "shadow"}
    /\ SetRoute(o, [route EXCEPT !.mode = "shadow"])
    /\ UNCHANGED <<money, holder, writer, files, recorded, raced>>

Drain(o) ==
    /\ HasLock(o, "drain") /\ route.mode \in {"local", "shadow"}
    /\ SetRoute(o, [route EXCEPT !.mode = "draining", !.batch = command[o].batch])
    /\ UNCHANGED <<money, holder, writer, files, recorded, raced>>

\* Mutant: Freeze does not count the open orders.
FreezeUncounted(o) ==
    /\ HasLock(o, "freeze") /\ route.mode = "draining" /\ command[o].batch = route.batch
    /\ SetRoute(o, [route EXCEPT !.mode = "frozen"])
    /\ raced' = (command[o].clear /\ money.order \in Pending)
    /\ UNCHANGED <<money, holder, writer, files, recorded>>

\* Mutant: Freeze does not wait for the users row.
FreezeUnlocked(o) ==
    /\ command[o].pc = "waiting" /\ command[o].name = "freeze" /\ command[o].clear
    /\ route.mode = "draining" /\ command[o].batch = route.batch
    /\ SetRoute(o, [route EXCEPT !.mode = "frozen"])
    /\ raced' = (money.order \in Pending)
    /\ UNCHANGED <<money, holder, writer, files, recorded>>

\* The orders are counted in the snapshot, from before the wait.
Freeze(o) ==
    /\ HasLock(o, "freeze") /\ route.mode = "draining" /\ command[o].batch = route.batch
    /\ command[o].clear
    /\ SetRoute(o, [route EXCEPT !.mode = "frozen"])
    /\ raced' = (money.order \in Pending)
    /\ UNCHANGED <<money, holder, writer, files, recorded>>

\* Mutant: a draining account is exported too.
ExportDraining(o) ==
    /\ command[o].pc = "idle" /\ route.mode \in {"draining", "frozen"}
    /\ command' = [command EXCEPT ![o] =
            [IdleCommand EXCEPT !.pc = "read", !.name = "export",
                                !.file = [batch |-> route.batch, money |-> money]]]
    /\ UNCHANGED <<route, money, holder, writer, files, recorded, raced>>

\* Export: one REPEATABLE READ snapshot, without a lock.
Export(o) ==
    /\ command[o].pc = "idle" /\ route.mode = "frozen"
    /\ command' = [command EXCEPT ![o] =
            [IdleCommand EXCEPT !.pc = "read", !.name = "export",
                                !.file = [batch |-> route.batch, money |-> money]]]
    /\ UNCHANGED <<route, money, holder, writer, files, recorded, raced>>

\* The file is created, or found to hold the same bytes.
WriteFile(o) ==
    /\ command[o].pc = "read"
    /\ files' = files \cup {command[o].file}
    /\ command' = [command EXCEPT ![o].pc = "written"]
    /\ UNCHANGED <<route, money, holder, writer, recorded, raced>>

BeginRecord(o) ==
    /\ command[o].pc = "written"
    /\ Waiting(o, "record", command[o].file.batch, command[o].file)
    /\ UNCHANGED <<route, money, holder, writer, files, recorded, raced>>

\* One hash is recorded for a batch: the audit row is inserted if it is missing,
\* and has to say the same. A row inserted during the wait fails the snapshot.
RecordExport(o) ==
    /\ HasLock(o, "record")
    /\ route.mode = "frozen" /\ command[o].batch = route.batch
    /\ recorded = command[o].recorded /\ recorded \in {Nothing, command[o].file}
    /\ recorded' = command[o].file
    /\ command' = [command EXCEPT ![o] = IdleCommand]
    /\ UNCHANGED <<route, money, holder, writer, files, raced>>

\* Mutant: the receipt is not compared with the recorded export.
ActivateUnrecorded(o) ==
    /\ HasLock(o, "activate")
    /\ route.mode = "frozen" /\ command[o].batch = route.batch
    /\ SetRoute(o, [route EXCEPT !.mode = "central", !.epoch = @ + 1,
                                 !.opening = command[o].file])
    /\ UNCHANGED <<money, holder, writer, files, recorded, raced>>

Activate(o) ==
    /\ HasLock(o, "activate")
    /\ route.mode = "frozen" /\ command[o].batch = route.batch
    /\ command[o].recorded = command[o].file
    /\ SetRoute(o, [route EXCEPT !.mode = "central", !.epoch = @ + 1,
                                 !.opening = command[o].file])
    /\ UNCHANGED <<money, holder, writer, files, recorded, raced>>

\* The command is refused, finds its work done, or dies.
GiveUp(o) ==
    /\ command[o].pc # "idle"
    /\ command' = [command EXCEPT ![o] = IdleCommand]
    /\ UNCHANGED <<route, money, holder, writer, files, recorded, raced>>

-----------------------------------------------------------------------------
WriterStep(w) == Admit(w) \/ AssertLegacyWrite(w) \/ LegacyWriteFenced(w) \/ Commit(w)

OperatorStep(o) ==
    \/ BeginCommand(o) \/ Map(o) \/ Shadow(o) \/ Drain(o) \/ Freeze(o)
    \/ Export(o) \/ WriteFile(o) \/ BeginRecord(o) \/ RecordExport(o) \/ Activate(o)
    \/ GiveUp(o)

Next ==
    \/ \E w \in Writers : WriterStep(w)
    \/ \E o \in Operators : OperatorStep(o)
    \/ DisableKey

Spec == Init /\ [][Next]_vars

-----------------------------------------------------------------------------
(* Properties. *)

TypeOK ==
    /\ route \in Routes /\ money \in Moneys
    /\ holder \in Writers \cup {Nothing}
    /\ writer \in [Writers -> WriterRecords]
    /\ command \in [Operators -> Commands]
    /\ files \subseteq Snapshots /\ recorded \in Snapshots \cup {Nothing}
    /\ raced \in BOOLEAN

\* What the fence holds still: everything but the status of a key.
Funds == <<money.balance, money.order>>

\* The authority opens the account with the funds the local rows hold, and keep
\* holding: whatever was in flight, nothing was written after the export, and
\* what was activated is the export that was recorded.
OpeningIsLocal ==
    route.mode = "central" =>
        /\ route.opening = recorded /\ route.opening.batch = route.batch
        /\ <<route.opening.money.balance, route.opening.money.order>> = Funds

\* Work that was admitted on the local wallet is charged to it: with reviewed
\* evidence the fence refuses no charge.
AdmittedWorkIsCharged == \A w \in Writers : writer[w].pc # "refused"

\* An order is open in a fenced account only when it was opened by a writer that
\* Freeze waited for.
OpenOrderWasRaced == route.mode \in Fenced /\ money.order \in Pending => raced

SwitchSound == TypeOK /\ OpeningIsLocal /\ AdmittedWorkIsCharged /\ OpenOrderWasRaced

\* No legacy writer, however late, changes the funds of a fenced account, and the
\* owner of the funds is never moved back ("ownership transfer").
FencedMoneyStands ==
    [][ /\ route.mode \in Fenced => Funds' = Funds
        /\ route.mode = "central" => route' = route ]_vars

\* Freeze is refused while "payment/refund responsibilities remain" (source.go:197).
FreezeLeavesNoOpenOrder == route.mode \in Fenced => money.order \notin Pending

=============================================================================
