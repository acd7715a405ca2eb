---------------------------- MODULE RedeemCodes ----------------------------
(***************************************************************************)
(* One redeem code and the balances it is paid into: RedeemService.Redeem  *)
(* (service/redeem_service.go), the create-and-redeem endpoint that maps   *)
(* an external order to a code (handler/admin/redeem_handler.go), the      *)
(* administrator's delete and expire, usage that debits the balance, and   *)
(* whole-row saves of a user (userRepo.Update), which carry the balance    *)
(* they read.  Every repository or Redis call is a step; the transaction   *)
(* of Redeem is one step, as its first statement locks the code's row.     *)
(***************************************************************************)
EXTENDS Integers, FiniteSets, FiniteSetsExt

CONSTANTS Calls,        \* calls of Redeem or CreateAndRedeem for this code
          Saves,        \* calls that save a user's row
          Users,
          NoUser,       \* SQL NULL in used_by
          Values,       \* what the code may be worth; negative is a refund
          StartBalance,
          MaxErrors,    \* redeemMaxErrorsPerHour
          MaxDebits     \* bound on the usage charges of a user

ASSUME RedeemAssumption ==
    /\ NoUser \notin Users
    /\ Values \subseteq Int \ {0}
    /\ StartBalance \in Nat /\ MaxErrors \in Nat /\ MaxDebits \in Nat

VARIABLES value,     \* redeem_codes.value: retries of an order carry the same one
          code,      \* the row of the code
          moved,     \* whether it has a row in billing_center_redeem_authority
          lastId,    \* the sequence that numbers rows
          lock,      \* whether the Redis key redeem:lock:<code> exists; it has no owner
          balance,   \* users.balance
          errors,    \* Redis redeem:ratelimit:<user>
          call,      \* the redeem calls, see Call
          expire,    \* the administrator's ExpireRedeemCode
          save,      \* the saves of users
          debited    \* history: usage charged to each user

vars == <<value, code, moved, lastId, lock, balance, errors, call, expire, save, debited>>

NoCode == [id |-> 0, status |-> "absent", usedBy |-> NoUser]
Codes  == [id : Nat, status : {"absent", "unused", "used", "expired"},
           usedBy : Users \cup {NoUser}]

Answers == {"ok", "used", "notFound", "conflict", "locked", "rateLimited", "error"}

(* seen is the row last read, balance the balance read with it, resolve    *)
(* whether resolveCreateAndRedeemExisting called Redeem, then what follows *)
(* the deferred unlock.  History: paid, the amount the transaction added.  *)
Call == [pc : {"new", "lookup", "create", "lookupAgain", "limit", "lock", "read",
               "readUser", "tx", "reread", "unlock", "latest"} \cup Answers,
         user : Users \cup {NoUser}, seen : Codes,
         balance : Int, resolve : BOOLEAN, then : Answers, paid : {0} \cup Int]

Init ==
    /\ value \in Values
    /\ code \in {NoCode, [id |-> 1, status |-> "unused", usedBy |-> NoUser]}
    /\ lastId = 1 /\ moved = FALSE
    /\ lock = FALSE
    /\ balance = [u \in Users |-> StartBalance]
    /\ errors = [u \in Users |-> 0]
    /\ call = [c \in Calls |-> [pc |-> "new", user |-> NoUser, seen |-> NoCode,
                               balance |-> 0, resolve |-> FALSE, then |-> "ok", paid |-> 0]]
    /\ expire = [pc |-> "idle", seen |-> NoCode, erased |-> FALSE]
    /\ save = [s \in Saves |-> [pc |-> "idle", user |-> NoUser, delta |-> 0, balance |-> 0,
                               stale |-> FALSE]]
    /\ debited = [u \in Users |-> 0]

Others == <<value, moved, balance, expire, save, debited>>

Goto(c, pc) == call' = [call EXCEPT ![c].pc = pc]
See(c, pc)  == call' = [call EXCEPT ![c].pc = pc, ![c].seen = code]
Unlock(c, then) == call' = [call EXCEPT ![c].pc = "unlock", ![c].then = then]

-----------------------------------------------------------------------------
(* A user's redeem, or CreateAndRedeem.                                    *)
Begin(c) ==
    /\ call[c].pc = "new"
    /\ \E u \in Users, pc \in {"limit", "lookup"} :
          call' = [call EXCEPT ![c].pc = pc, ![c].user = u]
    /\ UNCHANGED <<Others, code, lastId, lock, errors>>

(* Mutant: a used code is a success, whoever used it.                      *)
ConcludeUsed(c, row) ==
    call' = [call EXCEPT ![c].seen = row,
                         ![c].pc = IF row.status = "used" THEN "ok" ELSE "conflict"]

(* The last lines of resolveCreateAndRedeemExisting.                       *)
Conclude(c, row) ==
    call' = [call EXCEPT ![c].seen = row,
                         ![c].pc = IF row.usedBy = call[c].user THEN "ok" ELSE "conflict"]

Resolve(c) ==
    IF code.status = "unused"
    THEN call' = [call EXCEPT ![c].pc = "limit", ![c].seen = code, ![c].resolve = TRUE]
    ELSE Conclude(c, code)

Lookup(c) ==
    /\ call[c].pc \in {"lookup", "lookupAgain"}
    /\ \/ code.id = 0 /\ Goto(c, IF call[c].pc = "lookup" THEN "create" ELSE "error")
       \/ code.id # 0 /\ Resolve(c)
       \/ Goto(c, "error")
    /\ UNCHANGED <<Others, code, lastId, lock, errors>>

(* CreateCode: the unique index on the code turns the loser of a race back *)
(* to the lookup.                                                          *)
Create(c) ==
    /\ call[c].pc = "create"
    /\ \/ /\ code.id = 0
          /\ code' = [id |-> lastId + 1, status |-> "unused", usedBy |-> NoUser]
          /\ lastId' = lastId + 1
          /\ Goto(c, "limit") \/ Goto(c, "lookupAgain")
       \/ /\ UNCHANGED <<code, lastId>>
          /\ Goto(c, "lookupAgain")
    /\ UNCHANGED <<Others, lock, errors>>

-----------------------------------------------------------------------------
(* Redeem.                                                                 *)
CheckLimit(c) ==
    /\ call[c].pc = "limit"
    /\ \/ errors[call[c].user] >= MaxErrors /\ Goto(c, "rateLimited")
       \/ errors[call[c].user] < MaxErrors /\ Goto(c, "lock")
       \/ Goto(c, "lock")                        \* Redis error: not limited
    /\ UNCHANGED <<Others, code, lastId, lock, errors>>

AcquireLock(c) ==
    /\ call[c].pc = "lock"
    /\ \/ ~lock /\ lock' = TRUE /\ Goto(c, "read")
       \/ lock /\ UNCHANGED lock /\ Goto(c, "locked")
       \/ UNCHANGED lock /\ Goto(c, "read")      \* Redis error: go on without it
    /\ UNCHANGED <<Others, code, lastId, errors>>

(* incrementRedeemErrorCount; the counter is only compared with MaxErrors. *)
CountError(c) ==
    errors' = [errors EXCEPT ![call[c].user] = IF @ < MaxErrors THEN @ + 1 ELSE @]

ReadCode(c) ==
    /\ call[c].pc = "read"
    /\ \/ code.id = 0 /\ CountError(c) /\ Unlock(c, "notFound")
       \/ code.id # 0 /\ code.status # "unused" /\ CountError(c) /\ Unlock(c, "used")
       \/ code.status = "unused" /\ See(c, "readUser") /\ UNCHANGED errors
       \/ Unlock(c, "error") /\ UNCHANGED errors
    /\ UNCHANGED <<Others, code, lastId, lock>>

ReadUser(c) ==
    /\ call[c].pc = "readUser"
    /\ \/ call' = [call EXCEPT ![c].pc = "tx", ![c].balance = balance[call[c].user]]
       \/ Unlock(c, "error")
    /\ UNCHANGED <<Others, code, lastId, lock, errors>>

(* A refund is cut so that the balance that was read would end at zero.    *)
Amount(c) ==
    IF value < 0 /\ call[c].balance + value < 0 THEN -call[c].balance ELSE value

(* Mutant: the update does not ask for an unused row.                      *)
UsableAnyStatus(c) == code.id = call[c].seen.id

(* redeemRepo.Use: UPDATE ... WHERE id = $1 AND status = 'unused'.         *)
Usable(c) == code.id = call[c].seen.id /\ code.status = "unused"

(* Mutant: a code that was moved can still be used here.                   *)
FenceMissing == TRUE

(* The trigger of migration 125 fails every update and delete of a code    *)
(* that was moved to the billing authority.                                *)
NotMoved == ~moved

(* Mutants: the user is not recorded; the balance is written from the one  *)
(* that was read.                                                          *)
TransactionWithoutUser(c) ==
    /\ call[c].pc = "tx" /\ Usable(c)
    /\ code' = [code EXCEPT !.status = "used"]
    /\ balance' = [balance EXCEPT ![call[c].user] = @ + Amount(c)]
    /\ call' = [call EXCEPT ![c].pc = "reread", ![c].paid = Amount(c)]
    /\ UNCHANGED <<value, moved, expire, save, debited, lastId, lock, errors>>

TransactionAbsolute(c) ==
    /\ call[c].pc = "tx" /\ Usable(c)
    /\ code' = [code EXCEPT !.status = "used", !.usedBy = call[c].user]
    /\ balance' = [balance EXCEPT ![call[c].user] = call[c].balance + Amount(c)]
    /\ call' = [call EXCEPT ![c].pc = "reread", ![c].paid = Amount(c)]
    /\ UNCHANGED <<value, moved, expire, save, debited, lastId, lock, errors>>

(* The transaction: Use, then UpdateBalance, which adds to the balance     *)
(* that is there.  A commit that reports an error may have taken effect.   *)
Transaction(c) ==
    /\ call[c].pc = "tx"
    /\ \/ /\ Usable(c) /\ NotMoved
          /\ code' = [code EXCEPT !.status = "used", !.usedBy = call[c].user]
          /\ balance' = [balance EXCEPT ![call[c].user] = @ + Amount(c)]
          /\ \E answer \in {"reread", "unlock"} :
                call' = [call EXCEPT ![c].pc = answer, ![c].paid = Amount(c),
                                     ![c].then = "error"]
       \/ ~Usable(c) /\ Unlock(c, "used") /\ UNCHANGED <<code, balance>>
       \/ Unlock(c, "error") /\ UNCHANGED <<code, balance>>
    /\ UNCHANGED <<value, moved, expire, save, debited, lastId, lock, errors>>

Reread(c) ==
    /\ call[c].pc = "reread"
    /\ \/ code.id = call[c].seen.id /\ Unlock(c, "ok")
       \/ Unlock(c, "error")
    /\ UNCHANGED <<Others, code, lastId, lock, errors>>

(* The deferred release deletes the key, whoever set it.                   *)
ReleaseLock(c) ==
    /\ call[c].pc = "unlock"
    /\ lock' \in {lock, FALSE}
    /\ Goto(c, IF call[c].then = "used" /\ call[c].resolve THEN "latest" ELSE call[c].then)
    /\ UNCHANGED <<Others, code, lastId, errors>>

LockExpires ==
    /\ lock
    /\ lock' = FALSE
    /\ UNCHANGED <<Others, code, lastId, errors, call>>

Latest(c) ==
    /\ call[c].pc = "latest"
    /\ \/ code.id # 0 /\ Conclude(c, code)
       \/ Conclude(c, call[c].seen)
    /\ UNCHANGED <<Others, code, lastId, lock, errors>>

-----------------------------------------------------------------------------
(* DeleteRedeemCode, which does not look at the status.                    *)
Delete ==
    /\ code.id # 0 /\ NotMoved
    /\ code' = NoCode
    /\ UNCHANGED <<Others, lastId, lock, errors, call>>

(* ExpireRedeemCode reads the row and writes the whole row back.  History: *)
(* erased, it wrote over a use it had not seen.                            *)
ExpireRead ==
    /\ expire.pc = "idle" /\ code.id # 0
    /\ expire' = [expire EXCEPT !.pc = "write", !.seen = code]
    /\ UNCHANGED <<value, moved, balance, save, debited, code, lastId, lock, errors, call>>

(* Mutant: a status the readers do not know.                               *)
ExpireWriteDisabled ==
    /\ expire.pc = "write"
    /\ code' = [code EXCEPT !.status = "disabled"]
    /\ expire' = [expire EXCEPT !.pc = "done"]
    /\ UNCHANGED <<value, moved, balance, save, debited, lastId, lock, errors, call>>

ExpireWrite ==
    /\ expire.pc = "write"
    /\ IF code.id = expire.seen.id /\ NotMoved
       THEN /\ code' = [expire.seen EXCEPT !.status = "expired"]
            /\ expire' = [expire EXCEPT !.pc = "done", !.erased = code.usedBy # expire.seen.usedBy]
       ELSE /\ UNCHANGED code
            /\ expire' = [expire EXCEPT !.pc = "done"]
    /\ UNCHANGED <<value, moved, balance, save, debited, lastId, lock, errors, call>>

(* Mutant: the code is moved whatever became of it.                        *)
ExportRedeemUsed ==
    /\ code.id # 0
    /\ moved' = TRUE
    /\ UNCHANGED <<value, balance, expire, save, debited, code, lastId, lock, errors, call>>

(* ExportRedeem (cmd/billing-migrate) moves an unused code to the billing  *)
(* authority, for good, under the lock of its row; repeated, it finds the  *)
(* same.                                                                   *)
ExportRedeem ==
    /\ code.status = "unused" /\ code.usedBy = NoUser
    /\ moved' = TRUE
    /\ UNCHANGED <<value, balance, expire, save, debited, code, lastId, lock, errors, call>>

(* DeductBalance of the usage path: overdraft is allowed.                  *)
Debit(u) ==
    /\ debited[u] < MaxDebits
    /\ balance' = [balance EXCEPT ![u] = @ - 1]
    /\ debited' = [debited EXCEPT ![u] = @ + 1]
    /\ UNCHANGED <<value, moved, expire, save, code, lastId, lock, errors, call>>

(* UpdateUserBalance (delta 1) or an edit of any other field (delta 0):    *)
(* GetByID, then userRepo.Update with SetBalance.                          *)
SaveRead(s) ==
    /\ save[s].pc = "idle"
    /\ \E u \in Users, delta \in {0, 1} :
          save' = [save EXCEPT ![s].pc = "write", ![s].user = u, ![s].delta = delta,
                               ![s].balance = balance[u]]
    /\ UNCHANGED <<value, moved, balance, expire, debited, code, lastId, lock, errors, call>>

SaveWrite(s) ==
    /\ save[s].pc = "write"
    /\ LET u == save[s].user
           new == save[s].balance + save[s].delta
       IN  IF save[s].delta # 0 /\ new < 0
           THEN /\ UNCHANGED balance
                /\ save' = [save EXCEPT ![s].pc = "refused"]
           ELSE /\ balance' = [balance EXCEPT ![u] = new]
                /\ save' = [save EXCEPT ![s].pc = "saved",
                                        ![s].stale = balance[u] # save[s].balance]
    /\ UNCHANGED <<value, moved, expire, debited, code, lastId, lock, errors, call>>

CallStep(c) ==
    \/ Begin(c) \/ Lookup(c) \/ Create(c) \/ CheckLimit(c) \/ AcquireLock(c)
    \/ ReadCode(c) \/ ReadUser(c) \/ Transaction(c) \/ Reread(c) \/ ReleaseLock(c)
    \/ Latest(c)

Next ==
    \/ \E c \in Calls : CallStep(c)
    \/ \E s \in Saves : SaveRead(s) \/ SaveWrite(s)
    \/ \E u \in Users : Debit(u)
    \/ LockExpires \/ Delete \/ ExpireRead \/ ExpireWrite \/ ExportRedeem

Spec == Init /\ [][Next]_vars

-----------------------------------------------------------------------------
(* Types of the variables.                                                 *)
TypeOK ==
    /\ value \in Values /\ code \in Codes /\ lastId \in Nat /\ lock \in BOOLEAN
    /\ moved \in BOOLEAN /\ balance \in [Users -> Int] /\ errors \in [Users -> 0..MaxErrors]
    /\ call \in [Calls -> Call]
    /\ expire \in [pc : {"idle", "write", "done"}, seen : Codes, erased : BOOLEAN]
    /\ save \in [Saves -> [pc : {"idle", "write", "saved", "refused"},
                           user : Users \cup {NoUser},
                           delta : {0, 1}, balance : Int, stale : BOOLEAN]]
    /\ debited \in [Users -> Nat]

(* The transaction of c committed and paid something.                      *)
Paid(c) == call[c].pc # "new" /\ call[c].paid # 0

(* A row of the code is paid out once, although its lock expires under its *)
(* holder, is deleted by others and is skipped when Redis fails; and not   *)
(* at all when it was moved, whoever had read it as unused before.         *)
PaidOncePerRow ==
    \A c \in Calls : Paid(c) =>
       /\ \A d \in Calls : Paid(d) /\ call[c].seen.id = call[d].seen.id => c = d
       /\ ~(moved /\ code.id = call[c].seen.id)

(* A success answer is never given to a user the code did not pay, however *)
(* often the order was retried and whoever else redeems the code.  (A      *)
(* refund cut to nothing pays 0.)                                          *)
OkMeansPaid ==
    \A c \in Calls :
       call[c].pc = "ok" /\ value > 0 =>
          \E d \in Calls : Paid(d) /\ call[d].user = call[c].user

(* Same code and same used_by: 200 (docs/ADMIN_PAYMENT_INTEGRATION_API.md).*)
(* What the code gives of it: a conflict is the answer to a user whom this *)
(* row paid in two cases.  The expire endpoint can erase used_by, and      *)
(* after a lost race for the row a failed read of the latest row leaves    *)
(* the decision to the unused row read before.                             *)
PaidUserGetsOkUnlessErased ==
    \A c, d \in Calls :
       /\ call[c].pc = "conflict" /\ Paid(d) /\ ~expire.erased
       /\ call[c].seen.id = call[d].seen.id /\ call[c].seen.status # "unused"
       => call[c].user # call[d].user

(* No charge, credit or adjustment is lost: a balance is the sum of what   *)
(* happened to it, until someone saves a row that is no longer the one he  *)
(* read.                                                                   *)
BalanceAddsUp ==
    \A u \in Users :
       LET paid  == SumFunctionOnSet([c \in Calls |-> call[c].paid],
                                     {c \in Calls : call[c].user = u})
           added == SumFunctionOnSet([s \in Saves |-> save[s].delta],
                                     {s \in Saves : save[s].user = u /\ save[s].pc = "saved"})
       IN  \/ balance[u] = StartBalance - debited[u] + paid + added
           \/ \E s \in Saves : save[s].user = u /\ save[s].stale

(* The answers are true: success means that the user was paid, and a user  *)
(* who was paid is answered with success but in the two cases named above. *)
AnswersSound == TypeOK /\ OkMeansPaid /\ PaidUserGetsOkUnlessErased
=============================================================================
