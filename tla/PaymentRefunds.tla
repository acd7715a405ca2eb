--------------------------- MODULE PaymentRefunds ---------------------------
(***************************************************************************)
(* The refund of one completed order (service/payment_refund.go): the      *)
(* user's request, and calls of the administrator's ProcessRefund, each    *)
(* PrepareRefund followed by ExecuteRefund.  Every statement on the order, *)
(* the holding or the gateway is a step; every one may fail.               *)
(***************************************************************************)
EXTENDS Integers, FiniteSets, FiniteSetsExt

CONSTANTS Refunds,      \* calls of ProcessRefund
          Amount,       \* payment_orders.amount; days of a subscription order
          StartHolding, \* what the user may hold at first
          MaxDebits,    \* bound on usage charged meanwhile
          MaxFaults     \* bound on failed calls and crashes

(* What the constants must satisfy; the module that instantiates this one  *)
(* assumes it.                                                             *)
RefundsAssumption ==
    /\ Amount \in Nat \ {0} /\ MaxDebits \in Nat /\ MaxFaults \in Nat
    /\ StartHolding \subseteq Nat

VARIABLES type,      \* payment_orders.order_type
          traded,    \* whether payment_trade_no is known
          status,    \* payment_orders.status
          holding,   \* users.balance, or the days left of the subscription
          revoked,   \* whether the subscription's row is gone, not only expired
          failedLog, \* whether the audit log has REFUND_ROLLBACK_FAILED
          gateway,   \* what the gateway has paid back
          refund,    \* see Refund
          debits, faults,
          net,       \* history: deducted less given back
          kept,      \* history: deducted by statements that answered an error
          unsure,    \* history: the gateway paid and answered an error
          unlogged   \* history: a REFUND_ROLLBACK_FAILED could not be written or read

fixed == <<type, traded>>
funds == <<holding, revoked, net, kept>>
hist  == <<unsure, unlogged>>
vars  == <<fixed, status, funds, failedLog, gateway, refund, debits, faults, hist>>

Statuses == {"COMPLETED", "REFUND_REQUESTED", "REFUNDING", "REFUND_FAILED",
             "REFUNDED", "PARTIALLY_REFUNDED"}
Refundable == {"COMPLETED", "REFUND_REQUESTED", "REFUND_FAILED"}

(* The RefundPlan: amount is RefundAmount, deduct BalanceToDeduct or       *)
(* SubDaysToDeduct, was the status that was read.                          *)
Refund == [pc : {"new", "lock", "deduct", "gateway", "rollback", "restore", "refundFailed",
                 "markOk", "done"},
           amount : 0 .. Amount, deduct : 0 .. Amount, was : Statuses]

Init ==
    /\ type \in {"balance", "subscription"}
    /\ traded \in BOOLEAN
    /\ status = "COMPLETED"
    /\ holding \in StartHolding
    /\ failedLog = FALSE
    /\ gateway = 0
    /\ refund = [r \in Refunds |-> [pc |-> "new", amount |-> 0, deduct |-> 0, was |-> "COMPLETED"]]
    /\ debits = 0 /\ faults = 0 /\ net = 0 /\ kept = 0
    /\ revoked = FALSE /\ unsure = FALSE /\ unlogged = FALSE

Goto(r, pc) == refund' = [refund EXCEPT ![r].pc = pc]
Fault       == faults < MaxFaults /\ faults' = faults + 1

-----------------------------------------------------------------------------
(* Usage is charged, also into overdraft; a subscription expires.          *)
Debit ==
    /\ debits < MaxDebits
    /\ type = "balance" \/ holding > 0
    /\ debits' = debits + 1
    /\ holding' = holding - 1
    /\ UNCHANGED <<fixed, status, revoked, failedLog, gateway, refund, faults, net, kept, hist>>

RequestRefund ==
    /\ type = "balance" /\ status = "COMPLETED" /\ holding >= Amount
    /\ status' = "REFUND_REQUESTED"
    /\ UNCHANGED <<fixed, funds, failedLog, gateway, refund, debits, faults, hist>>

(* Mutant: the deduction of an overdrawn balance is not left out.          *)
PlannedUncut(amount) == {Min({amount, holding})}

(* prepDeduct.  A subscription is deducted in full if one is active,       *)
(* otherwise the refund needs force.                                       *)
Planned(amount) ==
    IF type = "subscription" THEN {IF holding > 0 THEN Amount ELSE 0}
    ELSE {Max({0, Min({amount, holding})})}

PrepareRefund(r) ==
    /\ refund[r].pc = "new"
    /\ status \in Refundable
    /\ \E amount \in 1 .. Amount, asked \in BOOLEAN :
        \E deduct \in IF asked THEN Planned(amount) ELSE {0} :
            refund' = [refund EXCEPT ![r] = [pc |-> "lock", amount |-> amount,
                                             deduct |-> deduct, was |-> status]]
    /\ UNCHANGED <<fixed, status, funds, failedLog, gateway, debits, faults, hist>>

(* Mutant: a refund that is under way may be taken over.                   *)
LockAgain(r) ==
    /\ refund[r].pc = "lock"
    /\ status \in Refundable \cup {"REFUNDING"}
    /\ status' = "REFUNDING"
    /\ Goto(r, "deduct")
    /\ UNCHANGED <<fixed, funds, failedLog, gateway, debits, faults, hist>>

(* ExecuteRefund.                                                          *)
Lock(r) ==
    /\ refund[r].pc = "lock"
    /\ \/ status \in Refundable /\ status' = "REFUNDING" /\ Goto(r, "deduct") /\ UNCHANGED faults
       \/ status \notin Refundable /\ Goto(r, "done") /\ UNCHANGED <<status, faults>>
       \/ Fault /\ Goto(r, "done") /\ UNCHANGED status
    /\ UNCHANGED <<fixed, funds, failedLog, gateway, debits, hist>>

Take(n) == holding' = holding - n /\ net' = net + n

(* DeductBalance, ExtendSubscription or RevokeSubscription commits: a      *)
(* subscription that would expire is revoked, one that did is an error.    *)
Deductible     == type = "balance" \/ holding > 0
Share(n)       == IF type = "balance" THEN n ELSE Min({n, holding})
DeductShare(n) ==
    /\ Deductible /\ Take(Share(n))
    /\ revoked' = (revoked \/ (type = "subscription" /\ n >= holding))

(* Mutant: an earlier deduction that was not given back is not looked for. *)
DeductAgain(r) ==
    /\ refund[r].pc = "deduct"
    /\ Take(Share(refund[r].deduct))
    /\ Goto(r, "gateway")
    /\ UNCHANGED <<fixed, status, revoked, failedLog, gateway, debits, faults, kept, hist>>

(* hasAuditLog reads a failed count as zero.  A deduction that fails may   *)
(* have been committed: the answer was lost, or ExtendSubscription failed  *)
(* after its update.                                                       *)
Deduct(r) ==
    LET n == refund[r].deduct
        lookup == IF failedLog THEN Fault ELSE UNCHANGED faults
    IN  /\ refund[r].pc = "deduct"
        /\ \/ /\ n = 0 \/ failedLog
              /\ refund' = [refund EXCEPT ![r].deduct = 0, ![r].pc = "gateway"]
              /\ UNCHANGED <<funds, faults, unlogged>>
           \/ /\ n > 0 /\ unlogged' = (unlogged \/ failedLog)
              /\ \/ lookup /\ DeductShare(n) /\ Goto(r, "gateway") /\ UNCHANGED kept
                 \/ Fault /\ DeductShare(n) /\ Goto(r, "restore") /\ kept' = kept + Share(n)
                 \/ /\ Fault \/ (~Deductible /\ lookup)
                    /\ Goto(r, "restore") /\ UNCHANGED funds
        /\ UNCHANGED <<fixed, status, failedLog, gateway, debits, unsure>>

(* gwRefund: without a trade number it asks nobody and succeeds.           *)
GatewayRefund(r) ==
    /\ refund[r].pc = "gateway"
    /\ \/ ~traded /\ Goto(r, "markOk") /\ UNCHANGED <<gateway, faults, unsure>>
       \/ /\ traded /\ gateway' = gateway + refund[r].amount
          /\ \/ Goto(r, "markOk") /\ UNCHANGED <<faults, unsure>>
             \/ Fault /\ Goto(r, "rollback") /\ unsure' = TRUE
       \/ traded /\ Fault /\ Goto(r, "rollback") /\ UNCHANGED <<gateway, unsure>>
    /\ UNCHANGED <<fixed, status, funds, failedLog, debits, unlogged>>

(* Mutant: the status is restored before the holding.                      *)
RestoreFirst(r) ==
    /\ refund[r].pc = "rollback"
    /\ status' = "COMPLETED"
    /\ Goto(r, "done")
    /\ UNCHANGED <<fixed, funds, failedLog, gateway, debits, faults, hist>>

(* RollbackRefund; a subscription that was revoked cannot be extended, one *)
(* that expired can.  What is answered with an error may be committed.     *)
Rollback(r) ==
    LET n == refund[r].deduct
    IN  /\ refund[r].pc = "rollback"
        /\ \/ n = 0 /\ Goto(r, "restore") /\ UNCHANGED <<holding, net, failedLog, faults, unlogged>>
           \/ n > 0 /\ ~revoked /\ Take(-n) /\ Goto(r, "restore") /\ UNCHANGED <<failedLog, faults, unlogged>>
           \/ /\ n > 0 /\ Goto(r, "refundFailed")
              /\ \/ ~revoked /\ Take(-n)
                 \/ UNCHANGED <<holding, net>>
              /\ \/ revoked /\ failedLog' = TRUE /\ UNCHANGED <<faults, unlogged>>
                 \/ Fault /\ failedLog' = TRUE /\ UNCHANGED unlogged
                 \/ Fault /\ UNCHANGED failedLog /\ unlogged' = TRUE
        /\ UNCHANGED <<fixed, status, revoked, gateway, debits, kept, unsure>>

(* Mutant: the status is not restored.                                     *)
RestoreSkipped(r) ==
    /\ refund[r].pc = "restore"
    /\ Goto(r, "done")
    /\ UNCHANGED <<fixed, status, funds, failedLog, gateway, debits, faults, hist>>

(* restoreStatus; no status is looked at, and an error is dropped.         *)
RestoreStatus(r) ==
    /\ refund[r].pc = "restore"
    /\ \/ /\ status' = IF refund[r].was = "REFUND_REQUESTED" THEN "REFUND_REQUESTED" ELSE "COMPLETED"
          /\ UNCHANGED faults
       \/ Fault /\ UNCHANGED status
    /\ Goto(r, "done")
    /\ UNCHANGED <<fixed, funds, failedLog, gateway, debits, hist>>

(* The rest of handleGwFail.                                               *)
MarkRefundFailed(r) ==
    /\ refund[r].pc = "refundFailed"
    /\ \/ status' = "REFUND_FAILED" /\ UNCHANGED faults
       \/ Fault /\ UNCHANGED status
    /\ Goto(r, "done")
    /\ UNCHANGED <<fixed, funds, failedLog, gateway, debits, hist>>

(* Mutant: a refund in part leaves the order open to another.              *)
MarkPartialOpen(r) ==
    /\ refund[r].pc = "markOk"
    /\ status' = IF refund[r].amount < Amount THEN "COMPLETED" ELSE "REFUNDED"
    /\ Goto(r, "done")
    /\ UNCHANGED <<fixed, funds, failedLog, gateway, debits, faults, hist>>

MarkRefundOk(r) ==
    /\ refund[r].pc = "markOk"
    /\ \/ /\ status' = IF refund[r].amount < Amount THEN "PARTIALLY_REFUNDED" ELSE "REFUNDED"
          /\ UNCHANGED faults
       \/ Fault /\ UNCHANGED status
    /\ Goto(r, "done")
    /\ UNCHANGED <<fixed, funds, failedLog, gateway, debits, hist>>

Crash(r) ==
    /\ refund[r].pc \notin {"new", "done"}
    /\ Fault
    /\ Goto(r, "done")
    /\ UNCHANGED <<fixed, status, funds, failedLog, gateway, debits, hist>>

Next ==
    \/ Debit
    \/ RequestRefund
    \/ \E r \in Refunds :
        \/ PrepareRefund(r) \/ Lock(r) \/ Deduct(r) \/ GatewayRefund(r) \/ Rollback(r)
        \/ RestoreStatus(r) \/ MarkRefundFailed(r) \/ MarkRefundOk(r) \/ Crash(r)

Spec == Init /\ [][Next]_vars

-----------------------------------------------------------------------------
TypeOK ==
    /\ type \in {"balance", "subscription"} /\ traded \in BOOLEAN
    /\ status \in Statuses
    /\ holding \in Int /\ net \in Int /\ gateway \in Nat
    /\ kept \in Int /\ revoked \in BOOLEAN
    /\ failedLog \in BOOLEAN /\ unsure \in BOOLEAN /\ unlogged \in BOOLEAN
    /\ refund \in [Refunds -> Refund]
    /\ debits \in 0 .. MaxDebits /\ faults \in 0 .. MaxFaults

Working(r) == refund[r].pc \in {"deduct", "gateway", "rollback", "restore", "refundFailed", "markOk"}

(* One refund of the order runs at a time, and while it runs the order     *)
(* says so; the writes of restoreStatus, handleGwFail and markRefundOk     *)
(* look at no status and rely on it.                                       *)
OneRefundAtATime ==
    \A r \in Refunds : Working(r) =>
        status = "REFUNDING" /\ \A s \in Refunds : Working(s) => s = r

(* The gateway pays back no more than the order, in however many parts and *)
(* attempts, unless it paid once and answered an error.                    *)
RefundWithinAmount == unsure \/ gateway <= Amount

(* What the gateway has certainly paid back is not offered for refund      *)
(* again, whichever statement after it fails.                              *)
PaidBackIsFinal == gateway > 0 /\ ~unsure => status \notin Refundable

(* An order that is as if nothing had happened has its deduction back: but *)
(* for what a statement deducted that answered an error, and except where  *)
(* the audit log says a deduction could not be given back.                 *)
GivenBackUnlessLogged ==
    status \in Refundable => net <= kept \/ failedLog \/ unlogged

(* Of what the code knows it deducted the user is not deducted more than   *)
(* the order is worth, over all attempts, unless a failed rollback could   *)
(* not be logged or the log not be read.                                   *)
DeductedWithinAmount == net <= Amount + kept \/ unlogged

(* Only a failed statement or a crash leaves the order REFUNDING with      *)
(* nobody at work on it: every way out of ExecuteRefund sets a status.     *)
StuckOnlyByFault == status = "REFUNDING" /\ (\A r \in Refunds : ~Working(r)) => faults > 0

(* The order, the user's balance and the gateway agree on what was given   *)
(* back, over all refunds of the order and all their failures.             *)
RefundsSound ==
    /\ TypeOK /\ RefundWithinAmount /\ PaidBackIsFinal
    /\ GivenBackUnlessLogged /\ DeductedWithinAmount /\ StuckOnlyByFault
=============================================================================
