---------------------------- MODULE PaymentOrders ----------------------------
(***************************************************************************)
(* The local payment orders of one user: creation, the provider's          *)
(* callbacks, the active query behind verify, cancel and expiry, and the   *)
(* fulfilment of balance and subscription orders (service/payment_order.go,*)
(* payment_fulfillment.go, payment_order_lifecycle.go).  A worker is a     *)
(* request handler or the expiry job; each database or provider call is a  *)
(* step.  Redeem is one step, as RedeemCodes shows it pays a code once;    *)
(* the amount a provider collects is the amount it was asked for.          *)
(***************************************************************************)
EXTENDS Integers, FiniteSets

CONSTANTS Orders,       \* orders of one user, the subscriptions among them for one group
          Workers,
          NoOrder,
          Types,        \* the order types of the instance
          MaxPending,   \* cfg.MaxPendingOrders
          StartDays,    \* the subscription before the orders
          MaxFaults     \* bound on failed calls and crashes

ASSUME OrdersAssumption ==
    /\ NoOrder \notin Orders
    /\ Types \subseteq {"balance", "subscription"}
    /\ MaxPending \in Nat /\ StartDays \in Nat /\ MaxFaults \in Nat

VARIABLES type,      \* payment_orders.order_type
          status,    \* payment_orders.status; "NONE" before the insert
          paidAt,    \* the orders whose paid_at is set
          code,      \* the order's row in redeem_codes
          audit,     \* the orders with SUBSCRIPTION_SUCCESS in payment_audit_logs
          days,      \* the subscription of the user, in units of one order; 0 is no row
          credited,  \* how often each order was credited
          money,     \* the payment at the provider
          overdue,   \* the orders whose expires_at has passed
          lapsed,    \* the orders expired for more than paymentGraceMinutes
          worker,    \* see Worker
          faults,
          prompt,    \* history: the orders paid before expires_at
          blind,     \* history: the orders for which a query of the provider failed
          hurt       \* history: the orders whose fulfilment was cut short by a fault

rows == <<type, status, paidAt, code, audit, days, credited>>
env  == <<money, overdue, lapsed, prompt>>
vars == <<rows, env, worker, faults, blind, hurt>>

Statuses == {"NONE", "PENDING", "PAID", "RECHARGING", "COMPLETED", "EXPIRED",
             "CANCELLED", "FAILED"}

(* target is what cancelCore is to set, "" for verify; seen the            *)
(* subscription AssignOrExtendSubscription read.                           *)
Worker == [pc : {"idle", "insert", "invoke", "query", "close", "update", "toPaid",
                 "already", "claim", "lookup", "create", "redeem", "checkAudit",
                 "readSub", "writeSub", "complete", "fail", "reset"},
           order : Orders \cup {NoOrder}, target : {"", "CANCELLED", "EXPIRED"}, seen : Nat]

Idle == [pc |-> "idle", order |-> NoOrder, target |-> "", seen |-> 0]

Init ==
    /\ type \in [Orders -> Types]
    /\ status = [o \in Orders |-> "NONE"]
    /\ paidAt = {} /\ audit = {} /\ overdue = {} /\ lapsed = {}
    /\ code = [o \in Orders |-> "none"]
    /\ days = StartDays
    /\ credited = [o \in Orders |-> 0]
    /\ money = [o \in Orders |-> "none"]
    /\ worker = [w \in Workers |-> Idle]
    /\ faults = 0
    /\ prompt = {} /\ blind = {} /\ hurt = {}

Start(w, o, pc, target) ==
    /\ worker[w].pc = "idle"
    /\ worker' = [worker EXCEPT ![w] = [Idle EXCEPT !.pc = pc, !.order = o, !.target = target]]

At(w, o, pc) == worker[w].pc = pc /\ worker[w].order = o
Goto(w, pc)  == worker' = [worker EXCEPT ![w].pc = pc]
Return(w)    == worker' = [worker EXCEPT ![w] = Idle]
Fault        == faults < MaxFaults /\ faults' = faults + 1
Set(o, s)    == status' = [status EXCEPT ![o] = s]

-----------------------------------------------------------------------------
(* CreateOrder.  The pending orders are counted in a READ COMMITTED        *)
(* transaction that locks nothing.                                         *)
CheckPendingLimit(w, o) ==
    /\ status[o] = "NONE"
    /\ \A v \in Workers : worker[v].order # o
    /\ Cardinality({p \in Orders : status[p] = "PENDING"}) < MaxPending
    /\ Start(w, o, "insert", "")
    /\ UNCHANGED <<rows, env, faults, blind, hurt>>

Insert(w, o) ==
    /\ At(w, o, "insert")
    /\ Set(o, "PENDING")
    /\ Goto(w, "invoke")
    /\ UNCHANGED <<type, paidAt, code, audit, days, credited, env, faults, blind, hurt>>

(* invokeProvider: on any error the order is set to FAILED, whatever its   *)
(* status is by then, and whether or not the payment was opened before the *)
(* order's row could not be updated.  It is paid only after this step.     *)
Invoke(w, o) ==
    /\ At(w, o, "invoke")
    /\ \/ money' = [money EXCEPT ![o] = "open"] /\ UNCHANGED <<status, faults>>
       \/ /\ \E m \in {"none", "open"} : money' = [money EXCEPT ![o] = m]
          /\ \/ Set(o, "FAILED") /\ UNCHANGED faults
             \/ Fault /\ UNCHANGED status
    /\ Return(w)
    /\ UNCHANGED <<type, paidAt, code, audit, days, credited, overdue, lapsed, prompt,
                   blind, hurt>>

-----------------------------------------------------------------------------
(* The user and the clock.                                                 *)
Pay(o) ==
    /\ money[o] = "open"
    /\ money' = [money EXCEPT ![o] = "paid"]
    /\ prompt' = IF o \in overdue THEN prompt ELSE prompt \cup {o}
    /\ UNCHANGED <<rows, overdue, lapsed, worker, faults, blind, hurt>>

ExpiresAtPasses(o) ==
    /\ status[o] # "NONE" /\ o \notin overdue
    /\ overdue' = overdue \cup {o}
    /\ UNCHANGED <<rows, money, lapsed, prompt, worker, faults, blind, hurt>>

GracePasses(o) ==
    /\ status[o] = "EXPIRED" /\ o \notin lapsed
    /\ lapsed' = lapsed \cup {o}
    /\ UNCHANGED <<rows, money, overdue, prompt, worker, faults, blind, hurt>>

-----------------------------------------------------------------------------
(* cancelCore and checkPaid.                                               *)
CancelOrder(w, o) ==
    /\ status[o] = "PENDING"
    /\ Start(w, o, "query", "CANCELLED")
    /\ UNCHANGED <<rows, env, faults, blind, hurt>>

(* Mutant: an order expires without asking the provider.                   *)
ExpireUnasked(w, o) ==
    /\ status[o] = "PENDING" /\ o \in overdue
    /\ Start(w, o, "update", "EXPIRED")
    /\ UNCHANGED <<rows, env, faults, blind, hurt>>

(* One order of the loop in ExpireTimedOutOrders.                          *)
ExpireTimedOutOrder(w, o) ==
    /\ status[o] = "PENDING" /\ o \in overdue
    /\ Start(w, o, "query", "EXPIRED")
    /\ UNCHANGED <<rows, env, faults, blind, hurt>>

VerifyOrder(w, o) ==
    /\ status[o] \in {"PENDING", "EXPIRED"}
    /\ Start(w, o, "query", "")
    /\ UNCHANGED <<rows, env, faults, blind, hurt>>

(* Mutant: verify goes on to close the order.                              *)
NotPaidCloses(w) == Goto(w, "update")

(* Mutant: an order that is not paid is left as it is.                     *)
NotPaidReturns(w) == Return(w)

(* What follows a checkPaid that found no payment.                         *)
NotPaid(w) == IF worker[w].target = "" THEN Return(w) ELSE Goto(w, "update")

QueryOrder(w, o) ==
    /\ At(w, o, "query")
    /\ \/ /\ Goto(w, IF money[o] = "paid" THEN "toPaid" ELSE "close")
          /\ UNCHANGED <<faults, blind>>
       \/ Fault /\ NotPaid(w) /\ blind' = blind \cup {o}
    /\ UNCHANGED <<rows, env, hurt>>

(* CancelPayment of a CancelableProvider; its error is ignored, and other  *)
(* providers have none.                                                    *)
CancelPayment(w, o) ==
    /\ At(w, o, "close")
    /\ \/ money[o] = "open" /\ money' = [money EXCEPT ![o] = "closed"]
       \/ UNCHANGED money
    /\ NotPaid(w)
    /\ UNCHANGED <<rows, overdue, lapsed, prompt, faults, blind, hurt>>

(* Mutant: the order is closed whatever its status is by now.              *)
UpdateUnguarded(w, o) ==
    /\ At(w, o, "update")
    /\ Set(o, worker[w].target)
    /\ Return(w)
    /\ UNCHANGED <<type, paidAt, code, audit, days, credited, env, faults, blind, hurt>>

UpdateStatus(w, o) ==
    /\ At(w, o, "update")
    /\ \/ status[o] = "PENDING" /\ Set(o, worker[w].target) /\ UNCHANGED faults
       \/ status[o] # "PENDING" /\ UNCHANGED <<status, faults>>
       \/ Fault /\ UNCHANGED status
    /\ Return(w)
    /\ UNCHANGED <<type, paidAt, code, audit, days, credited, env, blind, hurt>>

-----------------------------------------------------------------------------
(* HandlePaymentNotification, confirmPayment and toPaid.  The provider may *)
(* deliver a payment any number of times.                                  *)
Notify(w, o) ==
    /\ money[o] = "paid"
    /\ Start(w, o, "toPaid", "")
    /\ UNCHANGED <<rows, env, faults, blind, hurt>>

(* Mutant: a cancelled order is not recovered.                             *)
PayableUnlessCancelled(o) ==
    \/ status[o] = "PENDING"
    \/ status[o] = "EXPIRED" /\ o \notin lapsed

(* Mutant: a payment is recorded over any status.                          *)
PayableAlways(o) == status[o] # "NONE"

Payable(o) ==
    \/ status[o] \in {"PENDING", "CANCELLED"}
    \/ status[o] = "EXPIRED" /\ o \notin lapsed

ToPaid(w, o) ==
    /\ At(w, o, "toPaid")
    /\ \/ /\ Payable(o) /\ Set(o, "PAID") /\ paidAt' = paidAt \cup {o}
          /\ Goto(w, "claim") /\ UNCHANGED faults
       \/ /\ ~Payable(o) /\ Goto(w, "already") /\ UNCHANGED <<status, paidAt, faults>>
       \/ Fault /\ Return(w) /\ UNCHANGED <<status, paidAt>>
    /\ UNCHANGED <<type, code, audit, days, credited, env, blind, hurt>>

(* alreadyProcessed: only a FAILED order is tried again.                   *)
AlreadyProcessed(w, o) ==
    /\ At(w, o, "already")
    /\ IF status[o] = "FAILED" THEN Goto(w, "claim") ELSE Return(w)
    /\ UNCHANGED <<rows, env, faults, blind, hurt>>

-----------------------------------------------------------------------------
(* Mutant: an order that was never paid may be retried.                    *)
RetryUnpaid(w, o) ==
    /\ status[o] \in {"PAID", "FAILED"}
    /\ Start(w, o, "reset", "")
    /\ UNCHANGED <<rows, env, faults, blind, hurt>>

(* RetryFulfillment by the administrator.  The result of the reset is not  *)
(* looked at.                                                              *)
RetryFulfillment(w, o) ==
    /\ o \in paidAt /\ status[o] \in {"PAID", "FAILED"}
    /\ Start(w, o, "reset", "")
    /\ UNCHANGED <<rows, env, faults, blind, hurt>>

Reset(w, o) ==
    /\ At(w, o, "reset")
    /\ IF status[o] \in {"PAID", "FAILED"} THEN Set(o, "PAID") ELSE UNCHANGED status
    /\ Goto(w, "claim")
    /\ UNCHANGED <<type, paidAt, code, audit, days, credited, env, faults, blind, hurt>>

-----------------------------------------------------------------------------
(* executeFulfillment.  The claim is the lock of the fulfilment.           *)
(* Mutant: a fulfilment that is under way may be claimed.                  *)
ClaimableAgain(o) == status[o] \in {"PAID", "FAILED", "RECHARGING"}

Claimable(o) == status[o] \in {"PAID", "FAILED"}

Claim(w, o) ==
    /\ At(w, o, "claim")
    /\ \/ /\ Claimable(o) /\ Set(o, "RECHARGING")
          /\ Goto(w, IF type[o] = "balance" THEN "lookup" ELSE "checkAudit")
          /\ UNCHANGED <<faults, hurt>>
       \/ ~Claimable(o) /\ Return(w) /\ UNCHANGED <<status, faults, hurt>>
       \/ Fault /\ Return(w) /\ hurt' = hurt \cup {o} /\ UNCHANGED status
    /\ UNCHANGED <<type, paidAt, code, audit, days, credited, env, blind>>

(* Mutant: a code that exists is taken for redeemed.                       *)
LookupTakesUnused(w, o) ==
    /\ At(w, o, "lookup")
    /\ Goto(w, IF code[o] = "none" THEN "create" ELSE "complete")
    /\ UNCHANGED <<rows, env, faults, blind, hurt>>

(* doBalance: resolveRedeemAction takes a failed lookup for a missing code.*)
Lookup(w, o) ==
    /\ At(w, o, "lookup")
    /\ \/ /\ Goto(w, CASE code[o] = "none"   -> "create"
                       [] code[o] = "unused" -> "redeem"
                       [] code[o] = "used"   -> "complete")
          /\ UNCHANGED faults
       \/ Fault /\ Goto(w, "create")
    /\ UNCHANGED <<rows, env, blind, hurt>>

(* Mutant: each attempt makes a new code.                                  *)
CreateCodeAgain(w, o) ==
    /\ At(w, o, "create")
    /\ code' = [code EXCEPT ![o] = "unused"]
    /\ Goto(w, "redeem")
    /\ UNCHANGED <<type, status, paidAt, audit, days, credited, env, faults, blind, hurt>>

CreateCode(w, o) ==
    /\ At(w, o, "create")
    /\ \/ /\ code[o] = "none" /\ code' = [code EXCEPT ![o] = "unused"]
          /\ Goto(w, "redeem") /\ UNCHANGED faults
       \/ code[o] # "none" /\ Goto(w, "fail") /\ UNCHANGED <<code, faults>>
       \/ Fault /\ Goto(w, "fail") /\ UNCHANGED code
    /\ UNCHANGED <<type, status, paidAt, audit, days, credited, env, blind, hurt>>

Credit(o) == credited' = [credited EXCEPT ![o] = @ + 1]

(* Redeem may also fail after it committed.                                *)
Redeem(w, o) ==
    /\ At(w, o, "redeem")
    /\ \/ /\ code[o] = "unused" /\ code' = [code EXCEPT ![o] = "used"] /\ Credit(o)
          /\ \/ Goto(w, "complete") /\ UNCHANGED faults
             \/ Fault /\ Goto(w, "fail")
       \/ code[o] # "unused" /\ Goto(w, "fail") /\ UNCHANGED <<code, credited, faults>>
       \/ Fault /\ Goto(w, "fail") /\ UNCHANGED <<code, credited>>
    /\ UNCHANGED <<type, status, paidAt, audit, days, env, blind, hurt>>

(* doSub: a failed count of the audit log reads as zero.                   *)
CheckAudit(w, o) ==
    /\ At(w, o, "checkAudit")
    /\ \/ Goto(w, IF o \in audit THEN "complete" ELSE "readSub") /\ UNCHANGED faults
       \/ Fault /\ Goto(w, "readSub")
       \/ Fault /\ Goto(w, "fail")       \* the group could not be read or is inactive
    /\ UNCHANGED <<rows, env, blind, hurt>>

(* AssignOrExtendSubscription reads the expiry and writes the sum back.    *)
ReadSub(w, o) ==
    /\ At(w, o, "readSub")
    /\ \/ worker' = [worker EXCEPT ![w].pc = "writeSub", ![w].seen = days] /\ UNCHANGED faults
       \/ Fault /\ Goto(w, "writeSub")          \* an error reads as no subscription
    /\ UNCHANGED <<rows, env, blind, hurt>>

WriteSub(w, o) ==
    LET seen == worker[w].seen
    IN  /\ At(w, o, "writeSub")
        /\ \/ /\ seen > 0 \/ days = 0      \* createSubscription: the pair is unique
              /\ days' = seen + 1 /\ Credit(o)
              /\ \/ Goto(w, "complete") /\ UNCHANGED faults
                 \/ Fault /\ Goto(w, "fail")
           \/ /\ seen = 0 /\ days > 0
              /\ Goto(w, "fail") /\ UNCHANGED <<days, credited, faults>>
           \/ Fault /\ Goto(w, "fail") /\ UNCHANGED <<days, credited>>
        /\ UNCHANGED <<type, status, paidAt, code, audit, env, blind, hurt>>

(* markCompleted; the audit row is written after the status, and its error *)
(* is only logged.                                                         *)
MarkCompleted(w, o) ==
    /\ At(w, o, "complete")
    /\ \/ /\ IF status[o] = "RECHARGING" THEN Set(o, "COMPLETED") ELSE UNCHANGED status
          /\ \/ /\ audit' = IF type[o] = "balance" THEN audit ELSE audit \cup {o}
                /\ UNCHANGED faults
             \/ Fault /\ UNCHANGED audit
          /\ Return(w)
       \/ Fault /\ Goto(w, "fail") /\ UNCHANGED <<status, audit>>
    /\ UNCHANGED <<type, paidAt, code, days, credited, env, blind, hurt>>

(* Mutant: the failure is returned but not recorded.                       *)
MarkFailedSkipped(w, o) ==
    /\ At(w, o, "fail")
    /\ Return(w)
    /\ UNCHANGED <<rows, env, faults, blind, hurt>>

MarkFailed(w, o) ==
    /\ At(w, o, "fail")
    /\ \/ /\ IF status[o] = "RECHARGING" THEN Set(o, "FAILED") ELSE UNCHANGED status
          /\ UNCHANGED <<faults, hurt>>
       \/ Fault /\ hurt' = hurt \cup {o} /\ UNCHANGED status
    /\ Return(w)
    /\ UNCHANGED <<type, paidAt, code, audit, days, credited, env, blind>>

Crash(w) ==
    /\ worker[w].pc # "idle"
    /\ Fault
    /\ hurt' = hurt \cup {worker[w].order}
    /\ Return(w)
    /\ UNCHANGED <<rows, env, blind>>

-----------------------------------------------------------------------------
Environment == \E o \in Orders : Pay(o) \/ ExpiresAtPasses(o) \/ GracePasses(o)

Request(w, o) ==
    \/ CheckPendingLimit(w, o) \/ CancelOrder(w, o) \/ ExpireTimedOutOrder(w, o)
    \/ VerifyOrder(w, o) \/ Notify(w, o) \/ RetryFulfillment(w, o)

Step(w, o) ==
    \/ Insert(w, o) \/ Invoke(w, o) \/ QueryOrder(w, o) \/ CancelPayment(w, o)
    \/ UpdateStatus(w, o) \/ ToPaid(w, o) \/ AlreadyProcessed(w, o) \/ Reset(w, o)
    \/ Claim(w, o) \/ Lookup(w, o) \/ CreateCode(w, o) \/ Redeem(w, o)
    \/ CheckAudit(w, o) \/ ReadSub(w, o) \/ WriteSub(w, o)
    \/ MarkCompleted(w, o) \/ MarkFailed(w, o)

Next ==
    \/ Environment
    \/ \E w \in Workers : Crash(w) \/ \E o \in Orders : Request(w, o) \/ Step(w, o)

Spec == Init /\ [][Next]_vars

(* A handler that was started goes on, the expiry job looks at every       *)
(* overdue order, and the provider delivers a payment again and again; the *)
(* latter two find a worker, which the code does not ration.               *)
Fairness ==
    /\ \A w \in Workers : WF_vars(\E o \in Orders : Step(w, o))
    /\ \A o \in Orders : /\ SF_vars(\E w \in Workers : ExpireTimedOutOrder(w, o))
                         /\ SF_vars(\E w \in Workers : Notify(w, o))

FairSpec == Spec /\ Fairness

-----------------------------------------------------------------------------
TypeOK ==
    /\ type \in [Orders -> Types]
    /\ status \in [Orders -> Statuses]
    /\ code \in [Orders -> {"none", "unused", "used"}]
    /\ {paidAt, audit, overdue, lapsed, prompt, blind, hurt} \subseteq SUBSET Orders
    /\ days \in Nat
    /\ credited \in [Orders -> Nat]
    /\ money \in [Orders -> {"none", "open", "closed", "paid"}]
    /\ worker \in [Workers -> Worker]
    /\ faults \in 0 .. MaxFaults

Busy(o) == \E w \in Workers : worker[w].order = o

(* A balance order is credited at most once, however often its payment is  *)
(* delivered, verified, cancelled, expired or retried, and whatever fails  *)
(* in between.                                                             *)
BalanceCreditedOnce == \A o \in Orders : type[o] = "balance" => credited[o] <= 1

(* Nothing is credited that the provider was not paid for, though orders   *)
(* fail, are retried and are recovered after cancel and expiry.            *)
CreditNeedsPayment == \A o \in Orders : credited[o] > 0 => money[o] = "paid"

(* A completed order was credited: markCompleted is reached by three ways, *)
(* one of which credits nothing itself.                                    *)
CompletedWasCredited == \A o \in Orders : status[o] = "COMPLETED" => credited[o] > 0

(* An order that was paid is never closed by the cancel or expiry that was *)
(* asking the provider meanwhile.                                          *)
PaidIsNotClosed ==
    [][\A o \in Orders : o \in paidAt => status'[o] \notin {"PENDING", "CANCELLED", "EXPIRED"}]_vars

(* A completed order stays so: no late failure, duplicate callback or      *)
(* retry takes it up again.                                                *)
CompletedStays == [][\A o \in Orders : status[o] = "COMPLETED" => status'[o] = "COMPLETED"]_vars

(* Only a failed or cut off fulfilment leaves a paid order with nobody at  *)
(* work on it and no callback able to take it up.                          *)
Stranded(o) == status[o] \in {"PAID", "RECHARGING"} /\ ~Busy(o)
StrandedOnlyByFault == \A o \in Orders : Stranded(o) => o \in hurt

(* A payment made in time is given up only if a query of the provider had  *)
(* failed: the expiry job asks before it closes the order.                 *)
PromptPaymentLostOnlyIfBlind ==
    \A o \in prompt : status[o] = "EXPIRED" /\ o \in lapsed => o \in blind

(* A subscription order is granted twice only after a failed call or a     *)
(* crash: without one, callbacks and retries extend it once.               *)
GrantedTwiceOnlyAfterFault == (\E o \in Orders : credited[o] > 1) => faults > 0

(* A payment that the provider keeps delivering completes the order, or    *)
(* finds it lapsed, or cut off by a fault: any other failure is repaired.  *)
PaymentSettles ==
    \A o \in Orders :
        money[o] = "paid" ~> \/ status[o] = "COMPLETED"
                             \/ status[o] = "EXPIRED" /\ o \in lapsed
                             \/ status[o] \in {"PAID", "RECHARGING"} /\ o \in hurt

(* An order that its user leaves does not stay pending.                    *)
OverdueLeavesPending ==
    \A o \in Orders : (status[o] = "PENDING" /\ o \in overdue) ~> status[o] # "PENDING"

(* Every status has its reason in what was paid, credited or failed.       *)
OrdersSound ==
    /\ TypeOK /\ CompletedWasCredited /\ StrandedOnlyByFault
    /\ PromptPaymentLostOnlyIfBlind /\ GrantedTwiceOnlyAfterFault

(* Orders move forward and come to an end: a payment or a completion is    *)
(* never undone, what is paid settles, what is overdue leaves PENDING.     *)
OrdersSettle == PaidIsNotClosed /\ CompletedStays /\ PaymentSettles /\ OverdueLeavesPending
=============================================================================
