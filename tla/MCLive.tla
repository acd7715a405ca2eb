------------------------------- MODULE MCLive -------------------------------
(* What must happen in the end, of one billed operation and of one order.  *)
(* BillingCenter and PaymentBridge share no variable, so TLC checks them   *)
(* side by side: a behaviour belongs to one of them and leaves the other   *)
(* where it starts. The part never changes, so a fairness condition on     *)
(* "a step of the operation or a step of the order" is the condition on    *)
(* the one that runs.                                                      *)
EXTENDS PaymentBridge

CONSTANTS p, e, w, Execs, MediaExecs, Workers, NoExec, NoWorker

VARIABLES part, op, events, receipt, reservation, case,
          reserveSent, dispatchSent, terminalSent, exec, permits, task, worker

opVars == <<op, events, receipt, reservation, case, reserveSent, dispatchSent,
            terminalSent, exec, permits, task, worker>>

B == INSTANCE BillingCenter WITH outbox <- events, auth <- reservation

\* An order for each way of asking the provider that the properties speak about.
LiveOrders ==
    {[imported |-> FALSE, byReference |-> TRUE,  refundQuery |-> "request"],
     [imported |-> FALSE, byReference |-> FALSE, refundQuery |-> "request"],
     [imported |-> TRUE,  byReference |-> FALSE, refundQuery |-> "request"]}

\* The choice of an order is tied while the operation runs.
MCInit ==
    /\ part \in {"operation", "order"} /\ Init /\ B!Init
    /\ part = "operation" => order.byReference

Either(operationStep, orderStep) ==
    /\ UNCHANGED part
    /\ \/ part = "operation" /\ operationStep /\ UNCHANGED vars
       \/ part = "order" /\ orderStep /\ UNCHANGED <<order, opVars>>

MCNext == Either(B!Next, Next)

all == <<part, vars, opVars>>

\* B!Fairness and Fairness, condition by condition.
MCFairness ==
    /\ WF_all(Either(B!LeaseExpires, AuthorityEvent("checkout")))
    /\ WF_all(Either(B!AuthorityTerminal, AuthorityEvent("paid")))
    /\ WF_all(Either(B!WorkerStep(w), AuthorityEvent("cancelled")))
    /\ WF_all(Either(B!NothingToReconcile(w) \/ B!NothingToClaim(w), TickStep(p)))
    /\ WF_all(Either(FALSE, AuthorityEvent("refund_succeeded")))
    /\ WF_all(Either(FALSE, AuthorityEvent("refund_failed")))
    /\ SF_all(Either(B!PendingReconciliations(w), ReadEvents(p)))
    /\ SF_all(Either(B!FetchResolution(w), SendEvent(p)))
    /\ SF_all(Either(B!ApplyReconciliation(w), EventDelivered(p)))
    /\ SF_all(Either(B!Claim(w), PaymentWork(p)))
    /\ SF_all(Either(B!HoldsLease(w) /\ B!DeliveryConfirmed(w), CreateOrder(p)))
    /\ SF_all(Either(B!HoldsLease(w) /\ B!Complete(w), PollSelect(p)))
    /\ SF_all(Either(B!Refused /\ B!HoldsLease(w) /\ B!Retry(w, TRUE), QueryOrder(p)))
    /\ SF_all(Either(FALSE, RecordAnswer(p)))
    /\ SF_all(Either(FALSE, CreateRefund(p)))
    /\ SF_all(Either(FALSE, QueryRefund(p)))
    /\ SF_all(Either(FALSE, FinishRefund(p)))

MCSpec == MCInit /\ [][MCNext]_all /\ MCFairness

\* What happened comes to be known where the money is: a queued event of the
\* operation is decided, and an order that was paid is credited.
OutcomeArrives == B!DeliveryIsDecided /\ PaymentIsCredited

\* What was decided elsewhere comes to be applied: an operator's decision on the
\* operation, and the provider's decision on the refund.
DecisionArrives == B!DecisionIsApplied /\ RefundIsDecided
=============================================================================
