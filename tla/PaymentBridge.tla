--------------------------- MODULE PaymentBridge ---------------------------
(***************************************************************************)
(* One order that the billing authority sells and one refund of it, and    *)
(* everything that works on them: the payment bridges of several gateway   *)
(* processes, the provider's callbacks, the payment provider, and the      *)
(* authority that owns the order.                                          *)
(*                                                                         *)
(* Nothing in the bridge relates two orders except the size of the pages   *)
(* it reads, so one order is the whole protocol; its page is not full.     *)
(*                                                                         *)
(* A statement or a transaction is one step. A call to the authority or to *)
(* the provider is sent, applied (possibly late, or never) and answered    *)
(* (possibly never); the set of requests sent only grows, so a request may *)
(* be lost, repeated or overtaken. A call and the database write that      *)
(* follows it are separate steps wherever the answer can be out of date    *)
(* when it is written.                                                     *)
(***************************************************************************)
EXTENDS Naturals, Sequences, SequencesExt

CONSTANTS
    Processes, \* payment bridge goroutines, one per gateway process
    Orders     \* the orders considered, each with what is frozen about it:
               \*   imported     it was paid before the authority took it over
               \*   byReference  its provider finds a payment only by the
               \*                provider's own reference
               \*   refundQuery  how its provider finds a refund: by our
               \*                request, by the provider's id, or not at all

ASSUME OrdersAssumption ==
    Orders \subseteq [imported : BOOLEAN, byReference : BOOLEAN,
                      refundQuery : {"request", "id", "none"}]

VARIABLES
    order,     \* the order, which never changes
    job,       \* row of billing_center_payment_jobs
    refund,    \* row of billing_center_refund_jobs
    outbox,    \* rows of billing_center_payment_outbox in the order of created_at
    delivered, \* those with delivered_at
    sent,      \* requests put on the wire
    calls,     \* how often the provider was asked to create or to refund
    auth,      \* the order and the refund at the authority
    psp,       \* the payment and the refund at the provider
    bridge     \* what each bridge is doing and what it last read

storeVars  == <<job, refund, outbox, delivered>>
remoteVars == <<auth, psp>>
progress == <<storeVars, sent, calls, remoteVars, bridge>>
vars == <<order, progress>>

-----------------------------------------------------------------------------
OrderEvents  == {"checkout", "paid", "cancelled"}
RefundEvents == {"refund_succeeded", "refund_failed"}
Events == OrderEvents \cup RefundEvents

\* entity_id of an event.
Entity(event) == IF event \in OrderEvents THEN "order" ELSE "refund"

\* The rows. The state reconciliation_required is checked for in several places and
\* never written: nothing calls ReconcileOrder, and every refund has a provider id.
Jobs ==
    [state : {"absent", "pending", "dispatching", "ready", "paid", "cancelled"},
     ref   : {"none", "session", "payment"}]
Refunds ==
    [state : {"absent", "pending", "dispatching", "provider_pending", "succeeded", "failed"},
     id    : {"none", "known"}]

\* The other side: what the authority and the provider hold of the order.
Accounts ==
    [state    : {"pending", "paid", "cancelled"},
     checkout : {"pending", "dispatched", "ready"},
     refund   : {"none", "requested", "succeeded", "failed"}]
Payments ==
    [session : {"none", "open", "paid", "closed"},
     refund  : {"none", "pending", "success", "failed"}]
Requests == Events \cup {"claim", "create", "refund"}

\* Where a bridge can be inside one Tick.
CheckoutPhases == {"checkout", "claim", "claiming", "create", "creating"}
RefundPhases ==
    {"refund", "claim_refund", "send_refund", "refunding", "query_refund", "finish_refund"}
PollPhases == {"poll", "query", "record"}
Phases ==
    {"deliver", "events", "sending", "work"} \cup CheckoutPhases \cup RefundPhases \cup PollPhases

\* What a call has returned, or the event that is being sent.
Answers == {"none", "paid", "closed", "pending", "success", "failed"} \cup Events
BridgeRecords ==
    {record \in [pc : Phases, todo : SUBSET Events, answer : Answers] :
        record.pc = "sending" => record.answer \in record.todo}

At(phase, todo, answer) == [pc |-> phase, todo |-> todo, answer |-> answer]
Idle == At("deliver", {}, "none")

Init ==
    /\ order \in Orders
    /\ job = [state |-> "absent", ref |-> "none"]
    /\ refund = [state |-> "absent", id |-> "none"]
    /\ outbox = <<>> /\ delivered = {} /\ sent = {}
    /\ calls = [create |-> 0, refund |-> 0]
    /\ auth = IF order.imported
              THEN [state |-> "paid", checkout |-> "ready", refund |-> "none"]
              ELSE [state |-> "pending", checkout |-> "pending", refund |-> "none"]
    /\ psp = [session |-> IF order.imported THEN "paid" ELSE "none", refund |-> "none"]
    /\ bridge = [p \in Processes |-> Idle]

Moves(p, record) == bridge' = [bridge EXCEPT ![p] = record]
Goes(p, phase) == bridge' = [bridge EXCEPT ![p].pc = phase]
Learns(p, phase, answer) == bridge' = [bridge EXCEPT ![p].pc = phase, ![p].answer = answer]

\* After the orders of the page come its refunds, then polling. The checkout and
\* the refund of one order are never on one page: the refund follows the payment.
LeavesWork(p) == Moves(p, At("poll", {}, "none"))
LeavesPoll(p) == Moves(p, Idle)

Queued == {outbox[i] : i \in DOMAIN outbox}

\* Mutant: the insert does not mind an event_id that exists.
EnqueueAgain(event) ==
    \E i \in 1 .. Len(outbox) + 1 : outbox' = InsertAt(outbox, i, event)

\* enqueuePayment inside a transaction. created_at is the start of the
\* transaction, so an event may sort before one that was committed earlier.
\* An event that exists already is left alone.
Enqueue(event) ==
    IF event \in Queued THEN UNCHANGED outbox
    ELSE \E i \in 1 .. Len(outbox) + 1 : outbox' = InsertAt(outbox, i, event)

-----------------------------------------------------------------------------
(* Deliver: the outbox. Tick delivers first and last; the Deliver that ends *)
(* one tick and the one that begins the next have only the ticker between   *)
(* them and are one here.                                                   *)

Pending == {event \in Queued : event \notin delivered}

\* The events of a page that are left; when none is, the tick goes on to the work.
ContinuesWith(p, todo) ==
    Moves(p, At(IF todo = {} THEN "work" ELSE "events", todo, "none"))

ReadEvents(p) ==
    /\ bridge[p].pc = "deliver"
    /\ ContinuesWith(p, Pending)
    /\ UNCHANGED <<storeVars, sent, calls, remoteVars>>

\* ORDER BY created_at.
IsFirst(event, todo) ==
    \E i \in DOMAIN outbox :
        outbox[i] = event /\ \A j \in 1 .. i - 1 : outbox[j] \notin todo

SendEvent(p) ==
    /\ bridge[p].pc = "events"
    /\ \E event \in bridge[p].todo :
          /\ IsFirst(event, bridge[p].todo)
          /\ sent' = sent \cup {event}
          /\ Learns(p, "sending", event)
    /\ UNCHANGED <<storeVars, calls, remoteVars>>

\* The answer Deliver accepts as a confirmation of the event.
Confirmed(event) ==
    CASE event = "checkout"         -> auth.checkout = "ready"
      [] event = "paid"             -> auth.state = "paid"
      [] event = "cancelled"        -> auth.state = "cancelled"
      [] event = "refund_succeeded" -> auth.refund = "succeeded"
      [] event = "refund_failed"    -> auth.refund = "failed"

EventDelivered(p) ==
    LET event == bridge[p].answer IN
    /\ bridge[p].pc = "sending"
    /\ Confirmed(event)
    /\ delivered' = delivered \cup {event}
    /\ ContinuesWith(p, bridge[p].todo \ {event})
    /\ UNCHANGED <<job, refund, outbox, sent, calls, remoteVars>>

\* No answer, or an answer that does not confirm the event: the event stays
\* pending and holds back the later events of its entity.
EventFailed(p) ==
    LET Free(event) == Entity(event) # Entity(bridge[p].answer) IN
    /\ bridge[p].pc = "sending"
    /\ ContinuesWith(p, {event \in bridge[p].todo : Free(event)})
    /\ UNCHANGED <<storeVars, sent, calls, remoteVars>>

\* The database fails under Deliver, which returns; the tick goes on.
DeliverFails(p) ==
    /\ bridge[p].pc \in {"deliver", "events", "sending"}
    /\ Moves(p, At("work", {}, "none"))
    /\ UNCHANGED <<storeVars, sent, calls, remoteVars>>

-----------------------------------------------------------------------------
(* PaymentWork: what the authority wants done. *)

Work ==
    IF auth.state = "pending" /\ auth.checkout # "ready" THEN "checkout"
    ELSE IF auth.refund = "requested" THEN "refund"
    ELSE "poll"

PaymentWork(p) ==
    /\ bridge[p].pc = "work"
    /\ Goes(p, Work)
    /\ UNCHANGED <<storeVars, sent, calls, remoteVars>>

\* Without a page of work the tick ends at once, without polling.
PaymentWorkFails(p) ==
    /\ bridge[p].pc = "work"
    /\ Moves(p, Idle)
    /\ UNCHANGED <<storeVars, sent, calls, remoteVars>>

-----------------------------------------------------------------------------
(* Checkout. *)

\* Insert the job unless it exists, and look at what is there.
CreateOrder(p) ==
    /\ bridge[p].pc = "checkout"
    /\ job' = IF job.state = "absent" THEN [job EXCEPT !.state = "pending"] ELSE job
    /\ IF job'.state = "pending" THEN Goes(p, "claim") ELSE LeavesWork(p)
    /\ UNCHANGED <<refund, outbox, delivered, sent, calls, remoteVars>>

\* Mutant: the statement does not look at the state it replaces.
ClaimCheckoutUnguarded(p) ==
    /\ bridge[p].pc = "claim"
    /\ job' = [job EXCEPT !.state = "dispatching"]
    /\ sent' = sent \cup {"claim"}
    /\ Goes(p, "claiming")
    /\ UNCHANGED <<refund, outbox, delivered, calls, remoteVars>>

\* The row is claimed by one bridge, which then asks the authority's leave.
ClaimCheckout(p) ==
    /\ bridge[p].pc = "claim"
    /\ \/ /\ job.state = "pending"
          /\ job' = [job EXCEPT !.state = "dispatching"]
          /\ sent' = sent \cup {"claim"}
          /\ Goes(p, "claiming")
       \/ /\ job.state # "pending"
          /\ LeavesWork(p)
          /\ UNCHANGED <<job, sent>>
    /\ UNCHANGED <<refund, outbox, delivered, calls, remoteVars>>

ClaimAnswer(p) ==
    /\ bridge[p].pc = "claiming"
    /\ auth.checkout = "dispatched"
    /\ Goes(p, "create")
    /\ UNCHANGED <<storeVars, sent, calls, remoteVars>>

CreatePayment(p) ==
    /\ bridge[p].pc = "create"
    /\ sent' = sent \cup {"create"}
    /\ calls' = [calls EXCEPT !.create = @ + 1]
    /\ Goes(p, "creating")
    /\ UNCHANGED <<storeVars, remoteVars>>

\* Mutant: the session's id replaces the reference a payment has left.
CompleteCheckoutOverwrites(p) ==
    /\ bridge[p].pc = "creating"
    /\ psp.session # "none"
    /\ job.state \in {"dispatching", "ready", "paid"}
    /\ Enqueue("checkout")
    /\ job' = [state |-> IF job.state = "paid" THEN "paid" ELSE "ready", ref |-> "session"]
    /\ LeavesWork(p)
    /\ UNCHANGED <<refund, delivered, sent, calls, remoteVars>>

\* Mutant: the row becomes ready whatever happened while the answer was out.
CompleteCheckoutAlwaysReady(p) ==
    /\ bridge[p].pc = "creating"
    /\ psp.session # "none"
    /\ job.state \in {"dispatching", "ready", "paid"}
    /\ Enqueue("checkout")
    /\ job' = [state |-> "ready", ref |-> IF job.ref = "none" THEN "session" ELSE job.ref]
    /\ LeavesWork(p)
    /\ UNCHANGED <<refund, delivered, sent, calls, remoteVars>>

\* The provider answers Create, and one transaction records the session's id and
\* queues the checkout. A payment that was recorded meanwhile stays, with its own
\* reference; an order cancelled meanwhile refuses the answer.
CompleteCheckout(p) ==
    /\ bridge[p].pc = "creating"
    /\ psp.session # "none"
    /\ job.state \in {"dispatching", "ready", "paid"}
    /\ Enqueue("checkout")
    /\ job' = [state |-> IF job.state = "paid" THEN "paid" ELSE "ready",
               ref   |-> IF job.ref = "none" THEN "session" ELSE job.ref]
    /\ LeavesWork(p)
    /\ UNCHANGED <<refund, delivered, sent, calls, remoteVars>>

\* Any error of Checkout, a lost answer included. The row stays as it is: a
\* claimed order is never claimed again.
CheckoutFails(p) ==
    /\ bridge[p].pc \in CheckoutPhases
    /\ LeavesWork(p)
    /\ UNCHANGED <<storeVars, sent, calls, remoteVars>>

-----------------------------------------------------------------------------
(* Notify and PollPayments: two ways to learn what became of the payment. *)

\* The transactions Paid and Cancelled.
Paid ==
    /\ job.state \notin {"absent", "pending", "cancelled"}
    /\ Enqueue("paid")
    /\ job' = [state |-> "paid", ref |-> "payment"]
    /\ UNCHANGED <<refund, delivered>>

Cancelled ==
    /\ job.state \notin {"absent", "pending", "paid"}
    /\ Enqueue("cancelled")
    /\ job' = [job EXCEPT !.state = "cancelled"]
    /\ UNCHANGED <<refund, delivered>>

\* The provider's callback, as often as it likes. Imported orders carry their old
\* external id, whose callbacks never reach the bridge.
Notify ==
    /\ ~order.imported
    /\ psp.session = "paid"
    /\ Paid
    /\ UNCHANGED <<sent, calls, remoteVars, bridge>>

\* Mutant: only orders whose checkout was recorded are asked about.
PollSelectReadyOnly(p) ==
    /\ bridge[p].pc = "poll"
    /\ IF job.state = "ready" /\ (order.byReference => job.ref # "none")
       THEN Goes(p, "query") ELSE LeavesPoll(p)
    /\ UNCHANGED <<storeVars, sent, calls, remoteVars>>

PollSelect(p) ==
    /\ bridge[p].pc = "poll"
    /\ IF job.state \in {"dispatching", "ready"} /\ (order.byReference => job.ref # "none")
       THEN Goes(p, "query") ELSE LeavesPoll(p)
    /\ UNCHANGED <<storeVars, sent, calls, remoteVars>>

\* Mutant: a payment the provider does not know counts as closed and unpaid.
QueryOrderUnknownIsClosed(p) ==
    /\ bridge[p].pc = "query"
    /\ \/ psp.session = "paid" /\ Learns(p, "record", "paid")
       \/ psp.session \in {"none", "closed"} /\ Learns(p, "record", "closed")
    /\ UNCHANGED <<storeVars, sent, calls, remoteVars>>

\* Only a payment, or a session the provider states to be closed and unpaid, is a
\* result; not found, pending and failed leave the poll.
QueryOrder(p) ==
    /\ bridge[p].pc = "query"
    /\ \/ psp.session = "paid" /\ Learns(p, "record", "paid")
       \/ psp.session = "closed" /\ Learns(p, "record", "closed")
    /\ UNCHANGED <<storeVars, sent, calls, remoteVars>>

RecordAnswer(p) ==
    /\ bridge[p].pc = "record"
    /\ \/ bridge[p].answer = "paid" /\ Paid
       \/ bridge[p].answer = "closed" /\ Cancelled
    /\ LeavesPoll(p)
    /\ UNCHANGED <<sent, calls, remoteVars>>

PollFails(p) ==
    /\ bridge[p].pc \in PollPhases
    /\ LeavesPoll(p)
    /\ UNCHANGED <<storeVars, sent, calls, remoteVars>>

-----------------------------------------------------------------------------
(* Refund. *)

\* The bridge never saw an imported order: it adopts the fulfilled one.
AdoptOrder(p) ==
    /\ bridge[p].pc = "refund"
    /\ order.imported /\ job.state = "absent"
    /\ job' = [state |-> "paid", ref |-> "payment"]
    /\ UNCHANGED <<refund, outbox, delivered, sent, calls, remoteVars, bridge>>

\* Can the provider be asked what became of a refund it was sent?
CanQuery == order.refundQuery = "request" \/ (order.refundQuery = "id" /\ refund.id # "none")

\* Mutant: the provider is asked only when its own refund id is known.
RefundPhaseById(state) ==
    IF state = "pending" THEN "claim_refund"
    ELSE IF state \in {"dispatching", "provider_pending"} /\ refund.id # "none" THEN "query_refund"
    ELSE "poll"

\* What Refund does with a row in this state.
RefundPhase(state) ==
    IF state = "pending" THEN "claim_refund"
    ELSE IF state \in {"dispatching", "provider_pending"} /\ CanQuery THEN "query_refund"
    ELSE "poll"

\* Insert the refund unless it exists, and look at what is there.
CreateRefund(p) ==
    /\ bridge[p].pc = "refund"
    /\ job.state = "paid" /\ job.ref = "payment"
    /\ refund' = IF refund.state = "absent" THEN [refund EXCEPT !.state = "pending"] ELSE refund
    /\ Goes(p, RefundPhase(refund'.state))
    /\ UNCHANGED <<job, outbox, delivered, sent, calls, remoteVars>>

ClaimRefund(p) ==
    /\ bridge[p].pc = "claim_refund"
    /\ \/ /\ refund.state = "pending"
          /\ refund' = [refund EXCEPT !.state = "dispatching"]
          /\ Goes(p, "send_refund")
       \/ /\ refund.state # "pending"
          /\ LeavesWork(p)
          /\ UNCHANGED refund
    /\ UNCHANGED <<job, outbox, delivered, sent, calls, remoteVars>>

SendRefund(p) ==
    /\ bridge[p].pc = "send_refund"
    /\ sent' = sent \cup {"refund"}
    /\ calls' = [calls EXCEPT !.refund = @ + 1]
    /\ Goes(p, "refunding")
    /\ UNCHANGED <<storeVars, remoteVars>>

\* The answer to Refund itself: done, or not yet. No adapter reports a failure.
RefundAnswer(p) ==
    /\ bridge[p].pc = "refunding"
    /\ psp.refund # "none"
    /\ Learns(p, "finish_refund", IF psp.refund = "success" THEN "success" ELSE "pending")
    /\ UNCHANGED <<storeVars, sent, calls, remoteVars>>

\* Mutant: a refund the provider does not know has failed.
QueryRefundUnknownIsFailed(p) ==
    /\ bridge[p].pc = "query_refund"
    /\ Learns(p, "finish_refund", IF psp.refund = "none" THEN "failed" ELSE psp.refund)
    /\ UNCHANGED <<storeVars, sent, calls, remoteVars>>

\* A refund the provider does not know is an error, never a failed refund.
QueryRefund(p) ==
    /\ bridge[p].pc = "query_refund"
    /\ psp.refund # "none"
    /\ Learns(p, "finish_refund", psp.refund)
    /\ UNCHANGED <<storeVars, sent, calls, remoteVars>>

\* Mutant: the statement does not look at the state it replaces.
MarkRefundPendingUnguarded ==
    /\ refund' = [state |-> "provider_pending", id |-> "known"]
    /\ UNCHANGED <<job, outbox, delivered>>

\* An answer that was overtaken by a final one changes nothing.
MarkRefundPending ==
    /\ refund' = IF refund.state \in {"dispatching", "provider_pending"}
                 THEN [state |-> "provider_pending", id |-> "known"] ELSE refund
    /\ UNCHANGED <<job, outbox, delivered>>

\* One transaction makes the row final and queues the event. The two outcomes
\* share one event_id, so the second of them is refused.
CompleteRefund(outcome, event) ==
    /\ refund.state \notin {"absent", "pending"}
    /\ Queued \cap RefundEvents \subseteq {event}
    /\ Enqueue(event)
    /\ refund' = [state |-> outcome, id |-> "known"]
    /\ UNCHANGED <<job, delivered>>

FinishRefund(p) ==
    /\ bridge[p].pc = "finish_refund"
    /\ \/ bridge[p].answer = "pending" /\ MarkRefundPending
       \/ bridge[p].answer = "success" /\ CompleteRefund("succeeded", "refund_succeeded")
       \/ bridge[p].answer = "failed" /\ CompleteRefund("failed", "refund_failed")
    /\ LeavesWork(p)
    /\ UNCHANGED <<sent, calls, remoteVars>>

\* Any error of Refund, a lost answer included. The funds stay held.
RefundFails(p) ==
    /\ bridge[p].pc \in RefundPhases
    /\ LeavesWork(p)
    /\ UNCHANGED <<storeVars, sent, calls, remoteVars>>

-----------------------------------------------------------------------------
\* The process stops anywhere and starts again with nothing but the rows.
Crash(p) ==
    /\ bridge[p] # Idle
    /\ Moves(p, Idle)
    /\ UNCHANGED <<storeVars, sent, calls, remoteVars>>

-----------------------------------------------------------------------------
(* The authority, as the bridge uses it: every request has an event_id and  *)
(* is applied once; a state it has left is not entered again.               *)

AuthorityClaim ==
    /\ "claim" \in sent /\ auth.checkout = "pending"
    /\ auth' = [auth EXCEPT !.checkout = "dispatched"]
    /\ UNCHANGED <<storeVars, sent, calls, psp, bridge>>

AuthorityEvent(event) ==
    /\ event \in sent
    /\ \/ /\ event = "checkout" /\ auth.checkout = "dispatched"
          /\ auth' = [auth EXCEPT !.checkout = "ready"]
       \/ /\ event \in {"paid", "cancelled"} /\ auth.state = "pending"
          /\ auth' = [auth EXCEPT !.state = event]
       \/ /\ event = "refund_succeeded" /\ auth.refund = "requested"
          /\ auth' = [auth EXCEPT !.refund = "succeeded"]
       \/ /\ event = "refund_failed" /\ auth.refund = "requested"
          /\ auth' = [auth EXCEPT !.refund = "failed"]
    /\ UNCHANGED <<storeVars, sent, calls, psp, bridge>>

AuthorityRefund ==
    /\ auth.state = "paid" /\ auth.refund = "none"
    /\ auth' = [auth EXCEPT !.refund = "requested"]
    /\ UNCHANGED <<storeVars, sent, calls, psp, bridge>>

AuthorityStep ==
    AuthorityClaim \/ AuthorityRefund \/ \E event \in Events : AuthorityEvent(event)

(* The payment provider: Create and Refund carry our id, so a repeated       *)
(* request would be harmless only there, and not with every provider.        *)

ProviderCreate ==
    /\ "create" \in sent /\ psp.session = "none"
    /\ psp' = [psp EXCEPT !.session = "open"]
    /\ UNCHANGED <<storeVars, sent, calls, auth, bridge>>

CustomerPays ==
    /\ psp.session = "open"
    /\ psp' = [psp EXCEPT !.session = "paid"]
    /\ UNCHANGED <<storeVars, sent, calls, auth, bridge>>

SessionCloses ==
    /\ psp.session = "open"
    /\ psp' = [psp EXCEPT !.session = "closed"]
    /\ UNCHANGED <<storeVars, sent, calls, auth, bridge>>

ProviderRefund ==
    /\ \/ "refund" \in sent /\ psp.refund = "none"
       \/ psp.refund = "pending"
    /\ \E outcome \in {"pending", "success", "failed"} \ {psp.refund} :
          psp' = [psp EXCEPT !.refund = outcome]
    /\ UNCHANGED <<storeVars, sent, calls, auth, bridge>>

ProviderStep == ProviderCreate \/ CustomerPays \/ SessionCloses \/ ProviderRefund

-----------------------------------------------------------------------------
DeliverStep(p) ==
    ReadEvents(p) \/ SendEvent(p) \/ EventDelivered(p) \/ EventFailed(p) \/ DeliverFails(p)
CheckoutStep(p) ==
    \/ CreateOrder(p) \/ ClaimCheckout(p) \/ ClaimAnswer(p) \/ CreatePayment(p)
    \/ CompleteCheckout(p) \/ CheckoutFails(p)
PollStep(p) == PollSelect(p) \/ QueryOrder(p) \/ RecordAnswer(p) \/ PollFails(p)
RefundStep(p) ==
    \/ AdoptOrder(p) \/ CreateRefund(p) \/ ClaimRefund(p) \/ SendRefund(p)
    \/ RefundAnswer(p) \/ QueryRefund(p) \/ FinishRefund(p) \/ RefundFails(p)

\* One Tick after the other, for as long as the process lives.
TickStep(p) ==
    \/ DeliverStep(p) \/ PaymentWork(p) \/ PaymentWorkFails(p)
    \/ CheckoutStep(p) \/ RefundStep(p) \/ PollStep(p)

Next ==
    /\ \/ \E p \in Processes : TickStep(p) \/ Crash(p)
       \/ Notify \/ AuthorityStep \/ ProviderStep
    /\ UNCHANGED order

Spec == Init /\ [][Next]_vars

\* Run ticks for ever. A call that is made again and again is answered in the
\* end, and what reaches the authority is applied; nothing is assumed of the
\* callback, the customer, the provider or how often a bridge crashes, only that
\* no step of a tick is cut short every time.
Fairness ==
    /\ \A event \in Events : WF_progress(AuthorityEvent(event))
    /\ \A p \in Processes :
        /\ WF_progress(TickStep(p))
        /\ SF_progress(ReadEvents(p)) /\ SF_progress(SendEvent(p)) /\ SF_progress(EventDelivered(p))
        /\ SF_progress(PaymentWork(p)) /\ SF_progress(CreateOrder(p))
        /\ SF_progress(PollSelect(p)) /\ SF_progress(QueryOrder(p)) /\ SF_progress(RecordAnswer(p))
        /\ SF_progress(CreateRefund(p)) /\ SF_progress(QueryRefund(p)) /\ SF_progress(FinishRefund(p))
FairSpec == Spec /\ Fairness

-----------------------------------------------------------------------------
(* Properties. *)

TypeOK ==
    /\ order \in Orders
    /\ job \in Jobs
    /\ refund \in Refunds
    /\ outbox \in Seq(Events) /\ IsInjective(outbox)
    /\ delivered \in SUBSET Events
    /\ sent \in SUBSET Requests
    /\ calls \in [create : Nat, refund : Nat]
    /\ auth \in Accounts
    /\ psp \in Payments
    /\ bridge \in [Processes -> BridgeRecords]

\* What was ever queued or sent.
Told == Queued \cup sent

\* However many bridges work on the page, and whatever is lost, repeated or
\* crashes, the provider is asked at most once to create the payment and at most
\* once to refund it ("never blindly Create again", payment_bridge.go:152).
OneExternalEffect == calls.create <= 1 /\ calls.refund <= 1

\* The authority hears of a payment only when the customer has paid, and of a
\* cancellation only when the customer no longer can: no answer of the provider
\* short of a stated unpaid closure cancels an order.
PaymentOutcomeIsTrue ==
    /\ "paid" \in Told => psp.session = "paid"
    /\ "cancelled" \in Told => psp.session = "closed"

\* The authority frees or takes the held funds only on what the provider did in
\* the end: an unknown refund keeps them held, even while it is still under way.
RefundOutcomeIsTrue ==
    /\ "refund_succeeded" \in Told => psp.refund = "success"
    /\ "refund_failed" \in Told => psp.refund = "failed"

\* A job says paid, cancelled, succeeded or failed exactly when the event that
\* tells the authority so is queued, and no order is told two ends.
RowsAgree ==
    /\ job.state = "cancelled" <=> "cancelled" \in Queued
    /\ ~order.imported => (job.state = "paid" <=> "paid" \in Queued)
    /\ refund.state = "succeeded" <=> "refund_succeeded" \in Queued
    /\ refund.state = "failed" <=> "refund_failed" \in Queued
    /\ job.state = "ready" => "checkout" \in Queued

\* A paid order keeps the reference of its payment, which the refund needs, even
\* when the callback overtakes the answer to the Create call.
PaidKeepsReference == job.state = "paid" => job.ref = "payment"

\* An end once reached is kept, by the rows and by the outbox: an answer that was
\* fetched before and is written after it changes nothing.
SettledIsFinal ==
    [][ /\ job.state \in {"paid", "cancelled"} => job'.state = job.state
        /\ refund.state \in {"succeeded", "failed"} => refund' = refund
        /\ delivered \subseteq delivered' ]_vars

\* A payment is credited although every callback is lost, as soon as the provider
\* can be asked for it.
PaymentIsCredited ==
    psp.session = "paid" /\ (order.byReference => job.ref # "none") ~> auth.state = "paid"

\* A refund the provider has decided is decided at the authority, whatever answers
\* were lost, when the provider can be asked for our request.
RefundIsDecided ==
    order.refundQuery = "request" /\ psp.refund \in {"success", "failed"} ~>
        auth.refund \in {"succeeded", "failed"}

=============================================================================
