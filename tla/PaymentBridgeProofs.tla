------------------------ MODULE PaymentBridgeProofs ------------------------
(***************************************************************************)
(* Proofs about PaymentBridge, for any number of gateway processes and any *)
(* order; and, at the end, about the move of an account beside it.         *)
(***************************************************************************)
EXTENDS MCPaymentBridge, SequenceTheorems, TLAPS

-----------------------------------------------------------------------------
(* The helpers. *)

LEMMA MovesType ==
    ASSUME bridge \in [Processes -> BridgeRecords], NEW p \in Processes,
           NEW record \in BridgeRecords, Moves(p, record)
    PROVE  /\ bridge' \in [Processes -> BridgeRecords]
           /\ bridge'[p] = record
           /\ \A q \in Processes \ {p} : bridge'[q] = bridge[q]
    BY DEF Moves

LEMMA GoesType ==
    ASSUME bridge \in [Processes -> BridgeRecords], NEW p \in Processes,
           NEW phase \in Phases \ {"sending"}, Goes(p, phase)
    PROVE  /\ bridge' \in [Processes -> BridgeRecords]
           /\ bridge'[p].pc = phase /\ bridge'[p].answer = bridge[p].answer
           /\ bridge'[p].todo = bridge[p].todo
           /\ \A q \in Processes \ {p} : bridge'[q] = bridge[q]
    BY DEF Goes, BridgeRecords

LEMMA LearnsType ==
    ASSUME bridge \in [Processes -> BridgeRecords], NEW p \in Processes,
           NEW phase \in Phases, NEW answer \in Answers, Learns(p, phase, answer),
           phase = "sending" => answer \in bridge[p].todo
    PROVE  /\ bridge' \in [Processes -> BridgeRecords]
           /\ bridge'[p].pc = phase /\ bridge'[p].answer = answer
           /\ bridge'[p].todo = bridge[p].todo
           /\ \A q \in Processes \ {p} : bridge'[q] = bridge[q]
    BY DEF Learns, BridgeRecords

LEMMA AtType ==
    ASSUME NEW phase \in Phases \ {"sending"}, NEW todo \in SUBSET Events
    PROVE  At(phase, todo, "none") \in BridgeRecords
    BY DEF At, BridgeRecords, Answers

LEMMA IdleType == Idle \in BridgeRecords
<1>1. "deliver" \in Phases \ {"sending"}
    BY DEF Phases
<1>2. QED  BY <1>1, AtType DEF Idle

LEMMA LeavesType ==
    ASSUME bridge \in [Processes -> BridgeRecords], NEW p \in Processes,
           LeavesWork(p) \/ LeavesPoll(p)
    PROVE  /\ bridge' \in [Processes -> BridgeRecords]
           /\ bridge'[p] \in {Idle, At("poll", {}, "none")}
           /\ \A q \in Processes \ {p} : bridge'[q] = bridge[q]
<1>1. "poll" \in Phases \ {"sending"}
    BY DEF Phases, PollPhases
<1>2. At("poll", {}, "none") \in BridgeRecords
    BY <1>1, AtType
<1>3. QED  BY <1>2, IdleType, MovesType DEF LeavesWork, LeavesPoll

LEMMA ContinuesType ==
    ASSUME bridge \in [Processes -> BridgeRecords], NEW p \in Processes,
           NEW todo \in SUBSET Events, ContinuesWith(p, todo)
    PROVE  /\ bridge' \in [Processes -> BridgeRecords]
           /\ bridge'[p] \in {At("work", todo, "none"), At("events", todo, "none")}
           /\ \A q \in Processes \ {p} : bridge'[q] = bridge[q]
<1>1. {"work", "events"} \subseteq Phases \ {"sending"}
    BY DEF Phases
<1>2. /\ At("work", todo, "none") \in BridgeRecords
      /\ At("events", todo, "none") \in BridgeRecords
    BY <1>1, AtType
<1>3. QED  BY <1>2, MovesType DEF ContinuesWith

\* Enqueue adds one event, at one place, and none twice.
LEMMA EnqueueType ==
    ASSUME outbox \in Seq(Events), IsInjective(outbox), NEW event \in Events,
           Enqueue(event)
    PROVE  /\ outbox' \in Seq(Events) /\ IsInjective(outbox')
           /\ Queued' = Queued \cup {event}
<1>1. CASE event \in Queued
    BY <1>1 DEF Enqueue, Queued, IsInjective
<1>2. CASE event \notin Queued
  <2>1. PICK i \in 1 .. Len(outbox) + 1 : outbox' = InsertAt(outbox, i, event)
      BY <1>2 DEF Enqueue
  <2>2. /\ outbox' \in Seq(Events) /\ Len(outbox') = Len(outbox) + 1
        /\ \A j \in 1 .. Len(outbox) + 1 :
              outbox'[j] = IF j < i THEN outbox[j] ELSE IF j = i THEN event ELSE outbox[j - 1]
    <3> DEFINE left == SubSeq(outbox, 1, i - 1)
               begin == left \o <<event>>
               right == SubSeq(outbox, i, Len(outbox))
    <3>1. /\ left \in Seq(Events) /\ Len(left) = i - 1
          /\ \A j \in 1 .. i - 1 : left[j] = outbox[j]
        OBVIOUS
    <3>2. /\ right \in Seq(Events) /\ Len(right) = Len(outbox) - i + 1
          /\ \A j \in 1 .. Len(outbox) - i + 1 : right[j] = outbox[j + i - 1]
        OBVIOUS
    <3>3. <<event>> \in Seq(Events) /\ Len(<<event>>) = 1 /\ <<event>>[1] = event
        OBVIOUS
    <3>4. outbox' = begin \o right
        BY <2>1 DEF InsertAt
    <3> HIDE DEF left, right
    <3>5. /\ begin \in Seq(Events) /\ Len(begin) = i
          /\ \A j \in 1 .. i : begin[j] = IF j < i THEN left[j] ELSE event
        BY <3>1, <3>3
    <3> HIDE DEF begin
    <3>6. /\ outbox' \in Seq(Events) /\ Len(outbox') = Len(outbox) + 1
          /\ \A j \in 1 .. Len(outbox) + 1 :
                outbox'[j] = IF j <= i THEN begin[j] ELSE right[j - i]
      <4>1. /\ outbox' \in Seq(Events) /\ Len(outbox') = Len(begin) + Len(right)
            /\ \A j \in 1 .. Len(begin) + Len(right) :
                  outbox'[j] = IF j <= Len(begin) THEN begin[j] ELSE right[j - Len(begin)]
          BY <3>2, <3>4, <3>5, ConcatProperties
      <4>2. Len(begin) + Len(right) = Len(outbox) + 1
          BY <3>2, <3>5
      <4>3. QED  BY <3>5, <4>1, <4>2
    <3>7. \A j \in 1 .. Len(outbox) + 1 :
             outbox'[j] = IF j < i THEN outbox[j] ELSE IF j = i THEN event ELSE outbox[j - 1]
      <4>1. TAKE j \in 1 .. Len(outbox) + 1
      <4>2. CASE j < i
        <5>1. outbox'[j] = left[j]  BY <3>5, <3>6, <4>2
        <5>2. QED  BY <3>1, <4>2, <5>1
      <4>3. CASE j = i
          BY <3>5, <3>6, <4>3
      <4>4. CASE j > i
        <5>1. outbox'[j] = right[j - i]  BY <3>6, <4>4
        <5>2. j - i \in 1 .. Len(outbox) - i + 1  BY <4>4
        <5>3. right[j - i] = outbox[(j - i) + i - 1]  BY <3>2, <5>2
        <5>4. QED  BY <4>4, <5>1, <5>3
      <4>5. QED  BY <4>2, <4>3, <4>4
    <3>8. QED  BY <3>6, <3>7
  <2>3. \A a, b \in 1 .. Len(outbox) + 1 : outbox'[a] = outbox'[b] => a = b
    <3>1. \A j \in 1 .. Len(outbox) : outbox[j] # event
        BY <1>2 DEF Queued
    <3>2. \A a, b \in 1 .. Len(outbox) : outbox[a] = outbox[b] => a = b
        BY DEF IsInjective
    <3> DEFINE Old(j) == IF j < i THEN j ELSE j - 1
    <3>3. \A j \in 1 .. Len(outbox) + 1 : j # i =>
             Old(j) \in 1 .. Len(outbox) /\ outbox'[j] = outbox[Old(j)]
        BY <2>2
    <3>4. \A a, b \in 1 .. Len(outbox) + 1 :
             a # i /\ b # i /\ Old(a) = Old(b) => a = b
        OBVIOUS
    <3>5. outbox'[i] = event
        BY <2>2
    <3> HIDE DEF Old
    <3>6. \A j \in 1 .. Len(outbox) + 1 : j # i => outbox'[j] # event
        BY <3>1, <3>3
    <3>7. TAKE a, b \in 1 .. Len(outbox) + 1
    <3>8. HAVE outbox'[a] = outbox'[b]
    <3>9. CASE a # i /\ b # i
        BY <3>2, <3>3, <3>4, <3>8, <3>9
    <3>10. CASE a = i \/ b = i
        BY <3>5, <3>6, <3>8, <3>10
    <3>11. QED  BY <3>9, <3>10
  <2>4. Queued' = {outbox'[j] : j \in 1 .. Len(outbox) + 1}
    <3>1. DOMAIN outbox' = 1 .. Len(outbox')
        BY <2>2, LenProperties
    <3>2. DOMAIN outbox' = 1 .. Len(outbox) + 1
        BY <2>2, <3>1
    <3>3. QED  BY <3>2 DEF Queued
  <2>5. \A j \in 1 .. Len(outbox) :
          outbox[j] = outbox'[IF j < i THEN j ELSE j + 1]
      BY <2>2
  <2>6. Queued' = Queued \cup {event}
    <3>1. Queued' \subseteq Queued \cup {event}
        BY <2>2, <2>4 DEF Queued
    <3>2. Queued \cup {event} \subseteq Queued'
      <4>1. event \in Queued'
          BY <2>1, <2>2, <2>4
      <4>2. ASSUME NEW j \in 1 .. Len(outbox) PROVE outbox[j] \in Queued'
        <5>1. (IF j < i THEN j ELSE j + 1) \in 1 .. Len(outbox) + 1
            OBVIOUS
        <5>2. QED  BY <2>4, <2>5, <5>1
      <4>3. QED  BY <4>1, <4>2 DEF Queued
    <3>3. QED  BY <3>1, <3>2
  <2>7. QED  BY <2>2, <2>3, <2>6 DEF IsInjective
<1>3. QED  BY <1>1, <1>2

-----------------------------------------------------------------------------
(* Types. *)

LEMMA InitTyped == Init => TypeOK
<1> SUFFICES ASSUME Init PROVE TypeOK
    OBVIOUS
<1>1. job \in Jobs /\ refund \in Refunds /\ calls \in [create : Nat, refund : Nat]
    BY DEF Init, Jobs, Refunds
<1>2. outbox \in Seq(Events) /\ IsInjective(outbox) /\ delivered = {} /\ sent = {}
    BY DEF Init, IsInjective
<1>3. auth \in Accounts /\ psp \in Payments
    BY DEF Init, Accounts, Payments
<1>4. bridge \in [Processes -> BridgeRecords]
    BY IdleType DEF Init
<1>5. order \in Orders
    BY DEF Init
<1>6. QED  BY <1>1, <1>2, <1>3, <1>4, <1>5 DEF TypeOK

\* What the bridge's own variables need when nothing else changes.
LEMMA OnlyBridgeTyped ==
    ASSUME TypeOK, bridge' \in [Processes -> BridgeRecords],
           UNCHANGED <<order, storeVars, sent, calls, remoteVars>>
    PROVE  TypeOK'
    BY DEF TypeOK, storeVars, remoteVars

LEMMA DeliverTyped ==
    ASSUME TypeOK, UNCHANGED order, NEW p \in Processes, DeliverStep(p)
    PROVE  TypeOK'
<1> USE DEF TypeOK
<1>1. Queued \subseteq Events
    BY DEF Queued
<1>2. bridge[p] \in BridgeRecords
    OBVIOUS
<1>3. CASE ReadEvents(p)
  <2>1. Pending \in SUBSET Events
      BY <1>1 DEF Pending
  <2>2. bridge' \in [Processes -> BridgeRecords]
      BY <1>3, <2>1, ContinuesType DEF ReadEvents
  <2>3. QED  BY <1>3, <2>2, OnlyBridgeTyped DEF ReadEvents
<1>4. CASE SendEvent(p)
  <2>1. PICK event \in bridge[p].todo :
            sent' = sent \cup {event} /\ Learns(p, "sending", event)
      BY <1>4 DEF SendEvent
  <2>2. event \in Events
      BY <1>2 DEF BridgeRecords
  <2>3. event \in Answers /\ "sending" \in Phases
      BY <2>2 DEF Answers, Phases
  <2>4. bridge' \in [Processes -> BridgeRecords]
      BY <2>1, <2>3, LearnsType
  <2>5. sent' \in SUBSET Requests
      BY <2>1, <2>2 DEF Requests
  <2>6. QED  BY <1>4, <2>4, <2>5 DEF SendEvent, storeVars, remoteVars
<1>5. CASE EventDelivered(p)
  <2>1. bridge[p].answer \in Events /\ bridge[p].todo \in SUBSET Events
      BY <1>2, <1>5 DEF EventDelivered, BridgeRecords
  <2>2. delivered' \in SUBSET Events
      BY <1>5, <2>1 DEF EventDelivered
  <2>3. bridge' \in [Processes -> BridgeRecords]
    <3>1. bridge[p].todo \ {bridge[p].answer} \in SUBSET Events
        BY <2>1
    <3>2. QED  BY <1>5, <3>1, ContinuesType DEF EventDelivered
  <2>4. QED  BY <1>5, <2>2, <2>3 DEF EventDelivered, remoteVars
<1>6. CASE EventFailed(p)
  <2>1. bridge' \in [Processes -> BridgeRecords]
    <3>1. bridge[p].todo \in SUBSET Events
        BY <1>2 DEF BridgeRecords
    <3>2. {event \in bridge[p].todo : Entity(event) # Entity(bridge[p].answer)} \in SUBSET Events
        BY <3>1
    <3>3. QED  BY <1>6, <3>2, ContinuesType DEF EventFailed
  <2>2. QED  BY <1>6, <2>1, OnlyBridgeTyped DEF EventFailed
<1>7. CASE DeliverFails(p)
  <2>1. "work" \in Phases \ {"sending"}
      BY DEF Phases
  <2>2. bridge' \in [Processes -> BridgeRecords]
      BY <1>7, <2>1, AtType, MovesType DEF DeliverFails
  <2>3. QED  BY <1>7, <2>2, OnlyBridgeTyped DEF DeliverFails
<1>8. QED  BY <1>3, <1>4, <1>5, <1>6, <1>7 DEF DeliverStep

LEMMA WorkTyped ==
    ASSUME TypeOK, UNCHANGED order, NEW p \in Processes,
           PaymentWork(p) \/ PaymentWorkFails(p) \/ Crash(p)
    PROVE  TypeOK'
<1> USE DEF TypeOK
<1>1. CASE PaymentWork(p)
  <2>1. Work \in Phases \ {"sending"}
      BY DEF Work, Phases, CheckoutPhases, RefundPhases, PollPhases
  <2>2. bridge' \in [Processes -> BridgeRecords]
      BY <1>1, <2>1, GoesType DEF PaymentWork
  <2>3. QED  BY <1>1, <2>2, OnlyBridgeTyped DEF PaymentWork
<1>2. CASE PaymentWorkFails(p) \/ Crash(p)
  <2>1. bridge' \in [Processes -> BridgeRecords]
      BY <1>2, IdleType, MovesType DEF PaymentWorkFails, Crash
  <2>2. QED  BY <1>2, <2>1, OnlyBridgeTyped DEF PaymentWorkFails, Crash
<1>3. QED  BY <1>1, <1>2

LEMMA CheckoutTyped ==
    ASSUME TypeOK, UNCHANGED order, NEW p \in Processes, CheckoutStep(p)
    PROVE  TypeOK'
<1> USE DEF TypeOK
<1>1. CheckoutPhases \subseteq Phases \ {"sending"}
    BY DEF Phases, CheckoutPhases
<1>2. CASE CreateOrder(p)
  <2>1. job' \in Jobs
      BY <1>2 DEF CreateOrder, Jobs
  <2>2. bridge' \in [Processes -> BridgeRecords]
      BY <1>1, <1>2, GoesType, LeavesType DEF CreateOrder, CheckoutPhases
  <2>3. QED  BY <1>2, <2>1, <2>2 DEF CreateOrder, remoteVars
<1>3. CASE ClaimCheckout(p)
  <2>1. job' \in Jobs /\ sent' \in SUBSET Requests
      BY <1>3 DEF ClaimCheckout, Jobs, Requests
  <2>2. bridge' \in [Processes -> BridgeRecords]
      BY <1>1, <1>3, GoesType, LeavesType DEF ClaimCheckout, CheckoutPhases
  <2>3. QED  BY <1>3, <2>1, <2>2 DEF ClaimCheckout, remoteVars
<1>4. CASE ClaimAnswer(p)
  <2>1. bridge' \in [Processes -> BridgeRecords]
      BY <1>1, <1>4, GoesType DEF ClaimAnswer, CheckoutPhases
  <2>2. QED  BY <1>4, <2>1, OnlyBridgeTyped DEF ClaimAnswer
<1>5. CASE CreatePayment(p)
  <2>1. sent' \in SUBSET Requests /\ calls' \in [create : Nat, refund : Nat]
      BY <1>5 DEF CreatePayment, Requests
  <2>2. bridge' \in [Processes -> BridgeRecords]
      BY <1>1, <1>5, GoesType DEF CreatePayment, CheckoutPhases
  <2>3. QED  BY <1>5, <2>1, <2>2 DEF CreatePayment, storeVars, remoteVars
<1>6. CASE CompleteCheckout(p)
  <2>1. job' \in Jobs
      BY <1>6 DEF CompleteCheckout, Jobs
  <2>2. outbox' \in Seq(Events) /\ IsInjective(outbox')
      BY <1>6, EnqueueType DEF CompleteCheckout, Events, OrderEvents
  <2>3. bridge' \in [Processes -> BridgeRecords]
      BY <1>6, LeavesType DEF CompleteCheckout
  <2>4. QED  BY <1>6, <2>1, <2>2, <2>3 DEF CompleteCheckout, remoteVars
<1>7. CASE CheckoutFails(p)
  <2>1. bridge' \in [Processes -> BridgeRecords]
      BY <1>7, LeavesType DEF CheckoutFails
  <2>2. QED  BY <1>7, <2>1, OnlyBridgeTyped DEF CheckoutFails
<1>8. QED  BY <1>2, <1>3, <1>4, <1>5, <1>6, <1>7 DEF CheckoutStep

\* The two transactions that settle a job.
LEMMA SettleTyped ==
    ASSUME TypeOK, Paid \/ Cancelled
    PROVE  /\ job' \in Jobs
           /\ outbox' \in Seq(Events) /\ IsInjective(outbox')
           /\ UNCHANGED <<refund, delivered>>
<1>1. job' \in Jobs
    BY DEF TypeOK, Paid, Cancelled, Jobs
<1>2. {"paid", "cancelled"} \subseteq Events
    BY DEF Events, OrderEvents
<1>3. outbox' \in Seq(Events) /\ IsInjective(outbox')
    BY <1>2, EnqueueType DEF TypeOK, Paid, Cancelled
<1>4. QED  BY <1>1, <1>3 DEF Paid, Cancelled

LEMMA PollTyped ==
    ASSUME TypeOK, UNCHANGED order, NEW p \in Processes, PollStep(p)
    PROVE  TypeOK'
<1> USE DEF TypeOK
<1>1. PollPhases \subseteq Phases \ {"sending"}
    BY DEF Phases, PollPhases
<1>2. CASE PollSelect(p)
  <2>1. bridge' \in [Processes -> BridgeRecords]
      BY <1>1, <1>2, GoesType, LeavesType DEF PollSelect, PollPhases
  <2>2. QED  BY <1>2, <2>1, OnlyBridgeTyped DEF PollSelect
<1>3. CASE QueryOrder(p)
  <2>1. bridge' \in [Processes -> BridgeRecords]
      BY <1>1, <1>3, LearnsType DEF QueryOrder, PollPhases, Answers
  <2>2. QED  BY <1>3, <2>1, OnlyBridgeTyped DEF QueryOrder
<1>4. CASE RecordAnswer(p)
  <2>1. bridge' \in [Processes -> BridgeRecords]
      BY <1>4, LeavesType DEF RecordAnswer
  <2>2. QED  BY <1>4, <2>1, SettleTyped DEF RecordAnswer, remoteVars
<1>5. CASE PollFails(p)
  <2>1. bridge' \in [Processes -> BridgeRecords]
      BY <1>5, LeavesType DEF PollFails
  <2>2. QED  BY <1>5, <2>1, OnlyBridgeTyped DEF PollFails
<1>6. QED  BY <1>2, <1>3, <1>4, <1>5 DEF PollStep

LEMMA RefundTyped ==
    ASSUME TypeOK, UNCHANGED order, NEW p \in Processes, RefundStep(p)
    PROVE  TypeOK'
<1> USE DEF TypeOK
<1>1. RefundPhases \cup {"poll"} \subseteq Phases \ {"sending"}
    BY DEF Phases, RefundPhases, PollPhases
<1>2. CASE AdoptOrder(p)
    BY <1>2 DEF AdoptOrder, Jobs, remoteVars
<1>3. CASE CreateRefund(p)
  <2>1. refund' \in Refunds
      BY <1>3 DEF CreateRefund, Refunds
  <2>2. \A state : RefundPhase(state) \in RefundPhases \cup {"poll"}
      BY DEF RefundPhase, RefundPhases
  <2>3. bridge' \in [Processes -> BridgeRecords]
      BY <1>1, <1>3, <2>2, GoesType DEF CreateRefund
  <2>4. QED  BY <1>3, <2>1, <2>3 DEF CreateRefund, remoteVars
<1>4. CASE ClaimRefund(p)
  <2>1. refund' \in Refunds
      BY <1>4 DEF ClaimRefund, Refunds
  <2>2. bridge' \in [Processes -> BridgeRecords]
      BY <1>1, <1>4, GoesType, LeavesType DEF ClaimRefund, RefundPhases
  <2>3. QED  BY <1>4, <2>1, <2>2 DEF ClaimRefund, remoteVars
<1>5. CASE SendRefund(p)
  <2>1. sent' \in SUBSET Requests /\ calls' \in [create : Nat, refund : Nat]
      BY <1>5 DEF SendRefund, Requests
  <2>2. bridge' \in [Processes -> BridgeRecords]
      BY <1>1, <1>5, GoesType DEF SendRefund, RefundPhases
  <2>3. QED  BY <1>5, <2>1, <2>2 DEF SendRefund, storeVars, remoteVars
<1>6. CASE RefundAnswer(p) \/ QueryRefund(p)
  <2>1. psp.refund \in Answers /\ {"success", "pending"} \subseteq Answers
      BY DEF Payments, Answers
  <2>2. bridge' \in [Processes -> BridgeRecords]
      BY <1>1, <1>6, <2>1, LearnsType DEF RefundAnswer, QueryRefund, RefundPhases
  <2>3. QED  BY <1>6, <2>2, OnlyBridgeTyped DEF RefundAnswer, QueryRefund
<1>7. CASE FinishRefund(p)
  <2>1. bridge' \in [Processes -> BridgeRecords]
      BY <1>7, LeavesType DEF FinishRefund
  <2>2. CASE MarkRefundPending
    <3>1. refund' \in Refunds
        BY <2>2 DEF MarkRefundPending, Refunds
    <3>2. QED  BY <1>7, <2>1, <2>2, <3>1 DEF FinishRefund, MarkRefundPending, remoteVars
  <2>3. ASSUME NEW outcome \in {"succeeded", "failed"}, NEW event \in Events,
               CompleteRefund(outcome, event)
        PROVE  TypeOK'
    <3>1. refund' \in Refunds
        BY <2>3 DEF CompleteRefund, Refunds
    <3>2. outbox' \in Seq(Events) /\ IsInjective(outbox')
        BY <2>3, EnqueueType DEF CompleteRefund
    <3>3. QED  BY <1>7, <2>1, <2>3, <3>1, <3>2 DEF FinishRefund, CompleteRefund, remoteVars
  <2>4. RefundEvents \subseteq Events
      BY DEF Events
  <2>5. QED  BY <1>7, <2>2, <2>3, <2>4 DEF FinishRefund, RefundEvents
<1>8. CASE RefundFails(p)
  <2>1. bridge' \in [Processes -> BridgeRecords]
      BY <1>8, LeavesType DEF RefundFails
  <2>2. QED  BY <1>8, <2>1, OnlyBridgeTyped DEF RefundFails
<1>9. QED  BY <1>2, <1>3, <1>4, <1>5, <1>6, <1>7, <1>8 DEF RefundStep

LEMMA OthersTyped ==
    ASSUME TypeOK, UNCHANGED order, AuthorityStep \/ ProviderStep
    PROVE  TypeOK'
<1> USE DEF TypeOK
<1>1. CASE AuthorityStep
  <2>1. auth' \in Accounts
      BY <1>1 DEF AuthorityStep, AuthorityClaim, AuthorityRefund, AuthorityEvent, Accounts
  <2>2. UNCHANGED <<storeVars, sent, calls, psp, bridge>>
      BY <1>1 DEF AuthorityStep, AuthorityClaim, AuthorityRefund, AuthorityEvent
  <2>3. QED  BY <2>1, <2>2 DEF storeVars
<1>2. CASE ProviderStep
  <2>1. psp' \in Payments
      BY <1>2 DEF ProviderStep, ProviderCreate, CustomerPays, SessionCloses, ProviderRefund, Payments
  <2>2. UNCHANGED <<storeVars, sent, calls, auth, bridge>>
      BY <1>2 DEF ProviderStep, ProviderCreate, CustomerPays, SessionCloses, ProviderRefund
  <2>3. QED  BY <2>1, <2>2 DEF storeVars
<1>3. QED  BY <1>1, <1>2

LEMMA NextTyped == TypeOK /\ [Next]_vars => TypeOK'
<1> SUFFICES ASSUME TypeOK, [Next]_vars PROVE TypeOK'
    OBVIOUS
<1>1. CASE Next
  <2>1. UNCHANGED order
      BY <1>1 DEF Next
  <2>2. ASSUME NEW p \in Processes, TickStep(p) \/ Crash(p) PROVE TypeOK'
      BY <2>1, <2>2, DeliverTyped, WorkTyped, CheckoutTyped, RefundTyped, PollTyped
         DEF TickStep
  <2>3. CASE Notify
      BY <2>1, <2>3, SettleTyped DEF Notify, TypeOK, remoteVars
  <2>4. CASE AuthorityStep \/ ProviderStep
      BY <2>1, <2>4, OthersTyped
  <2>5. QED  BY <1>1, <2>2, <2>3, <2>4 DEF Next
<1>2. CASE UNCHANGED vars
    BY <1>2 DEF TypeOK, vars, progress, storeVars, remoteVars
<1>3. QED  BY <1>1, <1>2

\* Rows, messages and every bridge's own state keep their types, and no event_id
\* is used twice.
THEOREM TypeCorrect == Spec => []TypeOK
<1>1. QED  BY InitTyped, NextTyped, PTL DEF Spec

-----------------------------------------------------------------------------
(* One external effect, and only true outcomes.                             *)
(*                                                                          *)
(* Neither is inductive alone. A second call is impossible because between  *)
(* the claim of a row and the call exactly one bridge stands, and nobody    *)
(* stands there while the row is unclaimed. What the authority is told is   *)
(* true because whatever is sent was queued, whatever is queued was answered*)
(* by the provider, and the answers that count are final at the provider.   *)

Unclaimed == {"absent", "pending"}
Creator(p) == bridge[p].pc \in {"claiming", "create"}
Refunder(p) == bridge[p].pc = "send_refund"

Effects ==
    /\ calls.create <= 1 /\ calls.refund <= 1
    /\ job.state \in Unclaimed => calls.create = 0
    /\ refund.state \in Unclaimed => calls.refund = 0
    /\ \A p \in Processes :
          /\ Creator(p) => job.state \notin Unclaimed /\ calls.create = 0
          /\ Refunder(p) => refund.state \notin Unclaimed /\ calls.refund = 0
    /\ \A p, q \in Processes :
          (Creator(p) /\ Creator(q)) \/ (Refunder(p) /\ Refunder(q)) => p = q

Heard(p) ==
    /\ bridge[p].pc = "record" =>
          /\ bridge[p].answer = "paid" => psp.session = "paid"
          /\ bridge[p].answer = "closed" => psp.session = "closed"
    /\ bridge[p].pc = "finish_refund" =>
          /\ bridge[p].answer = "success" => psp.refund = "success"
          /\ bridge[p].answer = "failed" => psp.refund = "failed"

Truth ==
    /\ sent \cap Events \subseteq Queued
    /\ \A p \in Processes : bridge[p].todo \subseteq Queued
    /\ \A p \in Processes : Heard(p)
    /\ "paid" \in Queued => psp.session = "paid"
    /\ "cancelled" \in Queued => psp.session = "closed"
    /\ "refund_succeeded" \in Queued => psp.refund = "success"
    /\ "refund_failed" \in Queued => psp.refund = "failed"

Inv == TypeOK /\ Effects /\ Truth

LEMMA InitInv == Init => Inv
<1> SUFFICES ASSUME Init PROVE Inv
    OBVIOUS
<1>1. Effects
    BY DEF Init, Effects, Creator, Refunder, Idle, At
<1>2. Queued = {}
    BY DEF Init, Queued
<1>3. Truth
    BY <1>2 DEF Init, Truth, Heard, Idle, At
<1>4. QED  BY <1>1, <1>3, InitTyped DEF Inv

\* A bridge that ends a step where it owns nothing and has heard nothing.
Rests(record) ==
    record.pc \notin {"claiming", "create", "send_refund", "record", "finish_refund"}

\* A row that was claimed stays claimed.
Claimed ==
    /\ job'.state \in Unclaimed => job.state \in Unclaimed
    /\ refund'.state \in Unclaimed => refund.state \in Unclaimed

LEMMA RestingEffects ==
    ASSUME Effects, Claimed, UNCHANGED calls, NEW p \in Processes, Rests(bridge'[p]),
           \A q \in Processes \ {p} : bridge'[q] = bridge[q]
    PROVE  Effects'
<1>1. \A q \in Processes : Creator(q)' \/ Refunder(q)' => q # p
    BY DEF Rests, Creator, Refunder
<1>2. \A q \in Processes : (Creator(q)' => Creator(q)) /\ (Refunder(q)' => Refunder(q))
    BY <1>1 DEF Creator, Refunder
<1>3. QED  BY <1>2 DEF Effects, Claimed

\* Nothing is queued or sent, and the provider does not move.
LEMMA RestingTruth ==
    ASSUME Truth, UNCHANGED <<outbox, sent, psp>>, NEW p \in Processes,
           Rests(bridge'[p]), bridge'[p].todo \subseteq Queued,
           \A q \in Processes \ {p} : bridge'[q] = bridge[q]
    PROVE  Truth'
<1>1. Queued' = Queued
    BY DEF Queued
<1>2. \A q \in Processes : Heard(q)'
    BY DEF Truth, Heard, Rests
<1>3. QED  BY <1>1, <1>2 DEF Truth

\* One event more, which is true.
LEMMA QueueingTruth ==
    ASSUME Truth, TypeOK, NEW event \in Events, Enqueue(event), UNCHANGED <<sent, psp>>,
           event = "paid" => psp.session = "paid",
           event = "cancelled" => psp.session = "closed",
           event = "refund_succeeded" => psp.refund = "success",
           event = "refund_failed" => psp.refund = "failed",
           \A q \in Processes : Heard(q)' /\ bridge'[q].todo \subseteq Queued
    PROVE  Truth'
<1>1. Queued' = Queued \cup {event}
    BY EnqueueType DEF TypeOK
<1>2. QED  BY <1>1 DEF Truth

\* LeavesWork and LeavesPoll rest and drop the page.
LEMMA LeavesRests ==
    ASSUME TypeOK, NEW p \in Processes, LeavesWork(p) \/ LeavesPoll(p)
    PROVE  /\ Rests(bridge'[p]) /\ bridge'[p].todo = {}
           /\ \A q \in Processes \ {p} : bridge'[q] = bridge[q]
    BY LeavesType DEF TypeOK, Rests, Idle, At

LEMMA ContinuesRests ==
    ASSUME TypeOK, NEW p \in Processes, NEW todo \in SUBSET Events, ContinuesWith(p, todo)
    PROVE  /\ Rests(bridge'[p]) /\ bridge'[p].todo = todo
           /\ \A q \in Processes \ {p} : bridge'[q] = bridge[q]
    BY ContinuesType DEF TypeOK, Rests, At

\* Steps that leave the rows, the calls and the provider alone.
LEMMA RestingStep ==
    ASSUME Inv, UNCHANGED <<storeVars, sent, calls, psp>>, NEW p \in Processes,
           Rests(bridge'[p]), bridge'[p].todo \subseteq Queued,
           \A q \in Processes \ {p} : bridge'[q] = bridge[q]
    PROVE  Effects' /\ Truth'
<1>1. Claimed
    BY DEF Claimed, storeVars
<1>2. Effects'
    BY <1>1, RestingEffects DEF Inv
<1>3. Truth'
    BY RestingTruth DEF Inv, storeVars
<1>4. QED  BY <1>2, <1>3

LEMMA DeliverInv ==
    ASSUME Inv, NEW p \in Processes, DeliverStep(p)
    PROVE  Effects' /\ Truth'
<1> USE DEF Inv
<1>1. Queued \subseteq Events
    BY DEF TypeOK, Queued
<1>2. bridge[p] \in BridgeRecords /\ bridge[p].todo \subseteq Queued
    BY DEF TypeOK, Truth
<1>3. CASE ReadEvents(p)
  <2>1. Pending \subseteq Queued
      BY DEF Pending
  <2>2. QED  BY <1>1, <1>3, <2>1, ContinuesRests, RestingStep DEF ReadEvents, remoteVars
<1>4. CASE SendEvent(p)
  <2>1. PICK event \in bridge[p].todo :
            sent' = sent \cup {event} /\ Learns(p, "sending", event)
      BY <1>4 DEF SendEvent
  <2>2. event \in Events /\ event \in Queued
      BY <1>1, <1>2
  <2>3. event \in Answers /\ "sending" \in Phases
      BY <2>2 DEF Answers, Phases
  <2>4. /\ bridge'[p].pc = "sending" /\ bridge'[p].todo = bridge[p].todo
        /\ \A q \in Processes \ {p} : bridge'[q] = bridge[q]
      BY <2>1, <2>3, LearnsType DEF TypeOK
  <2>5. Rests(bridge'[p]) /\ Claimed /\ UNCHANGED <<storeVars, calls, psp>>
      BY <1>4, <2>4 DEF SendEvent, Rests, Claimed, storeVars, remoteVars
  <2>6. Effects'
      BY <2>4, <2>5, RestingEffects
  <2>7. Queued' = Queued /\ UNCHANGED psp
      BY <2>5 DEF Queued, storeVars
  <2>8. \A q \in Processes : Heard(q)' /\ bridge'[q].todo \subseteq Queued
      BY <1>2, <2>4, <2>5 DEF Truth, Heard, Rests
  <2>9. Truth'
      BY <2>1, <2>2, <2>7, <2>8 DEF Truth
  <2>10. QED  BY <2>6, <2>9
<1>5. CASE EventDelivered(p)
  <2>1. bridge[p].todo \ {bridge[p].answer} \in SUBSET Events
      BY <1>1, <1>2
  <2>2. /\ Rests(bridge'[p]) /\ bridge'[p].todo \subseteq Queued
        /\ \A q \in Processes \ {p} : bridge'[q] = bridge[q]
      BY <1>2, <1>5, <2>1, ContinuesRests DEF EventDelivered
  <2>3. UNCHANGED <<job, refund, outbox, sent, calls, psp>>
      BY <1>5 DEF EventDelivered, remoteVars
  <2>4. Effects'
      BY <2>2, <2>3, RestingEffects DEF Claimed
  <2>5. Truth'
      BY <2>2, <2>3, RestingTruth
  <2>6. QED  BY <2>4, <2>5
<1>6. CASE EventFailed(p)
  <2>1. {event \in bridge[p].todo : Entity(event) # Entity(bridge[p].answer)}
            \in SUBSET Events
      BY <1>1, <1>2
  <2>2. /\ Rests(bridge'[p]) /\ bridge'[p].todo \subseteq Queued
        /\ \A q \in Processes \ {p} : bridge'[q] = bridge[q]
      BY <1>2, <1>6, <2>1, ContinuesRests DEF EventFailed
  <2>3. QED  BY <1>6, <2>2, RestingStep DEF EventFailed, remoteVars
<1>7. CASE DeliverFails(p)
  <2>1. "work" \in Phases \ {"sending"}
      BY DEF Phases
  <2>2. /\ bridge'[p] = At("work", {}, "none")
        /\ \A q \in Processes \ {p} : bridge'[q] = bridge[q]
      BY <1>7, <2>1, AtType, MovesType DEF DeliverFails, TypeOK
  <2>3. QED  BY <1>7, <2>2, RestingStep DEF DeliverFails, remoteVars, Rests, At
<1>8. QED  BY <1>3, <1>4, <1>5, <1>6, <1>7 DEF DeliverStep

LEMMA WorkInv ==
    ASSUME Inv, NEW p \in Processes, PaymentWork(p) \/ PaymentWorkFails(p) \/ Crash(p)
    PROVE  Effects' /\ Truth'
<1> USE DEF Inv
<1>1. bridge[p].todo \subseteq Queued
    BY DEF Truth
<1>2. CASE PaymentWork(p)
  <2>1. Work \in Phases \ {"sending"} /\ Work \in {"checkout", "refund", "poll"}
      BY DEF Work, Phases, CheckoutPhases, RefundPhases, PollPhases
  <2>2. /\ bridge'[p].pc = Work /\ bridge'[p].todo = bridge[p].todo
        /\ \A q \in Processes \ {p} : bridge'[q] = bridge[q]
      BY <1>2, <2>1, GoesType DEF PaymentWork, TypeOK
  <2>3. Rests(bridge'[p])
      BY <2>1, <2>2 DEF Rests
  <2>4. QED  BY <1>1, <1>2, <2>2, <2>3, RestingStep DEF PaymentWork, remoteVars
<1>3. CASE PaymentWorkFails(p) \/ Crash(p)
  <2>1. /\ bridge'[p] = Idle
        /\ \A q \in Processes \ {p} : bridge'[q] = bridge[q]
      BY <1>3, IdleType, MovesType DEF PaymentWorkFails, Crash, TypeOK
  <2>2. UNCHANGED <<storeVars, sent, calls, psp>>
      BY <1>3 DEF PaymentWorkFails, Crash, remoteVars
  <2>3. QED  BY <2>1, <2>2, RestingStep DEF Rests, Idle, At
<1>4. QED  BY <1>2, <1>3

\* Goes to a phase where the bridge owns nothing and has heard nothing.
LEMMA GoesRests ==
    ASSUME TypeOK, NEW p \in Processes, NEW phase \in Phases \ {"sending"}, Goes(p, phase),
           phase \notin {"claiming", "create", "send_refund", "record", "finish_refund"}
    PROVE  /\ Rests(bridge'[p]) /\ bridge'[p].todo = bridge[p].todo
           /\ \A q \in Processes \ {p} : bridge'[q] = bridge[q]
    BY GoesType DEF TypeOK, Rests

\* Steps that queue nothing, hear nothing and may send a request that is no event.
LEMMA SilentTruth ==
    ASSUME Truth, UNCHANGED <<outbox, psp>>, sent' \cap Events = sent \cap Events,
           NEW p \in Processes, bridge'[p].pc \notin {"record", "finish_refund"},
           bridge'[p].todo \subseteq Queued,
           \A q \in Processes \ {p} : bridge'[q] = bridge[q]
    PROVE  Truth'
<1>1. Queued' = Queued
    BY DEF Queued
<1>2. \A q \in Processes : Heard(q)'
    BY DEF Truth, Heard
<1>3. QED  BY <1>1, <1>2 DEF Truth

LEMMA CheckoutInv ==
    ASSUME Inv, NEW p \in Processes, CheckoutStep(p)
    PROVE  Effects' /\ Truth'
<1> USE DEF Inv
<1>1. bridge[p].todo \subseteq Queued
    BY DEF Truth
<1>2. CheckoutPhases \subseteq Phases \ {"sending"}
    BY DEF Phases, CheckoutPhases
<1>3. CASE CreateOrder(p)
  <2>1. /\ Rests(bridge'[p]) /\ bridge'[p].todo \subseteq Queued
        /\ \A q \in Processes \ {p} : bridge'[q] = bridge[q]
      BY <1>1, <1>2, <1>3, GoesRests, LeavesRests DEF CreateOrder, CheckoutPhases
  <2>2. Claimed /\ UNCHANGED <<outbox, sent, calls, psp>>
    <3>1. job'.state \in Unclaimed => job.state \in Unclaimed
        BY <1>3 DEF CreateOrder, Unclaimed
    <3>2. QED  BY <1>3, <3>1 DEF CreateOrder, Claimed, remoteVars
  <2>3. QED  BY <2>1, <2>2, RestingEffects, RestingTruth
<1>4. CASE ClaimCheckout(p)
  <2>1. CASE job.state = "pending"
    <3>1. /\ bridge'[p].pc = "claiming" /\ bridge'[p].todo = bridge[p].todo
          /\ \A q \in Processes \ {p} : bridge'[q] = bridge[q]
        BY <1>2, <1>4, <2>1, GoesType DEF ClaimCheckout, CheckoutPhases, TypeOK
    <3>2. /\ sent' = sent \cup {"claim"} /\ job'.state = "dispatching"
          /\ UNCHANGED <<refund, outbox, calls, psp>>
        BY <1>4, <2>1 DEF ClaimCheckout, remoteVars, TypeOK, Jobs
    <3>3. Effects'
      <4>1. job.state \in Unclaimed /\ job'.state \notin Unclaimed
          BY <2>1, <3>2 DEF Unclaimed
      <4>2. \A q \in Processes : ~Creator(q) /\ calls.create = 0
          BY <4>1 DEF Effects
      <4>3. \A q \in Processes : (Creator(q)' => q = p) /\ (Refunder(q)' => Refunder(q))
          BY <3>1, <4>2 DEF Creator, Refunder
      <4>4. QED  BY <3>2, <4>1, <4>2, <4>3 DEF Effects
    <3>4. sent' \cap Events = sent \cap Events
        BY <3>2 DEF Events, OrderEvents, RefundEvents
    <3>5. Truth'
        BY <1>1, <3>1, <3>2, <3>4, SilentTruth
    <3>6. QED  BY <3>3, <3>5
  <2>2. CASE job.state # "pending"
    <3>1. /\ Rests(bridge'[p]) /\ bridge'[p].todo \subseteq Queued
          /\ \A q \in Processes \ {p} : bridge'[q] = bridge[q]
        BY <1>4, <2>2, LeavesRests DEF ClaimCheckout
    <3>2. UNCHANGED <<storeVars, sent, calls, psp>>
        BY <1>4, <2>2 DEF ClaimCheckout, storeVars, remoteVars
    <3>3. QED  BY <3>1, <3>2, RestingStep
  <2>3. QED  BY <2>1, <2>2
<1>5. CASE ClaimAnswer(p)
  <2>1. /\ bridge'[p].pc = "create" /\ bridge'[p].todo = bridge[p].todo
        /\ \A q \in Processes \ {p} : bridge'[q] = bridge[q]
      BY <1>2, <1>5, GoesType DEF ClaimAnswer, CheckoutPhases, TypeOK
  <2>2. UNCHANGED <<storeVars, sent, calls, psp>>
      BY <1>5 DEF ClaimAnswer, remoteVars
  <2>3. \A q \in Processes : (Creator(q)' => Creator(q)) /\ (Refunder(q)' => Refunder(q))
      BY <1>5, <2>1 DEF ClaimAnswer, Creator, Refunder
  <2>4. Effects'
      BY <2>2, <2>3 DEF Effects, storeVars
  <2>5. Truth'
      BY <1>1, <2>1, <2>2, SilentTruth DEF storeVars
  <2>6. QED  BY <2>4, <2>5
<1>6. CASE CreatePayment(p)
  <2>1. /\ bridge'[p].pc = "creating" /\ bridge'[p].todo = bridge[p].todo
        /\ \A q \in Processes \ {p} : bridge'[q] = bridge[q]
      BY <1>2, <1>6, GoesType DEF CreatePayment, CheckoutPhases, TypeOK
  <2>2. /\ sent' = sent \cup {"create"}
        /\ calls'.create = calls.create + 1 /\ calls'.refund = calls.refund
        /\ UNCHANGED <<job, refund, outbox, psp>>
      BY <1>6 DEF CreatePayment, storeVars, remoteVars, TypeOK
  <2>3. Creator(p)
      BY <1>6 DEF CreatePayment, Creator
  <2>4. \A q \in Processes : ~Creator(q)' /\ (Refunder(q)' => Refunder(q))
      BY <2>1, <2>3 DEF Effects, Creator, Refunder
  <2>5. calls'.create = 1 /\ job.state \notin Unclaimed
      BY <2>2, <2>3 DEF Effects
  <2>6. Effects'
      BY <2>2, <2>4, <2>5 DEF Effects
  <2>7. sent' \cap Events = sent \cap Events
      BY <2>2 DEF Events, OrderEvents, RefundEvents
  <2>8. Truth'
      BY <1>1, <2>1, <2>2, <2>7, SilentTruth
  <2>9. QED  BY <2>6, <2>8
<1>7. CASE CompleteCheckout(p)
  <2>1. /\ Rests(bridge'[p]) /\ bridge'[p].todo \subseteq Queued
        /\ \A q \in Processes \ {p} : bridge'[q] = bridge[q]
      BY <1>7, LeavesRests DEF CompleteCheckout
  <2>2. Claimed /\ UNCHANGED <<sent, calls, psp>> /\ Enqueue("checkout")
      BY <1>7 DEF CompleteCheckout, Claimed, Unclaimed, remoteVars
  <2>3. Effects'
      BY <2>1, <2>2, RestingEffects
  <2>4. \A q \in Processes : Heard(q)' /\ bridge'[q].todo \subseteq Queued
      BY <2>1, <2>2 DEF Truth, Heard, Rests
  <2>5. "checkout" \in Events
      BY DEF Events, OrderEvents
  <2>6. Truth'
      BY <2>2, <2>4, <2>5, QueueingTruth
  <2>7. QED  BY <2>3, <2>6
<1>8. CASE CheckoutFails(p)
  <2>1. /\ Rests(bridge'[p]) /\ bridge'[p].todo \subseteq Queued
        /\ \A q \in Processes \ {p} : bridge'[q] = bridge[q]
      BY <1>8, LeavesRests DEF CheckoutFails
  <2>2. QED  BY <1>8, <2>1, RestingStep DEF CheckoutFails, remoteVars
<1>9. QED  BY <1>3, <1>4, <1>5, <1>6, <1>7, <1>8 DEF CheckoutStep

\* What Paid and Cancelled do to the claims, and when what they queue is true.
LEMMA SettleInv ==
    ASSUME Inv, UNCHANGED <<sent, calls, psp>>,
           \/ Paid /\ psp.session = "paid"
           \/ Cancelled /\ psp.session = "closed",
           \A q \in Processes :
              bridge'[q] = bridge[q] \/ (Rests(bridge'[q]) /\ bridge'[q].todo = {})
    PROVE  Effects' /\ Truth'
<1> USE DEF Inv
<1>1. Claimed
  <2>1. job \in Jobs
      BY DEF TypeOK
  <2>2. job'.state \in {"paid", "cancelled"} /\ refund' = refund
      BY <2>1 DEF Paid, Cancelled, Jobs
  <2>3. QED  BY <2>2 DEF Claimed, Unclaimed
<1>2. \A q \in Processes : (Creator(q)' => Creator(q)) /\ (Refunder(q)' => Refunder(q))
    BY DEF Creator, Refunder, Rests
<1>3. Effects'
    BY <1>1, <1>2 DEF Effects, Claimed
<1>4. \A q \in Processes : Heard(q)' /\ bridge'[q].todo \subseteq Queued
    BY DEF Truth, Heard, Rests
<1>5. {"paid", "cancelled"} \subseteq Events
    BY DEF Events, OrderEvents
<1>6. Truth'
    BY <1>4, <1>5, QueueingTruth DEF Paid, Cancelled
<1>7. QED  BY <1>3, <1>6

LEMMA PollInv ==
    ASSUME Inv, NEW p \in Processes, PollStep(p)
    PROVE  Effects' /\ Truth'
<1> USE DEF Inv
<1>1. bridge[p].todo \subseteq Queued
    BY DEF Truth
<1>2. PollPhases \subseteq Phases \ {"sending"}
    BY DEF Phases, PollPhases
<1>3. CASE PollSelect(p)
  <2>1. /\ Rests(bridge'[p]) /\ bridge'[p].todo \subseteq Queued
        /\ \A q \in Processes \ {p} : bridge'[q] = bridge[q]
      BY <1>1, <1>2, <1>3, GoesRests, LeavesRests DEF PollSelect, PollPhases
  <2>2. QED  BY <1>3, <2>1, RestingStep DEF PollSelect, remoteVars
<1>4. CASE QueryOrder(p)
  <2>1. PICK answer \in {"paid", "closed"} :
            psp.session = answer /\ Learns(p, "record", answer)
      BY <1>4 DEF QueryOrder
  <2>2. /\ bridge'[p].pc = "record" /\ bridge'[p].answer = answer
        /\ bridge'[p].todo = bridge[p].todo
        /\ \A q \in Processes \ {p} : bridge'[q] = bridge[q]
      BY <1>2, <2>1, LearnsType DEF TypeOK, PollPhases, Answers
  <2>3. UNCHANGED <<storeVars, sent, calls, psp>>
      BY <1>4 DEF QueryOrder, remoteVars
  <2>4. \A q \in Processes : (Creator(q)' => Creator(q)) /\ (Refunder(q)' => Refunder(q))
      BY <2>2 DEF Creator, Refunder
  <2>5. Effects'
      BY <2>3, <2>4 DEF Effects, storeVars
  <2>6. \A q \in Processes : Heard(q)' /\ bridge'[q].todo \subseteq Queued
      BY <1>1, <2>1, <2>2, <2>3 DEF Truth, Heard
  <2>7. Queued' = Queued
      BY <2>3 DEF Queued, storeVars
  <2>8. QED  BY <2>3, <2>5, <2>6, <2>7 DEF Truth
<1>5. CASE RecordAnswer(p)
  <2>1. \/ Paid /\ psp.session = "paid"
        \/ Cancelled /\ psp.session = "closed"
      BY <1>5 DEF RecordAnswer, Truth, Heard
  <2>2. \A q \in Processes :
            bridge'[q] = bridge[q] \/ (Rests(bridge'[q]) /\ bridge'[q].todo = {})
      BY <1>5, LeavesRests DEF RecordAnswer
  <2>3. QED  BY <1>5, <2>1, <2>2, SettleInv DEF RecordAnswer, remoteVars
<1>6. CASE PollFails(p)
  <2>1. /\ Rests(bridge'[p]) /\ bridge'[p].todo \subseteq Queued
        /\ \A q \in Processes \ {p} : bridge'[q] = bridge[q]
      BY <1>6, LeavesRests DEF PollFails
  <2>2. QED  BY <1>6, <2>1, RestingStep DEF PollFails, remoteVars
<1>7. QED  BY <1>3, <1>4, <1>5, <1>6 DEF PollStep

LEMMA RefundInv ==
    ASSUME Inv, NEW p \in Processes, RefundStep(p)
    PROVE  Effects' /\ Truth'
<1> USE DEF Inv
<1>1. bridge[p].todo \subseteq Queued
    BY DEF Truth
<1>2. RefundPhases \cup {"poll"} \subseteq Phases \ {"sending"}
    BY DEF Phases, RefundPhases, PollPhases
<1>3. CASE AdoptOrder(p)
  <2>1. Claimed /\ UNCHANGED <<outbox, sent, calls, psp, bridge>>
      BY <1>3 DEF AdoptOrder, Claimed, Unclaimed, remoteVars
  <2>2. Effects'
      BY <2>1 DEF Effects, Claimed, Creator, Refunder
  <2>3. Queued' = Queued
      BY <2>1 DEF Queued
  <2>4. Truth'
      BY <2>1, <2>3 DEF Truth, Heard
  <2>5. QED  BY <2>2, <2>4
<1>4. CASE CreateRefund(p)
  <2>1. RefundPhase(refund'.state) \in {"claim_refund", "query_refund", "poll"}
      BY DEF RefundPhase
  <2>2. /\ Rests(bridge'[p]) /\ bridge'[p].todo \subseteq Queued
        /\ \A q \in Processes \ {p} : bridge'[q] = bridge[q]
      BY <1>1, <1>2, <1>4, <2>1, GoesRests DEF CreateRefund, RefundPhases
  <2>3. Claimed /\ UNCHANGED <<outbox, sent, calls, psp>>
    <3>1. refund'.state \in Unclaimed => refund.state \in Unclaimed
        BY <1>4 DEF CreateRefund, Unclaimed
    <3>2. QED  BY <1>4, <3>1 DEF CreateRefund, Claimed, remoteVars
  <2>4. QED  BY <2>2, <2>3, RestingEffects, RestingTruth
<1>5. CASE ClaimRefund(p)
  <2>1. CASE refund.state = "pending"
    <3>1. /\ bridge'[p].pc = "send_refund" /\ bridge'[p].todo = bridge[p].todo
          /\ \A q \in Processes \ {p} : bridge'[q] = bridge[q]
        BY <1>2, <1>5, <2>1, GoesType DEF ClaimRefund, RefundPhases, TypeOK
    <3>2. /\ refund'.state = "dispatching"
          /\ UNCHANGED <<job, outbox, sent, calls, psp>>
        BY <1>5, <2>1 DEF ClaimRefund, remoteVars, TypeOK, Refunds
    <3>3. Effects'
      <4>1. refund.state \in Unclaimed /\ refund'.state \notin Unclaimed
          BY <2>1, <3>2 DEF Unclaimed
      <4>2. \A q \in Processes : ~Refunder(q) /\ calls.refund = 0
          BY <4>1 DEF Effects
      <4>3. \A q \in Processes : (Refunder(q)' => q = p) /\ (Creator(q)' => Creator(q))
          BY <3>1, <4>2 DEF Creator, Refunder
      <4>4. QED  BY <3>2, <4>1, <4>2, <4>3 DEF Effects
    <3>4. Truth'
        BY <1>1, <3>1, <3>2, SilentTruth
    <3>5. QED  BY <3>3, <3>4
  <2>2. CASE refund.state # "pending"
    <3>1. /\ Rests(bridge'[p]) /\ bridge'[p].todo \subseteq Queued
          /\ \A q \in Processes \ {p} : bridge'[q] = bridge[q]
        BY <1>5, <2>2, LeavesRests DEF ClaimRefund
    <3>2. UNCHANGED <<storeVars, sent, calls, psp>>
        BY <1>5, <2>2 DEF ClaimRefund, storeVars, remoteVars
    <3>3. QED  BY <3>1, <3>2, RestingStep
  <2>3. QED  BY <2>1, <2>2
<1>6. CASE SendRefund(p)
  <2>1. /\ bridge'[p].pc = "refunding" /\ bridge'[p].todo = bridge[p].todo
        /\ \A q \in Processes \ {p} : bridge'[q] = bridge[q]
      BY <1>2, <1>6, GoesType DEF SendRefund, RefundPhases, TypeOK
  <2>2. /\ sent' = sent \cup {"refund"}
        /\ calls'.refund = calls.refund + 1 /\ calls'.create = calls.create
        /\ UNCHANGED <<job, refund, outbox, psp>>
      BY <1>6 DEF SendRefund, storeVars, remoteVars, TypeOK
  <2>3. Refunder(p)
      BY <1>6 DEF SendRefund, Refunder
  <2>4. \A q \in Processes : ~Refunder(q)' /\ (Creator(q)' => Creator(q))
      BY <2>1, <2>3 DEF Effects, Creator, Refunder
  <2>5. calls'.refund = 1 /\ refund.state \notin Unclaimed
      BY <2>2, <2>3 DEF Effects
  <2>6. Effects'
      BY <2>2, <2>4, <2>5 DEF Effects
  <2>7. sent' \cap Events = sent \cap Events
      BY <2>2 DEF Events, OrderEvents, RefundEvents
  <2>8. Truth'
      BY <1>1, <2>1, <2>2, <2>7, SilentTruth
  <2>9. QED  BY <2>6, <2>8
<1>7. CASE RefundAnswer(p) \/ QueryRefund(p)
  <2>1. PICK answer \in Answers :
          /\ Learns(p, "finish_refund", answer)
          /\ answer = "success" => psp.refund = "success"
          /\ answer = "failed" => psp.refund = "failed"
      BY <1>7 DEF RefundAnswer, QueryRefund, TypeOK, Payments, Answers
  <2>2. /\ bridge'[p].pc = "finish_refund" /\ bridge'[p].answer = answer
        /\ bridge'[p].todo = bridge[p].todo
        /\ \A q \in Processes \ {p} : bridge'[q] = bridge[q]
      BY <1>2, <2>1, LearnsType DEF TypeOK, RefundPhases
  <2>3. UNCHANGED <<storeVars, sent, calls, psp>>
      BY <1>7 DEF RefundAnswer, QueryRefund, remoteVars
  <2>4. \A q \in Processes : (Creator(q)' => Creator(q)) /\ (Refunder(q)' => Refunder(q))
      BY <2>2 DEF Creator, Refunder
  <2>5. Effects'
      BY <2>3, <2>4 DEF Effects, storeVars
  <2>6. \A q \in Processes : Heard(q)' /\ bridge'[q].todo \subseteq Queued
      BY <1>1, <2>1, <2>2, <2>3 DEF Truth, Heard
  <2>7. Queued' = Queued
      BY <2>3 DEF Queued, storeVars
  <2>8. QED  BY <2>3, <2>5, <2>6, <2>7 DEF Truth
<1>8. CASE FinishRefund(p)
  <2>1. /\ Rests(bridge'[p]) /\ bridge'[p].todo \subseteq Queued
        /\ \A q \in Processes \ {p} : bridge'[q] = bridge[q]
      BY <1>8, LeavesRests DEF FinishRefund
  <2>2. UNCHANGED <<sent, calls, psp>>
      BY <1>8 DEF FinishRefund, remoteVars
  <2>3. CASE MarkRefundPending
    <3>1. Claimed
        BY <2>3 DEF MarkRefundPending, Claimed, Unclaimed
    <3>2. QED  BY <2>1, <2>2, <2>3, <3>1, RestingEffects, RestingTruth DEF MarkRefundPending
  <2>4. ASSUME NEW outcome, NEW event \in RefundEvents, CompleteRefund(outcome, event),
               outcome \notin Unclaimed,
               event = "refund_succeeded" => psp.refund = "success",
               event = "refund_failed" => psp.refund = "failed"
        PROVE  Effects' /\ Truth'
    <3>1. Claimed
        BY <2>4 DEF CompleteRefund, Claimed, Unclaimed
    <3>2. Effects'
        BY <2>1, <2>2, <3>1, RestingEffects
    <3>3. \A q \in Processes : Heard(q)' /\ bridge'[q].todo \subseteq Queued
        BY <2>1, <2>2 DEF Truth, Heard, Rests
    <3>4. event \in Events /\ event \notin {"paid", "cancelled"}
        BY DEF Events, RefundEvents
    <3>5. Truth'
        BY <2>2, <2>4, <3>3, <3>4, QueueingTruth DEF CompleteRefund
    <3>6. QED  BY <3>2, <3>5
  <2>5. CASE bridge[p].answer = "success" /\ CompleteRefund("succeeded", "refund_succeeded")
    <3>1. psp.refund = "success"
        BY <1>8, <2>5 DEF FinishRefund, Truth, Heard
    <3>2. QED  BY <2>4, <2>5, <3>1 DEF Unclaimed, RefundEvents
  <2>6. CASE bridge[p].answer = "failed" /\ CompleteRefund("failed", "refund_failed")
    <3>1. psp.refund = "failed"
        BY <1>8, <2>6 DEF FinishRefund, Truth, Heard
    <3>2. QED  BY <2>4, <2>6, <3>1 DEF Unclaimed, RefundEvents
  <2>7. QED  BY <1>8, <2>3, <2>5, <2>6 DEF FinishRefund
<1>9. CASE RefundFails(p)
  <2>1. /\ Rests(bridge'[p]) /\ bridge'[p].todo \subseteq Queued
        /\ \A q \in Processes \ {p} : bridge'[q] = bridge[q]
      BY <1>9, LeavesRests DEF RefundFails
  <2>2. QED  BY <1>9, <2>1, RestingStep DEF RefundFails, remoteVars
<1>10. QED  BY <1>3, <1>4, <1>5, <1>6, <1>7, <1>8, <1>9 DEF RefundStep

\* The authority changes nothing the invariant speaks of; the provider never takes
\* back a payment, a closure or the outcome of a refund.
LEMMA OthersInv ==
    ASSUME Inv, AuthorityStep \/ ProviderStep
    PROVE  Effects' /\ Truth'
<1> USE DEF Inv
<1>1. UNCHANGED <<storeVars, sent, calls, bridge>>
    BY DEF AuthorityStep, AuthorityClaim, AuthorityRefund, AuthorityEvent, ProviderStep,
           ProviderCreate, CustomerPays, SessionCloses, ProviderRefund
<1>2. Effects'
    BY <1>1 DEF Effects, Creator, Refunder, storeVars
<1>3. /\ \A end \in {"paid", "closed"} : psp.session = end => psp'.session = end
      /\ \A end \in {"success", "failed"} : psp.refund = end => psp'.refund = end
    BY DEF AuthorityStep, AuthorityClaim, AuthorityRefund, AuthorityEvent, ProviderStep,
           ProviderCreate, CustomerPays, SessionCloses, ProviderRefund, TypeOK, Payments
<1>4. \A q \in Processes : Heard(q)'
    BY <1>1, <1>3 DEF Truth, Heard
<1>5. Queued' = Queued
    BY <1>1 DEF Queued, storeVars
<1>6. Truth'
    BY <1>1, <1>3, <1>4, <1>5 DEF Truth
<1>7. QED  BY <1>2, <1>6

LEMMA NextInv == Inv /\ [Next]_vars => Inv'
<1> SUFFICES ASSUME Inv, [Next]_vars PROVE Effects' /\ Truth'
    BY NextTyped DEF Inv
<1>1. CASE Next
  <2>1. ASSUME NEW p \in Processes, TickStep(p) \/ Crash(p)
        PROVE  Effects' /\ Truth'
      BY <2>1, DeliverInv, WorkInv, CheckoutInv, RefundInv, PollInv DEF TickStep
  <2>2. CASE Notify
      BY <2>2, SettleInv DEF Notify, remoteVars
  <2>3. CASE AuthorityStep \/ ProviderStep
      BY <2>3, OthersInv
  <2>4. QED  BY <1>1, <2>1, <2>2, <2>3 DEF Next
<1>2. CASE UNCHANGED vars
    BY <1>2 DEF vars, progress, storeVars, remoteVars, Inv, Effects, Truth, Heard, Creator,
                Refunder, Queued
<1>3. QED  BY <1>1, <1>2

LEMMA InvHolds == Spec => []Inv
<1>1. QED  BY InitInv, NextInv, PTL DEF Spec

\* However many gateway processes work on the order, and whatever is lost, repeated,
\* late or crashes, the provider is asked once at most to create its payment and
\* once at most to refund it.
THEOREM AtMostOneEffect == Spec => []OneExternalEffect
<1>1. Inv => OneExternalEffect
    BY DEF Inv, Effects, OneExternalEffect
<1>2. QED  BY <1>1, InvHolds, PTL

\* The authority is told of a payment only if there is one, and of a cancellation
\* only if there can be none any more.
THEOREM PaymentsAreTrue == Spec => []PaymentOutcomeIsTrue
<1>1. Inv => PaymentOutcomeIsTrue
    BY DEF Inv, Truth, PaymentOutcomeIsTrue, Told, Events, OrderEvents
<1>2. QED  BY <1>1, InvHolds, PTL

\* The authority is told of the end of a refund only what the provider did.
THEOREM RefundsAreTrue == Spec => []RefundOutcomeIsTrue
<1>1. Inv => RefundOutcomeIsTrue
    BY DEF Inv, Truth, RefundOutcomeIsTrue, Told, Events, RefundEvents
<1>2. QED  BY <1>1, InvHolds, PTL

-----------------------------------------------------------------------------
(* The rows agree with the outbox, and what they say in the end stays. With  *)
(* the provider's refund id in every ended refund this is inductive: the     *)
(* guards of the statements look at the row, and the row tells what is queued. *)

Rows ==
    /\ RowsAgree /\ PaidKeepsReference
    /\ refund.state \in {"succeeded", "failed"} => refund.id = "known"

RowsInv == TypeOK /\ Rows

\* What a step may do to an end.
Keeps ==
    /\ job.state \in {"paid", "cancelled"} => job'.state = job.state
    /\ refund.state \in {"succeeded", "failed"} => refund' = refund
    /\ delivered \subseteq delivered'

\* The steps that write a row.
RowStep(p) ==
    \/ CreateOrder(p) \/ ClaimCheckout(p) \/ CompleteCheckout(p) \/ RecordAnswer(p)
    \/ AdoptOrder(p) \/ CreateRefund(p) \/ ClaimRefund(p) \/ FinishRefund(p)

LEMMA OtherSteps ==
    ASSUME Next
    PROVE  /\ UNCHANGED order
           /\ \/ UNCHANGED <<job, refund, outbox>> /\ delivered \subseteq delivered'
              \/ Notify
              \/ \E p \in Processes : RowStep(p)
<1>1. UNCHANGED order
    BY DEF Next
<1>2. ASSUME NEW p \in Processes, TickStep(p) \/ Crash(p)
      PROVE  \/ UNCHANGED <<job, refund, outbox>> /\ delivered \subseteq delivered'
             \/ RowStep(p)
  <2>1. CASE DeliverStep(p) \/ PaymentWork(p) \/ PaymentWorkFails(p) \/ Crash(p)
      BY <2>1 DEF DeliverStep, ReadEvents, SendEvent, EventDelivered, EventFailed, DeliverFails,
                  PaymentWork, PaymentWorkFails, Crash, storeVars
  <2>2. CASE CheckoutStep(p)
      BY <2>2 DEF CheckoutStep, RowStep, ClaimAnswer, CreatePayment, CheckoutFails, storeVars
  <2>3. CASE RefundStep(p)
      BY <2>3 DEF RefundStep, RowStep, SendRefund, RefundAnswer, QueryRefund, RefundFails,
                  storeVars
  <2>4. CASE PollStep(p)
      BY <2>4 DEF PollStep, RowStep, PollSelect, QueryOrder, PollFails, storeVars
  <2>5. QED  BY <1>2, <2>1, <2>2, <2>3, <2>4 DEF TickStep
<1>3. CASE AuthorityStep \/ ProviderStep
  <2>1. UNCHANGED storeVars
      BY <1>3 DEF AuthorityStep, AuthorityClaim, AuthorityRefund, AuthorityEvent, ProviderStep,
                  ProviderCreate, CustomerPays, SessionCloses, ProviderRefund
  <2>2. QED  BY <1>1, <2>1 DEF storeVars
<1>4. QED  BY <1>1, <1>2, <1>3 DEF Next

LEMMA InitRows == Init => RowsInv
<1> SUFFICES ASSUME Init PROVE RowsInv
    OBVIOUS
<1>1. Queued = {}
    BY DEF Init, Queued
<1>2. job.state = "absent" /\ refund.state = "absent"
    BY DEF Init
<1>3. QED  BY <1>1, <1>2, InitTyped DEF RowsInv, Rows, RowsAgree, PaidKeepsReference

\* Steps that leave the outbox alone.
LEMMA QuietRows ==
    ASSUME RowsInv, UNCHANGED <<order, outbox, delivered>>,
           \/ job' = job
           \/ job.state \in {"absent", "pending"} /\ job'.state \in {"pending", "dispatching"}
           \/ order.imported /\ job.state = "absent" /\ job' = [state |-> "paid", ref |-> "payment"],
           \/ refund' = refund
           \/ /\ refund.state \notin {"succeeded", "failed"}
              /\ refund'.state \notin {"succeeded", "failed"}
    PROVE  Rows' /\ Keeps
<1>1. Queued' = Queued
    BY DEF Queued
<1>2. (job'.state \in {"paid", "cancelled", "ready"} /\ ~order.imported) => job' = job
    OBVIOUS
<1>3. job'.state \in {"cancelled", "ready"} => job' = job
    OBVIOUS
<1>4. job.state \in {"paid", "cancelled", "ready"} => job' = job
    OBVIOUS
<1>5. refund.state \in {"succeeded", "failed"} \/ refund'.state \in {"succeeded", "failed"} =>
          refund' = refund
    OBVIOUS
<1>6. RowsAgree'
    BY <1>1, <1>2, <1>3, <1>4, <1>5 DEF RowsInv, Rows, RowsAgree
<1>7. PaidKeepsReference'
    BY DEF RowsInv, Rows, PaidKeepsReference
<1>8. QED  BY <1>4, <1>5, <1>6, <1>7 DEF RowsInv, Rows, Keeps

\* The two transactions that settle a job, and the one that records a checkout.
LEMMA SettleRows ==
    ASSUME RowsInv, UNCHANGED order, Paid \/ Cancelled
    PROVE  Rows' /\ Keeps
<1> USE DEF RowsInv, Rows
<1>1. job \in Jobs /\ outbox \in Seq(Events) /\ IsInjective(outbox)
    BY DEF TypeOK
<1>2. {"paid", "cancelled"} \subseteq Events
    BY DEF Events, OrderEvents
<1>3. UNCHANGED <<refund, delivered>>
    BY DEF Paid, Cancelled
<1>4. CASE Paid
  <2>1. Queued' = Queued \cup {"paid"}
      BY <1>1, <1>2, <1>4, EnqueueType DEF Paid
  <2>2. job.state # "cancelled" /\ job'.state = "paid" /\ job'.ref = "payment"
      BY <1>4 DEF Paid
  <2>3. RowsAgree'
      BY <1>3, <2>1, <2>2 DEF RowsAgree
  <2>4. QED  BY <1>3, <2>2, <2>3 DEF Rows, Keeps, PaidKeepsReference
<1>5. CASE Cancelled
  <2>1. Queued' = Queued \cup {"cancelled"}
      BY <1>1, <1>2, <1>5, EnqueueType DEF Cancelled
  <2>2. job.state # "paid" /\ job'.state = "cancelled"
      BY <1>1, <1>5 DEF Cancelled, Jobs
  <2>3. RowsAgree'
      BY <1>3, <2>1, <2>2 DEF RowsAgree
  <2>4. QED  BY <1>3, <2>2, <2>3 DEF Rows, Keeps, PaidKeepsReference
<1>6. QED  BY <1>4, <1>5

LEMMA CheckoutRows ==
    ASSUME RowsInv, UNCHANGED order, NEW p \in Processes, CompleteCheckout(p)
    PROVE  Rows' /\ Keeps
<1> USE DEF RowsInv, Rows
<1>1. outbox \in Seq(Events) /\ IsInjective(outbox) /\ "checkout" \in Events
    BY DEF TypeOK, Events, OrderEvents
<1>2. Queued' = Queued \cup {"checkout"}
    BY <1>1, EnqueueType DEF CompleteCheckout
<1>3. /\ job.state \in {"dispatching", "ready", "paid"}
      /\ job'.state = IF job.state = "paid" THEN "paid" ELSE "ready"
      /\ job'.ref = IF job.ref = "none" THEN "session" ELSE job.ref
      /\ UNCHANGED <<refund, delivered>>
    BY DEF CompleteCheckout
<1>4. RowsAgree'
    BY <1>2, <1>3 DEF RowsAgree
<1>5. PaidKeepsReference'
    BY <1>3 DEF PaidKeepsReference
<1>6. QED  BY <1>3, <1>4, <1>5 DEF Rows, Keeps

LEMMA RefundRows ==
    ASSUME RowsInv, UNCHANGED order, NEW p \in Processes, FinishRefund(p)
    PROVE  Rows' /\ Keeps
<1> USE DEF RowsInv, Rows
<1>1. outbox \in Seq(Events) /\ IsInjective(outbox) /\ refund \in Refunds
    BY DEF TypeOK
<1>2. CASE MarkRefundPending
  <2>1. \/ refund' = refund
        \/ /\ refund.state \notin {"succeeded", "failed"}
           /\ refund'.state \notin {"succeeded", "failed"}
      BY <1>2 DEF MarkRefundPending
  <2>2. QED  BY <1>2, <2>1, QuietRows DEF MarkRefundPending
<1>3. ASSUME NEW outcome \in {"succeeded", "failed"}, NEW event \in RefundEvents,
             CompleteRefund(outcome, event),
             event = "refund_succeeded" <=> outcome = "succeeded"
      PROVE  Rows' /\ Keeps
  <2>1. Queued' = Queued \cup {event}
      BY <1>1, <1>3, EnqueueType DEF CompleteRefund, Events
  <2>2. /\ Queued \cap RefundEvents \subseteq {event}
        /\ refund' = [state |-> outcome, id |-> "known"]
        /\ UNCHANGED <<job, delivered>>
      BY <1>3 DEF CompleteRefund
  <2>3. /\ event = "refund_succeeded" => outcome = "succeeded" /\ "refund_failed" \notin Queued
        /\ event = "refund_failed" => outcome = "failed" /\ "refund_succeeded" \notin Queued
      BY <1>3, <2>2 DEF RefundEvents
  <2>4. RowsAgree'
      BY <2>1, <2>2, <2>3 DEF RowsAgree, RefundEvents
  <2>5. refund.state \in {"succeeded", "failed"} => refund.state = outcome
      BY <2>3 DEF RowsAgree, RefundEvents
  <2>6. refund.state \in {"succeeded", "failed"} => refund' = refund
      BY <1>1, <2>2, <2>5 DEF Refunds
  <2>7. QED  BY <2>2, <2>4, <2>6 DEF Rows, Keeps, PaidKeepsReference
<1>4. QED  BY <1>2, <1>3 DEF FinishRefund, RefundEvents

LEMMA RowStepRows ==
    ASSUME RowsInv, UNCHANGED order, NEW p \in Processes, RowStep(p)
    PROVE  Rows' /\ Keeps
<1>1. job \in Jobs /\ refund \in Refunds
    BY DEF RowsInv, TypeOK
<1>2. CASE CreateOrder(p) \/ ClaimCheckout(p)
  <2>1. /\ \/ job' = job
           \/ job.state \in {"absent", "pending"} /\ job'.state \in {"pending", "dispatching"}
        /\ UNCHANGED <<refund, outbox, delivered>>
      BY <1>1, <1>2 DEF CreateOrder, ClaimCheckout, Jobs
  <2>2. QED  BY <2>1, QuietRows
<1>3. CASE AdoptOrder(p)
    BY <1>3, QuietRows DEF AdoptOrder
<1>4. CASE CreateRefund(p) \/ ClaimRefund(p)
  <2>1. /\ \/ refund' = refund
           \/ /\ refund.state \in {"absent", "pending"}
              /\ refund'.state \in {"pending", "dispatching"}
        /\ UNCHANGED <<job, outbox, delivered>>
      BY <1>1, <1>4 DEF CreateRefund, ClaimRefund, Refunds
  <2>2. QED  BY <2>1, QuietRows
<1>5. CASE CompleteCheckout(p)
    BY <1>5, CheckoutRows
<1>6. CASE RecordAnswer(p)
    BY <1>6, SettleRows DEF RecordAnswer
<1>7. CASE FinishRefund(p)
    BY <1>7, RefundRows
<1>8. QED  BY <1>2, <1>3, <1>4, <1>5, <1>6, <1>7 DEF RowStep

LEMMA NextRows == RowsInv /\ [Next]_vars => RowsInv' /\ Keeps
<1> SUFFICES ASSUME RowsInv, [Next]_vars PROVE Rows' /\ Keeps
    BY NextTyped DEF RowsInv, Rows
<1>1. ASSUME UNCHANGED <<order, job, refund, outbox>>, delivered \subseteq delivered'
      PROVE  Rows' /\ Keeps
  <2>1. Queued' = Queued
      BY <1>1 DEF Queued
  <2>2. QED  BY <1>1, <2>1 DEF RowsInv, Rows, RowsAgree, PaidKeepsReference, Keeps
<1>2. CASE Next
  <2>1. CASE Notify
      BY <1>2, <2>1, OtherSteps, SettleRows DEF Notify
  <2>2. ASSUME NEW p \in Processes, RowStep(p) PROVE Rows' /\ Keeps
      BY <1>2, <2>2, OtherSteps, RowStepRows
  <2>3. QED  BY <1>1, <1>2, <2>1, <2>2, OtherSteps
<1>3. CASE UNCHANGED vars
    BY <1>1, <1>3 DEF vars, progress, storeVars
<1>4. QED  BY <1>2, <1>3

LEMMA RowsHold == Spec => []RowsInv
<1>1. QED  BY InitRows, NextRows, PTL DEF Spec

\* A row says that the order or the refund has ended exactly when the event that
\* tells the authority so is queued; no order is told two ends.
THEOREM RowsAgreeAlways == Spec => []RowsAgree
<1>1. RowsInv => RowsAgree
    BY DEF RowsInv, Rows
<1>2. QED  BY <1>1, RowsHold, PTL

\* Whichever of the callback and the answer to Create comes first, a paid order
\* has the reference of its payment.
THEOREM ReferenceIsKept == Spec => []PaidKeepsReference
<1>1. RowsInv => PaidKeepsReference
    BY DEF RowsInv, Rows
<1>2. QED  BY <1>1, RowsHold, PTL

\* No stale answer, and no process that lags behind, changes an end once recorded.
THEOREM EndsAreFinal == Spec => SettledIsFinal
<1>1. RowsInv /\ [Next]_vars => [Keeps]_vars
    BY NextRows
<1>2. Keeps => (/\ job.state \in {"paid", "cancelled"} => job'.state = job.state
                /\ refund.state \in {"succeeded", "failed"} => refund' = refund
                /\ delivered \subseteq delivered')
    BY DEF Keeps
<1>3. QED  BY <1>1, <1>2, RowsHold, PTL DEF Spec, SettledIsFinal

-----------------------------------------------------------------------------
(***************************************************************************)
(* The move of an account to the authority, which the run checks beside    *)
(* the bridge, for any sets of writers, operators and batches. One         *)
(* inductive invariant carries every property of the move: who is in the   *)
(* middle of a write, what was exported, and what a waiting command knows. *)
(***************************************************************************)

\* The snapshot a command was given or has read.
Carries(c) ==
    \/ c.pc \in {"read", "written"}
    \/ c.pc = "waiting" /\ c.name \in {"record", "activate"}

\* What the types leave open: the epoch counts the transfer, and a batch is known
\* from the drain on.
Shapes ==
    /\ route.epoch = IF route.mode = "central" THEN 1 ELSE 0
    /\ route.mode \notin A!Open => route.batch \in Batches
    /\ \A o \in Operators :
        /\ Carries(command[o]) => command[o].file \in A!Snapshots
        /\ command[o].pc = "waiting" /\ command[o].name = "drain" => command[o].batch \in Batches

MoveTypes == A!TypeOK /\ Shapes

\* A writer inside its transaction holds the users row of an account that is not
\* fenced.
WritersHoldTheRow ==
    \A w \in Writers : writer[w].pc = "locked" => holder = w /\ route.mode \notin A!Fenced

\* A charge that is under way was admitted before the drain, and a Freeze that
\* may still succeed was begun after the last of them ended.
InFlight(w) == writer[w].kind = "charge" /\ writer[w].pc \in {"admitted", "locked"}

MayFreeze(o) ==
    command[o].pc = "waiting" /\ command[o].name = "freeze" /\ route.mode = "draining"

NoChargeMeetsTheFence ==
    \A w \in Writers : InFlight(w) =>
        route.mode \notin A!Fenced /\ \A o \in Operators : ~MayFreeze(o)

\* A snapshot shows the funds of the fenced account, and still does.
Taken(file) ==
    /\ route.mode \in A!Fenced /\ file.batch = route.batch
    /\ file.money.balance = money.balance /\ file.money.order = money.order

SnapshotsAreTrue ==
    /\ \A file \in files : Taken(file)
    /\ \A o \in Operators : Carries(command[o]) => Taken(command[o].file)
    /\ recorded # Nothing => Taken(recorded)

\* What a command knows of the audit is what the audit says, or nothing yet.
AuditIsWrittenOnce == \A o \in Operators : command[o].recorded \in {Nothing, recorded}

MoveInv ==
    /\ MoveTypes /\ WritersHoldTheRow /\ NoChargeMeetsTheFence
    /\ SnapshotsAreTrue /\ AuditIsWrittenOnce
    /\ A!OpeningIsLocal /\ A!AdmittedWorkIsCharged /\ A!OpenOrderWasRaced

-----------------------------------------------------------------------------
(* The helpers. *)

LEMMA MoveIdle ==
    /\ A!IdleCommand \in A!Commands /\ ~Carries(A!IdleCommand) /\ A!IdleCommand.pc = "idle"
    /\ A!IdleCommand.recorded = Nothing /\ A!IdleWriter \in A!WriterRecords
    BY DEF A!IdleCommand, A!Commands, A!CommandNames, Carries, A!IdleWriter, A!WriterRecords, A!Kinds

\* A command becomes c, and the others go on or have failed.
Replaced(o, c) ==
    /\ command' \in [Operators -> A!Commands] /\ command'[o] = c
    /\ \A q \in Operators \ {o} : command'[q] \in {command[q], A!IdleCommand}

LEMMA TouchType ==
    ASSUME command \in [Operators -> A!Commands]
    PROVE  /\ A!Touch(command) \in [Operators -> A!Commands]
           /\ \A o \in Operators : /\ A!Touch(command)[o] \in {command[o], A!IdleCommand}
                                    /\ A!Touch(command)[o].pc # "waiting"
    BY MoveIdle DEF A!Touch

LEMMA ReplaceType ==
    ASSUME command \in [Operators -> A!Commands], NEW o \in Operators, NEW c \in A!Commands,
           \/ command' = [command EXCEPT ![o] = c]
           \/ command' = [A!Touch(command) EXCEPT ![o] = c]
    PROVE  Replaced(o, c)
    BY TouchType DEF Replaced

LEMMA WaitingType ==
    ASSUME A!TypeOK, NEW o \in Operators, NEW name \in A!CommandNames,
           NEW batch \in Batches \cup {Nothing}, NEW file \in A!Snapshots \cup {Nothing},
           A!Waiting(o, name, batch, file)
    PROVE  \E c \in A!Commands :
            /\ Replaced(o, c)
            /\ \A q \in Operators \ {o} : command'[q] = command[q]
            /\ c.pc = "waiting" /\ c.name = name /\ c.batch = batch /\ c.file = file
            /\ c.recorded = recorded
<1> DEFINE c == [pc |-> "waiting", name |-> name, batch |-> batch, file |-> file,
                 clear |-> money.order \in A!Settled, recorded |-> recorded]
<1>1. c \in A!Commands
    BY DEF A!TypeOK, A!Commands
<1>2. command' = [command EXCEPT ![o] = c]
    BY DEF A!Waiting
<1>3. command \in [Operators -> A!Commands]
    BY DEF A!TypeOK
<1>4. Replaced(o, c)
    BY <1>1, <1>2, <1>3, ReplaceType
<1>5. QED  BY <1>1, <1>2, <1>3, <1>4

-----------------------------------------------------------------------------
(* Types. *)

LEMMA MoveInitTyped == A!AuthorityAssumption /\ A!Init => MoveTypes
<1> SUFFICES ASSUME A!AuthorityAssumption, A!Init PROVE MoveTypes
    OBVIOUS
<1>1. A!TypeOK
    BY MoveIdle DEF A!Init, A!TypeOK, A!AuthorityAssumption, A!Routes, A!Modes, A!Moneys, A!Settled
<1>2. Shapes
    BY MoveIdle DEF A!Init, Shapes, A!Open, A!IdleCommand
<1>3. QED  BY <1>1, <1>2 DEF MoveTypes

\* Whatever becomes of the commands, those that are not replaced keep their shape.
LEMMA ShapesKept ==
    ASSUME MoveTypes, UNCHANGED <<route, money>>, NEW o \in Operators, NEW c \in A!Commands,
           Replaced(o, c), Carries(c) => c.file \in A!Snapshots,
           c.pc = "waiting" /\ c.name = "drain" => c.batch \in Batches
    PROVE  Shapes' /\ command' \in [Operators -> A!Commands]
<1>1. ASSUME NEW q \in Operators
      PROVE  /\ Carries(command'[q]) => command'[q].file \in A!Snapshots
             /\ command'[q].pc = "waiting" /\ command'[q].name = "drain"
                    => command'[q].batch \in Batches
    BY MoveIdle DEF MoveTypes, Shapes, Replaced
<1>2. QED  BY <1>1 DEF MoveTypes, Shapes, Replaced

LEMMA MoneyType ==
    ASSUME money \in A!Moneys, NEW kind \in A!Kinds
    PROVE  A!Written(kind) \in A!Moneys
<1>1. kind # "charge" => A!To[kind] \in A!Settled \cup A!Pending
    BY DEF A!Kinds, A!To, A!Settled, A!Pending
<1>2. ASSUME NEW balance \in Int, NEW status \in A!Settled \cup A!Pending
      PROVE  [money EXCEPT !.balance = balance, !.order = status] \in A!Moneys
    BY DEF A!Moneys
<1>3. money.balance \in Int /\ money.order \in A!Settled \cup A!Pending
    BY DEF A!Moneys
<1>4. (CASE kind \in {"charge", "deduct"} -> money.balance - 1
         [] kind = "credit"   -> money.balance + 1
         [] OTHER             -> money.balance) \in Int
    BY <1>3
<1>5. (IF kind = "charge" THEN money.order ELSE A!To[kind]) \in A!Settled \cup A!Pending
    BY <1>1, <1>3
<1>6. QED  BY <1>2, <1>4, <1>5 DEF A!Written

LEMMA WriterTyped ==
    ASSUME MoveTypes, NEW w \in Writers, A!WriterStep(w)
    PROVE  MoveTypes'
<1>0. /\ writer \in [Writers -> A!WriterRecords] /\ command \in [Operators -> A!Commands]
      /\ money \in A!Moneys /\ A!TypeOK /\ Shapes
    BY DEF MoveTypes, A!TypeOK
<1>1. CASE A!Admit(w)
  <2>1. PICK kind \in A!Kinds : writer' = [writer EXCEPT ![w] = [pc |-> "admitted", kind |-> kind]]
      BY <1>1 DEF A!Admit
  <2>2. [pc |-> "admitted", kind |-> kind] \in A!WriterRecords
      BY DEF A!WriterRecords
  <2>3. QED  BY <1>0, <1>1, <2>1, <2>2 DEF A!Admit, MoveTypes, A!TypeOK, Shapes
<1>2. CASE A!AssertLegacyWrite(w)
  <2>1. [writer[w] EXCEPT !.pc = "locked"] \in A!WriterRecords
      BY <1>0 DEF A!WriterRecords
  <2>2. QED  BY <1>0, <1>2, <2>1 DEF A!AssertLegacyWrite, MoveTypes, A!TypeOK, Shapes
<1>3. CASE A!LegacyWriteFenced(w)
  <2>1. [writer[w] EXCEPT !.pc = "refused"] \in A!WriterRecords
      BY <1>0 DEF A!WriterRecords
  <2>2. QED  BY <1>0, <1>3, <2>1, MoveIdle DEF A!LegacyWriteFenced, MoveTypes, A!TypeOK, Shapes
<1>4. CASE A!Commit(w)
  <2>1. writer[w].kind \in A!Kinds
      BY <1>0 DEF A!WriterRecords
  <2>2. money' \in A!Moneys
      BY <1>0, <1>4, <2>1, MoneyType DEF A!Commit
  <2>3. writer' \in [Writers -> A!WriterRecords]
    <3>1. ASSUME writer[w].kind \in DOMAIN A!GoesOn
          PROVE  [pc |-> "admitted", kind |-> A!GoesOn[writer[w].kind]] \in A!WriterRecords
        BY <3>1 DEF A!GoesOn, A!WriterRecords, A!Kinds
    <3>2. QED  BY <1>0, <1>4, <3>1, MoveIdle DEF A!Commit
  <2>4. command' = command \/ command' = A!Touch(command)
      BY <1>4 DEF A!Commit
  <2>5. /\ command' \in [Operators -> A!Commands]
        /\ \A o \in Operators : command'[o] \in {command[o], A!IdleCommand}
      BY <1>0, <2>4, TouchType
  <2>6. Shapes'
      BY <1>0, <1>4, <2>5, MoveIdle DEF A!Commit, Shapes
  <2>7. QED  BY <1>0, <1>4, <2>2, <2>3, <2>5, <2>6 DEF A!Commit, MoveTypes, A!TypeOK
<1>5. QED  BY <1>1, <1>2, <1>3, <1>4 DEF A!WriterStep

LEMMA CommandTyped ==
    ASSUME MoveTypes, UNCHANGED <<route, money, holder, writer, raced>>,
           files' \subseteq A!Snapshots, recorded' \in A!Snapshots \cup {Nothing},
           NEW o \in Operators, NEW c \in A!Commands, Replaced(o, c),
           Carries(c) => c.file \in A!Snapshots,
           c.pc = "waiting" /\ c.name = "drain" => c.batch \in Batches
    PROVE  MoveTypes'
<1>1. Shapes' /\ command' \in [Operators -> A!Commands]
    BY ShapesKept
<1>2. QED  BY <1>1 DEF MoveTypes, A!TypeOK

\* A route step keeps the types when the new route has a batch.
LEMMA RouteTyped ==
    ASSUME MoveTypes, NEW o \in Operators, NEW new,
           new \in [mode : A!Modes, epoch : Int, batch : Batches \cup {Nothing},
                    opening : A!Snapshots \cup {Nothing}],
           new.mode \notin A!Open => new.batch \in Batches, A!SetRoute(o, new),
           UNCHANGED <<money, holder, writer, files, recorded>>, raced' \in BOOLEAN
    PROVE  MoveTypes' /\ Replaced(o, A!IdleCommand)
<1>1. new \in A!Routes /\ new.epoch = IF new.mode = "central" THEN 1 ELSE 0
  <2>1. route \in A!Routes /\ route.epoch = IF route.mode = "central" THEN 1 ELSE 0
      BY DEF MoveTypes, A!TypeOK, Shapes
  <2>2. new.epoch = IF new.mode = "central" THEN 1 ELSE 0
      BY <2>1 DEF A!SetRoute, A!Open, A!Routes
  <2>3. QED  BY <2>2 DEF A!Routes
<1>2. route' = new /\ Replaced(o, A!IdleCommand)
    BY MoveIdle, ReplaceType DEF A!SetRoute, MoveTypes, A!TypeOK
<1>3. Shapes'
  <2>1. new.mode \notin A!Open => new.batch \in Batches
      OBVIOUS
  <2>2. ASSUME NEW q \in Operators
        PROVE  /\ Carries(command'[q]) => command'[q].file \in A!Snapshots
               /\ command'[q].pc = "waiting" /\ command'[q].name = "drain"
                    => command'[q].batch \in Batches
      BY <1>2, MoveIdle DEF Replaced, MoveTypes, Shapes
  <2>3. QED  BY <1>1, <1>2, <2>1, <2>2 DEF Shapes
<1>4. QED  BY <1>1, <1>2, <1>3 DEF MoveTypes, A!TypeOK, Replaced

LEMMA OperatorTyped ==
    ASSUME MoveTypes, NEW o \in Operators, A!OperatorStep(o)
    PROVE  MoveTypes'
<1>0. /\ A!TypeOK /\ Shapes /\ command \in [Operators -> A!Commands] /\ command[o] \in A!Commands
      /\ route \in A!Routes /\ money \in A!Moneys
      /\ files \subseteq A!Snapshots /\ recorded \in A!Snapshots \cup {Nothing}
    BY DEF MoveTypes, A!TypeOK
<1>1. CASE A!BeginCommand(o)
  <2>1. PICK name \in {"map", "shadow", "drain", "freeze", "activate"},
             batch \in Batches \cup {Nothing}, file \in files \cup {Nothing} :
                /\ A!Waiting(o, name, batch, file)
                /\ name = "drain" => batch \in Batches
                /\ name = "activate" => file \in files
      BY <1>0, <1>1 DEF A!BeginCommand, A!Snapshots
  <2>2. PICK c \in A!Commands : /\ Replaced(o, c)
                             /\ c.pc = "waiting" /\ c.name = name
                             /\ c.batch = batch /\ c.file = file
      BY <1>0, <2>1, WaitingType DEF A!CommandNames
  <2>3. Carries(c) => c.file \in A!Snapshots
      BY <1>0, <2>1, <2>2 DEF Carries
  <2>4. QED  BY <1>0, <1>1, <2>1, <2>2, <2>3, CommandTyped DEF A!BeginCommand
<1>2. CASE A!BeginRecord(o)
  <2>1. command[o].file \in A!Snapshots /\ command[o].file.batch \in Batches
    <3>1. Carries(command[o])
      <4>1. command[o].pc = "written"
          BY <1>2 DEF A!BeginRecord
      <4>2. QED  BY <4>1 DEF Carries
    <3>2. command[o].file \in A!Snapshots
        BY <1>0, <3>1 DEF Shapes
    <3>3. QED  BY <3>2 DEF A!Snapshots
  <2>2. PICK c \in A!Commands : /\ Replaced(o, c)
                             /\ c.name = "record" /\ c.file = command[o].file
      BY <1>0, <1>2, <2>1, WaitingType DEF A!BeginRecord, A!CommandNames
  <2>3. QED  BY <1>0, <1>2, <2>1, <2>2, CommandTyped DEF A!BeginRecord
<1>3. CASE A!Export(o)
  <2> DEFINE file == [batch |-> route.batch, money |-> money]
             c == [A!IdleCommand EXCEPT !.pc = "read", !.name = "export", !.file = file]
  <2>1. file \in A!Snapshots
      BY <1>0, <1>3 DEF A!Export, Shapes, A!Open, A!Snapshots
  <2>2. c \in A!Commands /\ c.file = file /\ c.pc = "read"
      BY <2>1 DEF A!IdleCommand, A!Commands, A!CommandNames
  <2>3. Replaced(o, c)
      BY <1>0, <1>3, <2>2, ReplaceType DEF A!Export
  <2>4. QED  BY <1>0, <1>3, <2>1, <2>2, <2>3, CommandTyped DEF A!Export
<1>4. CASE A!WriteFile(o)
  <2>1. command[o].file \in A!Snapshots
    <3>1. Carries(command[o])
      <4>1. command[o].pc = "read"
          BY <1>4 DEF A!WriteFile
      <4>2. QED  BY <4>1 DEF Carries
    <3>2. QED  BY <1>0, <3>1 DEF Shapes
  <2>2. /\ [command[o] EXCEPT !.pc = "written"] \in A!Commands
        /\ [command[o] EXCEPT !.pc = "written"].file = command[o].file
        /\ [command[o] EXCEPT !.pc = "written"].pc = "written"
      BY <1>0 DEF A!Commands
  <2>3. Replaced(o, [command[o] EXCEPT !.pc = "written"])
      BY <1>0, <1>4, <2>2, ReplaceType DEF A!WriteFile
  <2>4. QED  BY <1>0, <1>4, <2>1, <2>2, <2>3, CommandTyped DEF A!WriteFile
<1>5. CASE A!RecordExport(o) \/ A!GiveUp(o)
  <2>1. Replaced(o, A!IdleCommand)
      BY <1>0, <1>5, MoveIdle, ReplaceType DEF A!RecordExport, A!GiveUp
  <2>2. recorded' \in A!Snapshots \cup {Nothing}
      BY <1>0, <1>5 DEF A!RecordExport, A!GiveUp, A!Commands
  <2>3. QED
      BY <1>0, <1>5, <2>1, <2>2, MoveIdle, CommandTyped
      DEF A!RecordExport, A!GiveUp, A!IdleCommand
<1>6. CASE A!Map(o)
  <2>1. CASE A!SetRoute(o, [route EXCEPT !.mode = "local"])
      BY <1>0, <1>6, <2>1, RouteTyped DEF A!Map, A!Routes, A!Modes, A!Open, A!TypeOK
  <2>2. CASE command' = [A!Touch(command) EXCEPT ![o] = A!IdleCommand] /\ UNCHANGED route
    <3>1. Replaced(o, A!IdleCommand)
        BY <1>0, <2>2, MoveIdle, ReplaceType
    <3>2. QED
        BY <1>0, <1>6, <2>2, <3>1, MoveIdle, CommandTyped DEF A!Map, A!IdleCommand
  <2>3. QED  BY <1>6, <2>1, <2>2 DEF A!Map
<1>7. CASE A!Shadow(o)
    BY <1>0, <1>7, RouteTyped DEF A!Shadow, A!Routes, A!Modes, A!Open, A!TypeOK
<1>8. CASE A!Drain(o)
  <2>1. command[o].batch \in Batches
      BY <1>0, <1>8 DEF A!Drain, A!HasLock, Shapes
  <2> DEFINE new == [route EXCEPT !.mode = "draining", !.batch = command[o].batch]
  <2>2. /\ new \in [mode : A!Modes, epoch : Int, batch : Batches \cup {Nothing},
                    opening : A!Snapshots \cup {Nothing}]
        /\ new.batch \in Batches
    <3>1. new.mode \in A!Modes /\ new.epoch \in Int
        BY <1>0 DEF A!Routes, A!Modes
    <3>2. QED  BY <1>0, <2>1, <3>1 DEF A!Routes
  <2>3. A!SetRoute(o, new) /\ UNCHANGED <<money, holder, writer, files, recorded, raced>>
      BY <1>8 DEF A!Drain
  <2>4. QED  BY <1>0, <2>2, <2>3, RouteTyped DEF A!TypeOK
<1>9. CASE A!Freeze(o)
  <2>1. route.batch \in Batches
      BY <1>0, <1>9 DEF A!Freeze, Shapes, A!Open
  <2>2. QED  BY <1>0, <1>9, <2>1, RouteTyped DEF A!Freeze, A!Routes, A!Modes
<1>10. CASE A!Activate(o)
  <2>1. route.batch \in Batches /\ command[o].file \in A!Snapshots
      BY <1>0, <1>10 DEF A!Activate, A!HasLock, Shapes, Carries, A!Open
  <2> DEFINE new == [route EXCEPT !.mode = "central", !.epoch = @ + 1,
                                  !.opening = command[o].file]
  <2>2. /\ new \in [mode : A!Modes, epoch : Int, batch : Batches \cup {Nothing},
                    opening : A!Snapshots \cup {Nothing}]
        /\ new.batch \in Batches
    <3>1. new.mode \in A!Modes /\ new.epoch \in Int
        BY <1>0 DEF A!Routes, A!Modes
    <3>2. QED  BY <1>0, <2>1, <3>1 DEF A!Routes
  <2>3. A!SetRoute(o, new) /\ UNCHANGED <<money, holder, writer, files, recorded, raced>>
      BY <1>10 DEF A!Activate
  <2>4. QED  BY <1>0, <2>2, <2>3, RouteTyped DEF A!TypeOK
<1>11. QED
    BY <1>1, <1>2, <1>3, <1>4, <1>5, <1>6, <1>7, <1>8, <1>9, <1>10 DEF A!OperatorStep

LEMMA MoveNextTyped == MoveTypes /\ [A!Next]_(A!vars) => MoveTypes'
<1> SUFFICES ASSUME MoveTypes, [A!Next]_(A!vars) PROVE MoveTypes'
    OBVIOUS
<1>1. CASE A!DisableKey
  <2>1. money' \in A!Moneys
      BY <1>1 DEF A!DisableKey, MoveTypes, A!TypeOK, A!Moneys
  <2>2. QED  BY <1>1, <2>1 DEF A!DisableKey, MoveTypes, A!TypeOK, Shapes
<1>2. CASE UNCHANGED A!vars
    BY <1>2 DEF A!vars, MoveTypes, A!TypeOK, Shapes
<1>3. QED  BY <1>1, <1>2, WriterTyped, OperatorTyped DEF A!Next

-----------------------------------------------------------------------------
(* Safety. *)

LEMMA MoveInitInv == A!AuthorityAssumption /\ A!Init => MoveInv
<1> SUFFICES ASSUME A!AuthorityAssumption, A!Init PROVE MoveInv
    OBVIOUS
<1>1. \A w \in Writers : writer[w].pc = "idle"
    BY DEF A!Init, A!IdleWriter
<1>2. \A o \in Operators : command[o] = A!IdleCommand
    BY DEF A!Init
<1>3. WritersHoldTheRow /\ NoChargeMeetsTheFence /\ A!AdmittedWorkIsCharged
    BY <1>1 DEF WritersHoldTheRow, NoChargeMeetsTheFence, InFlight, A!AdmittedWorkIsCharged
<1>4. SnapshotsAreTrue /\ AuditIsWrittenOnce
    BY <1>2, MoveIdle DEF A!Init, SnapshotsAreTrue, AuditIsWrittenOnce
<1>5. A!OpeningIsLocal /\ A!OpenOrderWasRaced
    BY DEF A!Init, A!OpeningIsLocal, A!OpenOrderWasRaced, A!Fenced
<1>6. QED  BY <1>3, <1>4, <1>5, MoveInitTyped DEF MoveInv

\* Steps that leave the route and what is known of it alone, as long as the funds of
\* a fenced account stand.
LEMMA QuietStep ==
    ASSUME MoveInv, UNCHANGED <<route, files, recorded, raced>>,
           route.mode \in A!Fenced => money'.balance = money.balance /\ money'.order = money.order,
           \A o \in Operators : command'[o] \in {command[o], A!IdleCommand}
    PROVE  /\ SnapshotsAreTrue' /\ AuditIsWrittenOnce'
           /\ A!OpeningIsLocal' /\ A!OpenOrderWasRaced'
           /\ \A o \in Operators : MayFreeze(o)' => MayFreeze(o)
<1>1. \A file : Taken(file) => Taken(file)'
    BY DEF Taken
<1>2. SnapshotsAreTrue'
    BY <1>1, MoveIdle DEF MoveInv, SnapshotsAreTrue
<1>3. AuditIsWrittenOnce'
    BY MoveIdle DEF MoveInv, AuditIsWrittenOnce
<1>4. A!OpeningIsLocal' /\ A!OpenOrderWasRaced'
    BY DEF MoveInv, A!OpeningIsLocal, A!OpenOrderWasRaced, A!Funds, A!Fenced
<1>5. \A o \in Operators : MayFreeze(o)' => MayFreeze(o)
    BY MoveIdle DEF MayFreeze
<1>6. QED  BY <1>2, <1>3, <1>4, <1>5

\* A writer changes the funds only inside its transaction, and the account is not
\* fenced there.
LEMMA FundsStand ==
    ASSUME MoveInv, NEW w \in Writers, A!WriterStep(w), route.mode \in A!Fenced
    PROVE  money' = money
    BY DEF MoveInv, A!WriterStep, A!Admit, A!AssertLegacyWrite, A!LegacyWriteFenced, A!Commit,
           WritersHoldTheRow

LEMMA WriterInv ==
    ASSUME A!AuthorityAssumption, MoveInv, NEW w \in Writers, A!WriterStep(w)
    PROVE  MoveInv'
<1>0. /\ writer \in [Writers -> A!WriterRecords] /\ command \in [Operators -> A!Commands]
      /\ MoveTypes /\ MoveTypes' /\ Nothing \notin Writers
      /\ \A v \in Writers \ {w} : writer'[v] = writer[v]
    BY WriterTyped
    DEF MoveInv, MoveTypes, A!TypeOK, A!AuthorityAssumption, A!WriterStep, A!Admit, A!AssertLegacyWrite,
        A!LegacyWriteFenced, A!Commit
<1>1. \A o \in Operators : command'[o] \in {command[o], A!IdleCommand}
    BY <1>0, TouchType DEF A!WriterStep, A!Admit, A!AssertLegacyWrite, A!LegacyWriteFenced, A!Commit
<1>2. UNCHANGED <<route, files, recorded, raced>>
    BY DEF A!WriterStep, A!Admit, A!AssertLegacyWrite, A!LegacyWriteFenced, A!Commit
<1>3. /\ SnapshotsAreTrue' /\ AuditIsWrittenOnce' /\ A!OpeningIsLocal' /\ A!OpenOrderWasRaced'
      /\ \A o \in Operators : MayFreeze(o)' => MayFreeze(o)
    BY <1>1, <1>2, FundsStand, QuietStep
<1>4. WritersHoldTheRow'
  <2>1. CASE A!AssertLegacyWrite(w)
      BY <1>0, <2>1 DEF A!AssertLegacyWrite, WritersHoldTheRow, MoveInv
  <2>2. CASE A!Commit(w)
      BY <1>0, <2>2 DEF A!Commit, WritersHoldTheRow, MoveInv, A!IdleWriter
  <2>3. CASE A!Admit(w) \/ A!LegacyWriteFenced(w)
      BY <1>0, <2>3 DEF A!Admit, A!LegacyWriteFenced, WritersHoldTheRow, MoveInv, A!IdleWriter, A!WriterRecords
  <2>4. QED  BY <2>1, <2>2, <2>3 DEF A!WriterStep
<1>5. NoChargeMeetsTheFence' /\ A!AdmittedWorkIsCharged'
  <2>1. ASSUME writer'[w].kind = "charge", writer'[w].pc \in {"admitted", "locked"}, ~InFlight(w)
        PROVE  route.mode \in A!Open
      BY <1>0, <2>1
      DEF A!WriterStep, A!Admit, A!Admits, A!AssertLegacyWrite, A!LegacyWriteFenced, A!Commit,
          A!IdleWriter, InFlight, A!GoesOn, A!WriterRecords
  <2>2. ASSUME writer'[w].pc = "refused"
        PROVE  FALSE
    <3>1. A!LegacyWriteFenced(w) /\ writer[w].kind = "charge" /\ route.mode \in A!Fenced
        BY <1>0, <2>2
        DEF A!WriterStep, A!Admit, A!AssertLegacyWrite, A!LegacyWriteFenced, A!Commit, A!IdleWriter,
            A!InStatus, A!WriterRecords
    <3>2. QED
        BY <3>1 DEF A!LegacyWriteFenced, MoveInv, NoChargeMeetsTheFence, InFlight
  <2>3. NoChargeMeetsTheFence'
      BY <1>0, <1>2, <1>3, <2>1
      DEF MoveInv, NoChargeMeetsTheFence, InFlight, MayFreeze, A!Open, A!Fenced
  <2>4. QED  BY <1>0, <2>2, <2>3 DEF MoveInv, A!AdmittedWorkIsCharged
<1>6. QED  BY <1>0, <1>3, <1>4, <1>5 DEF MoveInv

\* Steps of a command that leave the route as it is.
LEMMA CommandInv ==
    ASSUME A!AuthorityAssumption, MoveInv, MoveTypes', UNCHANGED <<route, money, holder, writer, raced>>,
           NEW o \in Operators, NEW c \in A!Commands, Replaced(o, c),
           Carries(c) => Taken(c.file), \A file \in files' : Taken(file),
           recorded' # Nothing => Taken(recorded'), recorded \in {Nothing, recorded'},
           route.mode = "central" => recorded' = recorded,
           c.recorded \in {Nothing, recorded'},
           c.pc = "waiting" /\ c.name = "freeze" => \A w \in Writers : ~InFlight(w)
    PROVE  MoveInv'
<1>1. SnapshotsAreTrue'
  <2>1. \A file : Taken(file)' <=> Taken(file)
      BY DEF Taken
  <2>2. \A q \in Operators : Carries(command'[q]) => Taken(command'[q].file)
      BY MoveIdle DEF MoveInv, SnapshotsAreTrue, Replaced
  <2>3. QED  BY <2>1, <2>2 DEF SnapshotsAreTrue
<1>2. AuditIsWrittenOnce'
    BY MoveIdle DEF MoveInv, AuditIsWrittenOnce, Replaced
<1>3. NoChargeMeetsTheFence'
  <2>1. ASSUME NEW w \in Writers, InFlight(w), NEW q \in Operators
        PROVE  ~MayFreeze(q)'
      BY <2>1, MoveIdle DEF MoveInv, NoChargeMeetsTheFence, MayFreeze, Replaced
  <2>2. QED  BY <2>1 DEF MoveInv, NoChargeMeetsTheFence, InFlight
<1>4. /\ WritersHoldTheRow' /\ A!OpeningIsLocal' /\ A!AdmittedWorkIsCharged' /\ A!OpenOrderWasRaced'
    BY DEF MoveInv, WritersHoldTheRow, A!OpeningIsLocal, A!Funds, A!AdmittedWorkIsCharged, A!OpenOrderWasRaced
<1>5. QED  BY <1>1, <1>2, <1>3, <1>4 DEF MoveInv

\* The transaction that moves the route, but for what it says of the new owner.
LEMMA RouteInv ==
    ASSUME A!AuthorityAssumption, MoveInv, MoveTypes', NEW o \in Operators, NEW name, A!HasLock(o, name),
           NEW new, A!SetRoute(o, new), UNCHANGED <<money, holder, writer, files, recorded>>,
           new.mode \in A!Fenced => \A w \in Writers : ~InFlight(w),
           new.mode = "central" => new.batch = route.batch
    PROVE  /\ WritersHoldTheRow' /\ NoChargeMeetsTheFence' /\ SnapshotsAreTrue'
           /\ AuditIsWrittenOnce' /\ A!AdmittedWorkIsCharged' /\ route' = new
<1>0. /\ command \in [Operators -> A!Commands] /\ route' = new /\ Nothing \notin Writers
      /\ A!IdleCommand.pc # "waiting" /\ ~Carries(A!IdleCommand) /\ A!IdleCommand.recorded = Nothing
    BY MoveIdle DEF MoveInv, MoveTypes, A!TypeOK, A!SetRoute, A!AuthorityAssumption
<1>1. /\ \A q \in Operators : command'[q] \in {command[q], A!IdleCommand}
      /\ \A q \in Operators : command'[q].pc # "waiting"
    BY <1>0, TouchType DEF A!SetRoute
<1>2. WritersHoldTheRow' /\ A!AdmittedWorkIsCharged'
    BY <1>0 DEF MoveInv, WritersHoldTheRow, A!HasLock, A!AdmittedWorkIsCharged
<1>3. NoChargeMeetsTheFence'
    BY <1>0, <1>1 DEF NoChargeMeetsTheFence, MayFreeze, InFlight
<1>4. AuditIsWrittenOnce'
    BY <1>0, <1>1 DEF MoveInv, AuditIsWrittenOnce
<1>5. SnapshotsAreTrue'
  <2>1. CASE route.mode \in A!Fenced
    <3>1. new.mode = "central"
        BY <2>1 DEF A!SetRoute, A!Open, A!Fenced
    <3>2. \A file : Taken(file) => Taken(file)'
        BY <1>0, <3>1 DEF Taken, A!Fenced
    <3>3. QED  BY <1>0, <1>1, <3>2 DEF MoveInv, SnapshotsAreTrue
  <2>2. CASE route.mode \notin A!Fenced
    <3>1. \A file : ~Taken(file)
        BY <2>2 DEF Taken
    <3>2. QED  BY <1>0, <1>1, <3>1 DEF MoveInv, SnapshotsAreTrue
  <2>3. QED  BY <2>1, <2>2
<1>6. QED  BY <1>0, <1>2, <1>3, <1>4, <1>5

LEMMA OperatorInv ==
    ASSUME A!AuthorityAssumption, MoveInv, NEW o \in Operators, A!OperatorStep(o)
    PROVE  MoveInv'
<1>0. /\ command \in [Operators -> A!Commands] /\ command[o] \in A!Commands /\ A!TypeOK /\ Shapes
      /\ MoveTypes' /\ recorded \in A!Snapshots \cup {Nothing} /\ files \subseteq A!Snapshots
      /\ SnapshotsAreTrue /\ AuditIsWrittenOnce
    BY OperatorTyped DEF MoveInv, MoveTypes, A!TypeOK
<1>1. CASE A!BeginCommand(o)
  <2>1. PICK name \in {"map", "shadow", "drain", "freeze", "activate"},
             batch \in Batches \cup {Nothing}, file \in files \cup {Nothing} :
                /\ A!Waiting(o, name, batch, file)
                /\ name = "freeze" => A!Reviewed
                /\ name = "activate" => file \in files
      BY <1>0, <1>1 DEF A!BeginCommand, A!Snapshots
  <2>2. PICK c \in A!Commands : /\ Replaced(o, c)
                             /\ c.pc = "waiting" /\ c.name = name
                             /\ c.file = file /\ c.recorded = recorded
      BY <1>0, <2>1, WaitingType DEF A!CommandNames
  <2>3. Carries(c) => Taken(c.file)
      BY <1>0, <2>1, <2>2 DEF Carries, SnapshotsAreTrue
  <2>4. c.pc = "waiting" /\ c.name = "freeze" => \A w \in Writers : ~InFlight(w)
      BY <2>1, <2>2 DEF A!Reviewed, InFlight
  <2>5. QED
      BY <1>0, <1>1, <2>2, <2>3, <2>4, CommandInv DEF A!BeginCommand, SnapshotsAreTrue
<1>2. CASE A!BeginRecord(o)
  <2>1. Carries(command[o])
    <3>1. command[o].pc = "written"
        BY <1>2 DEF A!BeginRecord
    <3>2. QED  BY <3>1 DEF Carries
  <2>2. command[o].file \in A!Snapshots /\ Taken(command[o].file)
      BY <1>0, <2>1 DEF Shapes, SnapshotsAreTrue
  <2>3. PICK c \in A!Commands : /\ Replaced(o, c) /\ c.name = "record"
                             /\ c.file = command[o].file /\ c.recorded = recorded
      BY <1>0, <1>2, <2>2, WaitingType DEF A!BeginRecord, A!CommandNames, A!Snapshots
  <2>4. QED
      BY <1>0, <1>2, <2>2, <2>3, CommandInv DEF A!BeginRecord, SnapshotsAreTrue
<1>3. CASE A!Export(o)
  <2> DEFINE file == [batch |-> route.batch, money |-> money]
             c == [A!IdleCommand EXCEPT !.pc = "read", !.name = "export", !.file = file]
  <2>1. file \in A!Snapshots
      BY <1>0, <1>3 DEF A!Export, Shapes, A!Open, A!Snapshots, A!TypeOK
  <2>2. c \in A!Commands /\ c.file = file /\ c.pc = "read" /\ c.recorded = Nothing
      BY <2>1 DEF A!IdleCommand, A!Commands, A!CommandNames
  <2>3. Replaced(o, c)
      BY <1>0, <1>3, <2>2, ReplaceType DEF A!Export
  <2>4. Taken(file)
      BY <1>3 DEF A!Export, Taken, A!Fenced
  <2>5. QED
      BY <1>0, <1>3, <2>2, <2>3, <2>4, CommandInv DEF A!Export, SnapshotsAreTrue
<1>4. CASE A!WriteFile(o)
  <2> DEFINE c == [command[o] EXCEPT !.pc = "written"]
  <2>1. Carries(command[o])
    <3>1. command[o].pc = "read"
        BY <1>4 DEF A!WriteFile
    <3>2. QED  BY <3>1 DEF Carries
  <2>2. Taken(command[o].file)
      BY <1>0, <2>1 DEF SnapshotsAreTrue
  <2>3. c \in A!Commands /\ c.file = command[o].file /\ c.pc = "written" /\ c.recorded = command[o].recorded
      BY <1>0 DEF A!Commands
  <2>4. Replaced(o, c)
      BY <1>0, <1>4, <2>3, ReplaceType DEF A!WriteFile
  <2>5. QED
      BY <1>0, <1>4, <2>2, <2>3, <2>4, CommandInv
      DEF A!WriteFile, SnapshotsAreTrue, AuditIsWrittenOnce
<1>5. CASE A!RecordExport(o)
  <2>1. Replaced(o, A!IdleCommand)
      BY <1>0, <1>5, MoveIdle, ReplaceType DEF A!RecordExport
  <2>2. Carries(command[o])
    <3>1. command[o].pc = "waiting" /\ command[o].name = "record"
        BY <1>5 DEF A!RecordExport, A!HasLock
    <3>2. QED  BY <3>1 DEF Carries
  <2>3. Taken(recorded') /\ recorded \in {Nothing, recorded'} /\ route.mode = "frozen"
      BY <1>0, <1>5, <2>2 DEF A!RecordExport, SnapshotsAreTrue
  <2>4. QED
      BY <1>0, <1>5, <2>1, <2>3, MoveIdle, CommandInv DEF A!RecordExport, SnapshotsAreTrue
<1>6. CASE A!GiveUp(o)
  <2>1. Replaced(o, A!IdleCommand)
      BY <1>0, <1>6, MoveIdle, ReplaceType DEF A!GiveUp
  <2>2. QED
      BY <1>0, <1>6, <2>1, MoveIdle, CommandInv DEF A!GiveUp, SnapshotsAreTrue
<1>7. CASE A!Map(o) \/ A!Shadow(o) \/ A!Drain(o)
  <2>1. ASSUME NEW new, NEW name, A!HasLock(o, name), A!SetRoute(o, new),
               new.mode \in {"local", "shadow", "draining"}
        PROVE  MoveInv'
    <3>1. /\ UNCHANGED <<money, holder, writer, files, recorded, raced>>
          /\ new.mode \notin A!Fenced
        BY <1>7, <2>1 DEF A!Map, A!Shadow, A!Drain, A!Fenced
    <3>2. /\ WritersHoldTheRow' /\ NoChargeMeetsTheFence' /\ SnapshotsAreTrue'
          /\ AuditIsWrittenOnce' /\ A!AdmittedWorkIsCharged' /\ route' = new
        BY <1>0, <2>1, <3>1, RouteInv DEF A!Fenced
    <3>3. A!OpeningIsLocal' /\ A!OpenOrderWasRaced'
        BY <2>1, <3>1, <3>2 DEF A!OpeningIsLocal, A!OpenOrderWasRaced
    <3>4. QED  BY <1>0, <3>2, <3>3 DEF MoveInv
  <2>2. CASE A!Map(o) /\ UNCHANGED route
    <3>1. Replaced(o, A!IdleCommand)
        BY <1>0, <2>2, MoveIdle, ReplaceType DEF A!Map, A!SetRoute
    <3>2. QED
        BY <1>0, <2>2, <3>1, MoveIdle, CommandInv DEF A!Map, SnapshotsAreTrue
  <2>3. QED
      BY <1>0, <1>7, <2>1, <2>2 DEF A!Map, A!Shadow, A!Drain, A!TypeOK, A!Routes
<1>8. CASE A!Freeze(o)
  <2> DEFINE new == [route EXCEPT !.mode = "frozen"]
  <2>1. new.mode = "frozen"
      BY <1>0 DEF A!TypeOK, A!Routes
  <2>2. MayFreeze(o)
      BY <1>8 DEF A!Freeze, A!HasLock, MayFreeze
  <2>3. \A w \in Writers : ~InFlight(w)
      BY <2>2 DEF MoveInv, NoChargeMeetsTheFence
  <2>4. /\ A!HasLock(o, "freeze") /\ A!SetRoute(o, new) /\ raced' = (money.order \in A!Pending)
        /\ UNCHANGED <<money, holder, writer, files, recorded>>
      BY <1>8 DEF A!Freeze
  <2>5. /\ WritersHoldTheRow' /\ NoChargeMeetsTheFence' /\ SnapshotsAreTrue'
        /\ AuditIsWrittenOnce' /\ A!AdmittedWorkIsCharged' /\ route' = new
      BY <1>0, <2>1, <2>3, <2>4, RouteInv
  <2>6. A!OpeningIsLocal' /\ A!OpenOrderWasRaced'
      BY <2>1, <2>4, <2>5 DEF A!OpeningIsLocal, A!OpenOrderWasRaced
  <2>7. QED  BY <1>0, <2>5, <2>6 DEF MoveInv
<1>9. CASE A!Activate(o)
  <2> DEFINE file == command[o].file
             new == [route EXCEPT !.mode = "central", !.epoch = @ + 1, !.opening = file]
  <2>1. new.mode = "central" /\ new.batch = route.batch /\ new.opening = file
      BY <1>0 DEF A!TypeOK, A!Routes
  <2>2. route.mode \in A!Fenced
      BY <1>9 DEF A!Activate, A!Fenced
  <2>3. \A w \in Writers : ~InFlight(w)
      BY <2>2 DEF MoveInv, NoChargeMeetsTheFence
  <2>4. /\ A!HasLock(o, "activate") /\ A!SetRoute(o, new)
        /\ UNCHANGED <<money, holder, writer, files, recorded, raced>>
      BY <1>9 DEF A!Activate
  <2>5. /\ WritersHoldTheRow' /\ NoChargeMeetsTheFence' /\ SnapshotsAreTrue'
        /\ AuditIsWrittenOnce' /\ A!AdmittedWorkIsCharged' /\ route' = new
      BY <1>0, <2>1, <2>3, <2>4, RouteInv
  <2>6. file = recorded /\ Taken(file)
    <3>1. Carries(command[o])
      <4>1. command[o].pc = "waiting" /\ command[o].name = "activate"
          BY <2>4 DEF A!HasLock
      <4>2. QED  BY <4>1 DEF Carries
    <3>2. file \in A!Snapshots /\ Taken(file)
        BY <1>0, <3>1 DEF Shapes, SnapshotsAreTrue
    <3>3. command[o].recorded = file /\ command[o].recorded \in {Nothing, recorded}
        BY <1>0, <1>9 DEF A!Activate, AuditIsWrittenOnce
    <3>4. file # Nothing
        BY <3>2 DEF A!AuthorityAssumption
    <3>5. QED  BY <3>2, <3>3, <3>4
  <2>7. A!OpeningIsLocal'
      BY <2>1, <2>4, <2>5, <2>6 DEF A!OpeningIsLocal, Taken, A!Funds
  <2>8. A!OpenOrderWasRaced'
      BY <2>2, <2>4, <2>5 DEF MoveInv, A!OpenOrderWasRaced
  <2>9. QED  BY <1>0, <2>5, <2>7, <2>8 DEF MoveInv
<1>10. QED
    BY <1>1, <1>2, <1>3, <1>4, <1>5, <1>6, <1>7, <1>8, <1>9 DEF A!OperatorStep

LEMMA MoveNextInv == A!AuthorityAssumption /\ MoveInv /\ [A!Next]_(A!vars) => MoveInv'
<1> SUFFICES ASSUME A!AuthorityAssumption, MoveInv, [A!Next]_(A!vars) PROVE MoveInv'
    OBVIOUS
<1>1. CASE A!DisableKey
  <2>1. /\ UNCHANGED <<route, files, recorded, raced, command, writer, holder>>
        /\ money'.balance = money.balance /\ money'.order = money.order
      BY <1>1 DEF A!DisableKey, MoveInv, MoveTypes, A!TypeOK, A!Moneys
  <2>2. /\ SnapshotsAreTrue' /\ AuditIsWrittenOnce' /\ A!OpeningIsLocal' /\ A!OpenOrderWasRaced'
      BY <2>1, QuietStep
  <2>3. WritersHoldTheRow' /\ NoChargeMeetsTheFence' /\ A!AdmittedWorkIsCharged'
      BY <2>1
      DEF MoveInv, WritersHoldTheRow, NoChargeMeetsTheFence, InFlight, MayFreeze, A!AdmittedWorkIsCharged
  <2>4. MoveTypes'
      BY <1>1, MoveNextTyped DEF MoveInv, A!Next
  <2>5. QED  BY <2>2, <2>3, <2>4 DEF MoveInv
<1>2. CASE UNCHANGED A!vars
  <2>1. MoveTypes'
      BY <1>2, MoveNextTyped DEF MoveInv
  <2>2. QED
      BY <1>2, <2>1
      DEF A!vars, MoveInv, WritersHoldTheRow, NoChargeMeetsTheFence, InFlight, MayFreeze,
          SnapshotsAreTrue, Taken, AuditIsWrittenOnce, A!OpeningIsLocal, A!Funds,
          A!AdmittedWorkIsCharged, A!OpenOrderWasRaced
<1>3. QED  BY <1>1, <1>2, WriterInv, OperatorInv DEF A!Next

LEMMA MoveInvHolds == ASSUME A!AuthorityAssumption PROVE A!Spec => []MoveInv
<1>1. A!Init => MoveInv
    BY MoveInitInv
<1>2. MoveInv /\ [A!Next]_(A!vars) => MoveInv'
    BY MoveNextInv
<1>3. QED  BY <1>1, <1>2, PTL DEF A!Spec

LEMMA IsAMove == MCSpec => A!Spec
<1>1. MCInit => A!Init
  BY DEF MCInit
<1>2. [MCNext]_<<part, vars, routeVars>> => [A!Next]_(A!vars)
  BY DEF MCNext, routeVars, A!vars
<1>3. QED  BY <1>1, <1>2, PTL DEF MCSpec, A!Spec

\* Whatever charges, orders, refunds and commands are under way, the authority opens
\* the account with exactly the funds the local rows keep, no charge that was admitted is
\* refused, and an order can be left open only by a writer that Freeze waited for.
THEOREM MoveIsSound == MCSpec => []SwitchSound
<1>1. MoveInv => SwitchSound
    BY DEF MoveInv, MoveTypes, SwitchSound, A!SwitchSound
<1>2. A!Spec => []MoveInv
    BY MoveInvHolds, AuthorityAssumption DEF AuthorityAssumption
<1>3. QED  BY <1>1, <1>2, IsAMove, PTL

\* No writer, however late, moves the funds of a fenced account, and the authority
\* never gives them back.
THEOREM MoveKeepsFunds == MCSpec => FencedMoneyStands
<1> DEFINE Stands == /\ route.mode \in A!Fenced => A!Funds' = A!Funds
                     /\ route.mode = "central" => route' = route
<1>1. MoveInv /\ [A!Next]_(A!vars) => [Stands]_(A!vars)
  <2> SUFFICES ASSUME MoveInv, [A!Next]_(A!vars), ~UNCHANGED A!vars PROVE Stands
      OBVIOUS
  <2>1. ASSUME NEW w \in Writers, A!WriterStep(w) PROVE Stands
    <3>1. route' = route
        BY <2>1 DEF A!WriterStep, A!Admit, A!AssertLegacyWrite, A!LegacyWriteFenced, A!Commit
    <3>2. QED  BY <2>1, <3>1, FundsStand DEF A!Funds
  <2>2. ASSUME NEW o \in Operators, A!OperatorStep(o) PROVE Stands
    <3>1. money' = money
        BY <2>2
        DEF A!OperatorStep, A!BeginCommand, A!Map, A!Shadow, A!Drain, A!Freeze, A!Export, A!WriteFile,
            A!BeginRecord, A!RecordExport, A!Activate, A!GiveUp
    <3>2. route.mode = "central" => route' = route
        BY <2>2
        DEF A!OperatorStep, A!BeginCommand, A!Map, A!Shadow, A!Drain, A!Freeze, A!Export, A!WriteFile,
            A!BeginRecord, A!RecordExport, A!Activate, A!GiveUp, A!SetRoute, A!Open
    <3>3. QED  BY <3>1, <3>2 DEF A!Funds
  <2>3. CASE A!DisableKey
      BY <2>3 DEF A!DisableKey, MoveInv, MoveTypes, A!TypeOK, A!Moneys, A!Funds
  <2>4. QED  BY <2>1, <2>2, <2>3 DEF A!Next
<1> HIDE DEF Stands
<1>2. FencedMoneyStands <=> [][Stands]_(A!vars)
  BY DEF FencedMoneyStands, A!FencedMoneyStands, Stands
<1>3. A!Spec => []MoveInv
    BY MoveInvHolds, AuthorityAssumption DEF AuthorityAssumption
<1>4. QED  BY <1>1, <1>2, <1>3, IsAMove, PTL DEF A!Spec

=============================================================================
