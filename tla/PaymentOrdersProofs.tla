------------------------- MODULE PaymentOrdersProofs -------------------------
(***************************************************************************)
(* Proofs about PaymentOrders, for any sets of orders and workers and any  *)
(* number of faults: what was credited, why, how often, and what became of *)
(* a payment; and, at the end, about PaymentRefunds. The claim that sets   *)
(* RECHARGING is the lock of a fulfilment, and no other worker changes     *)
(* that status.                                                            *)
(***************************************************************************)
EXTENDS MCPaymentOrders, TLAPS

-----------------------------------------------------------------------------
(* The inductive invariant. *)

Opening    == {"insert", "invoke"}
OfBalance  == {"lookup", "create", "redeem"}
OfSub      == {"checkAudit", "readSub", "writeSub"}
Fulfilling == OfBalance \cup OfSub \cup {"complete", "fail"}
Paying     == {"toPaid", "already", "claim", "reset"} \cup Fulfilling

\* What the place of a worker says of its order.
WorkerOK(r) ==
    /\ r.pc = "idle" <=> r.order = NoOrder
    /\ r.pc = "insert" => status[r.order] = "NONE"
    /\ r.pc = "invoke" => status[r.order] # "NONE"
    /\ r.pc \in Opening => money[r.order] = "none"
    /\ r.pc \in Paying => money[r.order] = "paid"
    /\ r.pc \in Fulfilling => status[r.order] = "RECHARGING"
    /\ r.pc \in OfBalance => type[r.order] = "balance"
    /\ r.pc \in OfSub => type[r.order] = "subscription"
    /\ r.pc = "complete" => credited[r.order] > 0
    /\ r.pc \in Fulfilling \ {"complete"} /\ faults = 0 => credited[r.order] = 0
    /\ r.pc = "update" => r.target # ""
    /\ r.target = "EXPIRED" /\ r.pc \in {"query", "close", "update"} => r.order \in overdue
    /\ r.target = "EXPIRED" /\ r.pc \in {"close", "update"} =>
           r.order \notin prompt \/ r.order \in blind

\* What the rows of an order say of each other and of its payment.
OrderOK(o) ==
    /\ status[o] = "NONE" => money[o] = "none"
    /\ status[o] \in {"PAID", "RECHARGING", "COMPLETED"} => money[o] = "paid"
    /\ o \in paidAt \/ o \in prompt \/ credited[o] > 0 => money[o] = "paid"
    /\ o \in paidAt => status[o] \in {"PAID", "RECHARGING", "COMPLETED", "FAILED"}
    /\ type[o] = "balance" => credited[o] = IF code[o] = "used" THEN 1 ELSE 0
    /\ o \in audit => credited[o] > 0
    /\ status[o] = "COMPLETED" => credited[o] > 0
    /\ status[o] = "EXPIRED" => o \in overdue /\ (o \notin prompt \/ o \in blind)
    /\ faults = 0 => credited[o] <= 1
    /\ faults = 0 /\ credited[o] > 0 => status[o] \in {"RECHARGING", "COMPLETED"}

\* One worker creates an order, and one fulfils it.
Together(w, v, pcs) ==
    /\ worker[w].order = worker[v].order
    /\ worker[w].pc \in pcs /\ worker[v].pc \in pcs

OneWorker ==
    \A w, v \in Workers : Together(w, v, Opening) \/ Together(w, v, Fulfilling) => w = v

\* An order that was paid is in somebody's hands, or was hurt.
Carried(o) ==
    /\ status[o] = "PAID" => o \in hurt \/ \E w \in Workers : At(w, o, "claim")
    /\ status[o] = "RECHARGING" =>
           o \in hurt \/ \E w \in Workers : worker[w].order = o /\ worker[w].pc \in Fulfilling

WorkersOK == \A w \in Workers : WorkerOK(worker[w])
OrdersOK  == \A o \in Orders : OrderOK(o)
AllCarried == \A o \in Orders : Carried(o)

Inv == TypeOK /\ WorkersOK /\ OrdersOK /\ OneWorker /\ AllCarried

-----------------------------------------------------------------------------
(* The beginning. *)

LEMMA InitInv == Init => Inv
<1> SUFFICES ASSUME Init PROVE Inv
    OBVIOUS
<1>0. /\ \A w \in Workers : worker[w] = Idle /\ worker[w].pc = "idle"
                            /\ worker[w].order = NoOrder /\ worker[w].target = ""
      /\ Idle \in Worker
    BY DEF Init, Idle, Worker
<1>1. TypeOK
  <2>1. /\ type \in [Orders -> Types] /\ days \in Nat /\ faults \in 0..MaxFaults
        /\ credited \in [Orders -> Nat]
        /\ money \in [Orders -> {"none", "open", "closed", "paid"}]
        /\ code \in [Orders -> {"none", "unused", "used"}]
        /\ status \in [Orders -> Statuses]
      BY OrdersAssumption DEF Init, Statuses
  <2>2. worker \in [Workers -> Worker]
      BY <1>0 DEF Init
  <2>3. {paidAt, audit, overdue, lapsed, prompt, blind, hurt} \subseteq SUBSET Orders
      BY DEF Init
  <2>4. QED  BY <2>1, <2>2, <2>3 DEF TypeOK
<1>2. WorkersOK
    BY <1>0 DEF WorkersOK, WorkerOK, Opening, Paying, Fulfilling, OfBalance, OfSub
<1>3. OrdersOK /\ AllCarried
    BY DEF Init, OrdersOK, OrderOK, AllCarried, Carried
<1>4. OneWorker
    BY <1>0 DEF OneWorker, Together, Opening, Fulfilling, OfBalance, OfSub
<1>5. QED  BY <1>1, <1>2, <1>3, <1>4 DEF Inv

-----------------------------------------------------------------------------
(* Steps that concern one order. *)

\* Nothing that is known of another order changes, but for faults.
Elsewhere(o) ==
    /\ type' = type /\ faults' \in Nat /\ faults <= faults'
    /\ \A p \in Orders \ {o} :
        /\ status'[p] = status[p] /\ credited'[p] = credited[p] /\ code'[p] = code[p]
        /\ money'[p] = money[p]
        /\ p \in paidAt' => p \in paidAt
        /\ p \in audit' => p \in audit
        /\ p \in overdue => p \in overdue'
        /\ p \in prompt' => p \in prompt
        /\ p \in blind => p \in blind'
        /\ p \in hurt => p \in hurt'

\* Worker w, at work on o or idle, becomes r.
Works(w, o, r) ==
    /\ \A v \in Workers \ {w} : worker'[v] = worker[v]
    /\ worker'[w] = r
    /\ worker[w].order \in {o, NoOrder} /\ r.order \in {o, NoOrder}

LEMMA ElsewhereOK ==
    ASSUME Inv, NEW o \in Orders, Elsewhere(o), NEW p \in Orders \ {o}
    PROVE  OrderOK(p)'
<1>1. OrderOK(p) /\ faults \in Nat
    BY OrdersAssumption DEF Inv, OrdersOK, TypeOK
<1>2. faults' = 0 => faults = 0
    BY <1>1 DEF Elsewhere
<1>3. QED  BY <1>1, <1>2 DEF OrderOK, Elsewhere

LEMMA OtherWorkersOK ==
    ASSUME Inv, NEW o \in Orders, Elsewhere(o), NEW v \in Workers, worker[v].order # o,
           worker'[v] = worker[v]
    PROVE  WorkerOK(worker[v])'
<1>0. worker[v] \in Worker /\ faults \in 0..MaxFaults
    BY DEF Inv, TypeOK
<1>1. WorkerOK(worker[v]) /\ faults \in Nat /\ worker[v].order \in Orders \cup {NoOrder}
  <2>1. WorkerOK(worker[v])
      BY DEF Inv, WorkersOK
  <2>2. faults \in Nat
      BY <1>0, OrdersAssumption
  <2>3. worker[v].order \in Orders \cup {NoOrder}
      BY <1>0 DEF Worker
  <2>4. QED  BY <2>1, <2>2, <2>3
<1>2. faults' = 0 => faults = 0
    BY <1>1 DEF Elsewhere
<1>3. CASE worker[v].order = NoOrder
    BY <1>1, <1>3 DEF WorkerOK, Opening, Paying, Fulfilling, OfBalance, OfSub
<1>4. CASE worker[v].order \in Orders \ {o}
    BY ZenonT(40), <1>1, <1>2, <1>4 DEF WorkerOK, Elsewhere
<1>5. QED  BY <1>1, <1>3, <1>4

LEMMA OtherCarried ==
    ASSUME Inv, NEW o \in Orders, Elsewhere(o), NEW p \in Orders \ {o},
           \A v \in Workers : worker[v].order = p => worker'[v] = worker[v]
    PROVE  Carried(p)'
<1>1. Carried(p)
    BY DEF Inv, AllCarried
<1>2. QED  BY <1>1 DEF Carried, Elsewhere, At

LEMMA WorkerStep ==
    ASSUME Inv, TypeOK', NEW w \in Workers, NEW o \in Orders, NEW r, Works(w, o, r),
           Elsewhere(o), OrderOK(o)', WorkerOK(worker[w])', Carried(o)',
           \A v \in Workers \ {w} : worker[v].order = o => WorkerOK(worker[v])',
           r.pc \in Opening =>
               worker[w].pc \in Opening \/ \A v \in Workers : worker[v].order # o,
           r.pc \in Fulfilling =>
               \/ worker[w].pc \in Fulfilling
               \/ \A v \in Workers : worker[v].order = o => worker[v].pc \notin Fulfilling
    PROVE  Inv'
<1>1. OrdersOK'
    BY ElsewhereOK DEF OrdersOK
<1>2. \A v \in Workers \ {w} : worker[v].order # o => WorkerOK(worker[v])'
    BY OtherWorkersOK DEF Works
<1>3. WorkersOK'
    BY <1>2 DEF WorkersOK
<1>4. OneWorker'
  <2>0. /\ WorkersOK /\ OneWorker /\ NoOrder \notin Orders
        /\ r.pc \in Opening \cup Fulfilling => r.order = o
    <3>1. WorkerOK(r)'
        BY DEF Works
    <3>2. QED
        BY <3>1, OrdersAssumption DEF Inv, Works, WorkerOK, Opening, Fulfilling, OfBalance, OfSub
  <2>1. ASSUME NEW v \in Workers \ {w}, NEW pcs \in {Opening, Fulfilling},
               r.pc \in pcs, worker[v].pc \in pcs, r.order = worker[v].order
        PROVE  FALSE
    <3>1. worker[v].order = o /\ r.order = o
        BY <2>0, <2>1
    <3>2. worker[w].pc \in pcs
        BY <2>1, <3>1 DEF Opening, Fulfilling, OfBalance, OfSub
    <3>3. worker[w].order = o
        BY <2>0, <2>1, <3>2
           DEF Works, WorkersOK, WorkerOK, Opening, Fulfilling, OfBalance, OfSub
    <3>4. QED  BY <2>0, <2>1, <3>1, <3>2, <3>3 DEF OneWorker, Together
  <2>2. QED  BY <2>0, <2>1 DEF OneWorker, Together, Works
<1>5. AllCarried'
  <2>1. ASSUME NEW p \in Orders \ {o} PROVE Carried(p)'
    <3>1. \A v \in Workers : worker[v].order = p => worker'[v] = worker[v]
        BY OrdersAssumption DEF Works
    <3>2. QED  BY <3>1, OtherCarried
  <2>2. QED  BY <2>1 DEF AllCarried
<1>6. QED  BY <1>1, <1>3, <1>4, <1>5 DEF Inv

LEMMA EnvStep ==
    ASSUME Inv, TypeOK', NEW o \in Orders, Elsewhere(o), worker' = worker,
           OrderOK(o)', Carried(o)',
           \A v \in Workers : worker[v].order = o => WorkerOK(worker[v])'
    PROVE  Inv'
<1>1. OrdersOK'
    BY ElsewhereOK DEF OrdersOK
<1>2. WorkersOK'
  <2>1. \A v \in Workers : worker[v].order # o => WorkerOK(worker[v])'
      BY OtherWorkersOK
  <2>2. QED  BY <2>1 DEF WorkersOK
<1>3. OneWorker'
    BY DEF Inv, OneWorker, Together
<1>4. AllCarried'
    BY OtherCarried DEF AllCarried
<1>5. QED  BY <1>1, <1>2, <1>3, <1>4 DEF Inv

-----------------------------------------------------------------------------
(* How a worker moves. *)

LEMMA StartMoves ==
    ASSUME TypeOK, NEW w \in Workers, NEW o \in Orders, NEW pc, NEW target,
           Start(w, o, pc, target), pc \in {"insert", "query", "toPaid", "reset"},
           target \in {"", "CANCELLED", "EXPIRED"}
    PROVE  /\ worker' \in [Workers -> Worker]
           /\ \A v \in Workers \ {w} : worker'[v] = worker[v]
           /\ worker'[w].pc = pc /\ worker'[w].order = o /\ worker'[w].target = target
<1> DEFINE r == [Idle EXCEPT !.pc = pc, !.order = o, !.target = target]
<1>1. r \in Worker /\ r.pc = pc /\ r.order = o /\ r.target = target
    BY DEF Idle, Worker
<1>2. worker \in [Workers -> Worker] /\ worker' = [worker EXCEPT ![w] = r]
    BY DEF TypeOK, Start
<1> HIDE DEF r
<1>3. QED  BY <1>1, <1>2

LEMMA GotoMoves ==
    ASSUME TypeOK, NEW w \in Workers, NEW pc, Goto(w, pc),
           pc \in {"invoke", "close", "update", "toPaid", "already", "claim", "lookup",
                   "create", "redeem", "checkAudit", "readSub", "writeSub", "complete", "fail"}
    PROVE  /\ worker' \in [Workers -> Worker]
           /\ \A v \in Workers \ {w} : worker'[v] = worker[v]
           /\ worker'[w].pc = pc /\ worker'[w].order = worker[w].order
           /\ worker'[w].target = worker[w].target
<1> DEFINE r == [worker[w] EXCEPT !.pc = pc]
<1>0. worker \in [Workers -> Worker] /\ worker[w] \in Worker
    BY DEF TypeOK
<1>1. r \in Worker /\ r.pc = pc /\ r.order = worker[w].order /\ r.target = worker[w].target
    BY <1>0 DEF Worker
<1>2. worker' = [worker EXCEPT ![w] = r]
    BY DEF Goto
<1> HIDE DEF r
<1>3. QED  BY <1>0, <1>1, <1>2

LEMMA ReturnMoves ==
    ASSUME TypeOK, NEW w \in Workers, Return(w)
    PROVE  /\ worker' \in [Workers -> Worker]
           /\ \A v \in Workers \ {w} : worker'[v] = worker[v]
           /\ worker'[w].pc = "idle" /\ worker'[w].order = NoOrder /\ worker'[w].target = ""
<1>1. Idle \in Worker /\ Idle.pc = "idle" /\ Idle.order = NoOrder /\ Idle.target = ""
    BY DEF Idle, Worker
<1>2. worker \in [Workers -> Worker] /\ worker' = [worker EXCEPT ![w] = Idle]
    BY DEF TypeOK, Return
<1>3. QED  BY <1>1, <1>2

LEMMA FaultsCount ==
    ASSUME TypeOK, Fault \/ faults' = faults
    PROVE  /\ faults' \in 0 .. MaxFaults /\ faults \in Nat /\ faults' \in Nat
           /\ faults <= faults' /\ (Fault => faults' > 0)
BY OrdersAssumption DEF TypeOK, Fault

-----------------------------------------------------------------------------
(* Steps that change nothing but a worker, the faults and what was blind. *)

Quiet(o) ==
    /\ UNCHANGED <<rows, env, hurt>>
    /\ blind' \in {blind, blind \cup {o}}
    /\ Fault \/ faults' = faults

LEMMA QuietStep ==
    ASSUME Inv, NEW w \in Workers, NEW o \in Orders, Quiet(o),
           worker' \in [Workers -> Worker],
           Works(w, o, worker'[w]), WorkerOK(worker[w])',
           worker'[w].pc \in Opening =>
               worker[w].pc \in Opening \/ \A v \in Workers : worker[v].order # o,
           worker'[w].pc \in Fulfilling <=> worker[w].pc \in Fulfilling,
           worker[w].pc = "claim" => status[o] # "PAID",
           worker[w].pc # "idle" => worker'[w].order \in {worker[w].order, NoOrder}
    PROVE  Inv'
<1>0. /\ faults' \in 0 .. MaxFaults /\ faults \in Nat /\ faults' \in Nat
      /\ faults <= faults'
  <2>1. TypeOK /\ (Fault \/ faults' = faults)
      BY DEF Inv, Quiet
  <2>2. QED  BY <2>1, FaultsCount
<1>1. TypeOK'
    BY <1>0 DEF Inv, TypeOK, Quiet, rows, env
<1>2. Elsewhere(o)
    BY <1>0 DEF Elsewhere, Quiet, rows, env
<1>3. faults \in Nat /\ (faults' = 0 => faults = 0)
    BY <1>0
<1>4. OrderOK(o)'
    BY <1>3 DEF Inv, OrdersOK, OrderOK, Quiet, rows, env
<1>5. ASSUME NEW v \in Workers \ {w}, worker[v].order = o PROVE WorkerOK(worker[v])'
    BY <1>3, <1>5, ZenonT(90) DEF Inv, WorkersOK, WorkerOK, Quiet, rows, env, Works
<1>6. Carried(o)'
  <2>1. WorkerOK(worker[w])'
      OBVIOUS
  <2>2. worker[w].order = o /\ worker[w].pc \in Fulfilling =>
            worker'[w].order = o /\ worker'[w].pc \in Fulfilling
      BY <2>1 DEF WorkerOK, Fulfilling, OfBalance, OfSub, Works
  <2>4. Carried(o)
      BY DEF Inv, AllCarried
  <2>5. QED  BY <2>2, <2>4 DEF Carried, Quiet, rows, env, Works, At
<1>7. QED  BY <1>1, <1>2, <1>4, <1>5, <1>6, WorkerStep

\* What is known of worker w before its step.
LEMMA Before ==
    ASSUME Inv, NEW w \in Workers, NEW o \in Orders
    PROVE  /\ TypeOK /\ OrderOK(o) /\ WorkerOK(worker[w]) /\ NoOrder # o
           /\ worker[w].order \in Orders \cup {NoOrder}
           /\ worker[w].target \in {"", "CANCELLED", "EXPIRED"}
<1>1. worker[w] \in Worker
    BY DEF Inv, TypeOK
<1>2. QED  BY <1>1, OrdersAssumption DEF Inv, OrdersOK, WorkersOK, Worker

LEMMA StartStep ==
    ASSUME Inv, NEW w \in Workers, NEW o \in Orders,
           NEW pc, NEW target, Start(w, o, pc, target),
           pc \in {"insert", "query", "toPaid", "reset"},
           target \in {"", "CANCELLED", "EXPIRED"},
           UNCHANGED <<rows, env, faults, blind, hurt>>,
           pc = "insert" => /\ status[o] = "NONE" /\ target = ""
                            /\ \A v \in Workers : worker[v].order # o,
           pc \in {"toPaid", "reset"} => money[o] = "paid" /\ target = "",
           target = "EXPIRED" => o \in overdue
    PROVE  Inv'
<1>0. TypeOK /\ OrderOK(o) /\ WorkerOK(worker[w]) /\ NoOrder # o
    BY Before
<1>1. /\ worker' \in [Workers -> Worker]
      /\ \A v \in Workers \ {w} : worker'[v] = worker[v]
      /\ worker'[w].pc = pc /\ worker'[w].order = o /\ worker'[w].target = target
    BY <1>0, StartMoves
<1>2. Quiet(o)
    BY DEF Quiet
<1>3. worker[w].pc = "idle" /\ worker[w].order = NoOrder
    BY <1>0 DEF Start, WorkerOK
<1>4. WorkerOK(worker[w])'
  <2>1. pc = "insert" => status'[o] = "NONE" /\ money'[o] = "none"
      BY <1>0 DEF OrderOK, rows, env
  <2>2. money'[o] = money[o] /\ overdue' = overdue
      BY DEF env
  <2>3. QED  BY <1>0, <1>1, <2>1, <2>2 DEF WorkerOK, Opening, Paying, Fulfilling, OfBalance, OfSub
<1>5. Works(w, o, worker'[w])
    BY <1>1, <1>3 DEF Works
<1>6. pc \notin Fulfilling /\ "idle" \notin Fulfilling
    BY DEF Fulfilling, OfBalance, OfSub
<1>7. pc \in Opening => \A v \in Workers : worker[v].order # o
    BY DEF Opening
<1>8. QED  BY <1>1, <1>2, <1>3, <1>4, <1>5, <1>6, <1>7, QuietStep

LEMMA RequestStep ==
    ASSUME Inv, NEW w \in Workers, NEW o \in Orders, Request(w, o)
    PROVE  Inv'
<1>0. OrderOK(o)
    BY Before
<1>1. CASE CheckPendingLimit(w, o)
    BY <1>1, StartStep DEF CheckPendingLimit
<1>2. CASE CancelOrder(w, o)
    BY <1>2, StartStep DEF CancelOrder
<1>3. CASE ExpireTimedOutOrder(w, o)
    BY <1>3, StartStep DEF ExpireTimedOutOrder
<1>4. CASE VerifyOrder(w, o)
    BY <1>4, StartStep DEF VerifyOrder
<1>5. CASE Notify(w, o)
    BY <1>5, StartStep DEF Notify
<1>6. CASE RetryFulfillment(w, o)
  <2>1. money[o] = "paid"
      BY <1>0, <1>6 DEF RetryFulfillment, OrderOK
  <2>2. QED  BY <1>6, <2>1, StartStep DEF RetryFulfillment
<1>7. QED  BY <1>1, <1>2, <1>3, <1>4, <1>5, <1>6 DEF Request

-----------------------------------------------------------------------------
(* Steps of a worker at work on an order. *)

OnlyRows(o) ==
    /\ UNCHANGED <<type, overdue, lapsed, prompt>>
    /\ days' \in Nat
    /\ Fault \/ faults' = faults
    /\ blind' \in {blind, blind \cup {o}} /\ hurt' \in {hurt, hurt \cup {o}}
    /\ paidAt' \in {paidAt, paidAt \cup {o}} /\ audit' \in {audit, audit \cup {o}}
    /\ status' \in [Orders -> Statuses] /\ credited' \in [Orders -> Nat]
    /\ code' \in [Orders -> {"none", "unused", "used"}]
    /\ money' \in [Orders -> {"none", "open", "closed", "paid"}]
    /\ \A p \in Orders \ {o} : /\ status'[p] = status[p] /\ credited'[p] = credited[p]
                               /\ code'[p] = code[p] /\ money'[p] = money[p]

\* The other workers on the order do not mind the step.
Heedless(w, o) ==
    /\ status'[o] = "NONE" => status[o] = "NONE"
    /\ \/ status'[o] = status[o] /\ credited'[o] = credited[o]
       \/ worker[w].pc \in Fulfilling
       \/ status[o] \notin {"NONE", "RECHARGING"} /\ credited'[o] = credited[o]
       \/ worker[w].pc \in Opening /\ credited'[o] = credited[o]
    /\ \/ money'[o] = money[o]
       \/ money[o] \in {"open", "closed"}
       \/ worker[w].pc = "invoke"

LEMMA SharersOK ==
    ASSUME Inv, NEW o \in Orders, NEW w \in Workers, worker[w].order = o, OnlyRows(o),
           Elsewhere(o), Heedless(w, o), NEW v \in Workers, v # w, worker[v].order = o,
           worker'[v] = worker[v]
    PROVE  WorkerOK(worker[v])'
<1>1. WorkerOK(worker[v]) /\ WorkerOK(worker[w]) /\ NoOrder # o
    BY OrdersAssumption DEF Inv, WorkersOK
<1>2. ~Together(w, v, Opening) /\ ~Together(w, v, Fulfilling)
    BY DEF Inv, OneWorker
<1>3. worker[w].pc \in Fulfilling => /\ worker[v].pc \notin Fulfilling
                                     /\ status[o] = "RECHARGING"
    BY <1>1, <1>2 DEF Together, WorkerOK
<1>4. worker[w].pc \in Opening => /\ worker[v].pc \notin Opening
                                  /\ money[o] = "none"
    BY <1>1, <1>2 DEF Together, WorkerOK
<1>5. worker[v].pc = "insert" => status[o] = "NONE" /\ worker[v].pc \in Opening
    BY <1>1 DEF WorkerOK, Opening
<1>6. worker[v].pc \in Fulfilling => /\ status[o] = "RECHARGING" /\ money[o] = "paid"
                                     /\ worker[v].pc \in Paying
    BY <1>1 DEF WorkerOK, Paying
<1>7. worker[v].pc \in Fulfilling \/ worker[v].pc = "insert" =>
          status'[o] = status[o] /\ credited'[o] = credited[o]
    BY <1>3, <1>4, <1>5, <1>6 DEF Heedless
<1>8. (worker[v].pc \in Opening => money'[o] = "none")
      /\ (worker[v].pc \in Paying => money'[o] = "paid")
  <2>1. worker[w].pc = "invoke" => worker[w].pc \in Opening
      BY DEF Opening
  <2>2. (worker[v].pc \in Opening => money[o] = "none")
        /\ (worker[v].pc \in Paying => money[o] = "paid")
      BY <1>1 DEF WorkerOK
  <2>3. QED  BY <1>4, <2>1, <2>2 DEF Heedless
<1>9. faults \in Nat /\ (faults' = 0 => faults = 0)
  <2>1. TypeOK /\ (Fault \/ faults' = faults)
      BY DEF Inv, OnlyRows
  <2>2. QED  BY <2>1, FaultsCount
<1>10. \A pc \in {"complete"} \cup OfBalance \cup OfSub : pc \in Fulfilling
    BY DEF Fulfilling
<1>11. worker[v].pc = "invoke" => status'[o] # "NONE"
    BY <1>1 DEF WorkerOK, Heedless
<1>12. /\ type' = type /\ overdue' = overdue /\ prompt' = prompt
       /\ (o \in blind => o \in blind')
    BY DEF OnlyRows
<1>13. /\ worker[v].pc \in Fulfilling => status'[o] = "RECHARGING"
       /\ worker[v].pc \in OfBalance => type'[o] = "balance"
       /\ worker[v].pc \in OfSub => type'[o] = "subscription"
       /\ worker[v].pc = "complete" => credited'[o] > 0
       /\ worker[v].pc \in Fulfilling \ {"complete"} /\ faults' = 0 => credited'[o] = 0
    BY <1>1, <1>7, <1>9, <1>10, <1>12 DEF WorkerOK
<1>14. worker[v].pc = "insert" => status'[o] = "NONE"
    BY <1>1, <1>7 DEF WorkerOK
<1>15. /\ worker[v].pc = "idle" <=> worker[v].order = NoOrder
       /\ worker[v].pc = "update" => worker[v].target # ""
       /\ worker[v].target = "EXPIRED" /\ worker[v].pc \in {"query", "close", "update"} =>
              o \in overdue'
       /\ worker[v].target = "EXPIRED" /\ worker[v].pc \in {"close", "update"} =>
              o \notin prompt' \/ o \in blind'
    BY <1>1, <1>12 DEF WorkerOK
<1>16. QED  BY ZenonT(40), <1>8, <1>11, <1>13, <1>14, <1>15 DEF WorkerOK

LEMMA RowStep ==
    ASSUME Inv, NEW o \in Orders, NEW w \in Workers, worker[w].order = o, OnlyRows(o),
           worker' \in [Workers -> Worker], Works(w, o, worker'[w]), Heedless(w, o),
           OrderOK(o)', WorkerOK(worker[w])',
           worker'[w].pc \in Opening => worker[w].pc \in Opening,
           worker'[w].pc \in Fulfilling =>
               worker[w].pc \in Fulfilling \/ status[o] # "RECHARGING",
           status'[o] = "PAID" =>
               o \in hurt' \/ worker'[w].pc = "claim"
               \/ (status[o] = "PAID" /\ worker[w].pc # "claim"),
           status'[o] = "RECHARGING" =>
               o \in hurt' \/ worker'[w].pc \in Fulfilling
               \/ (status[o] = "RECHARGING" /\ worker[w].pc \notin Fulfilling)
    PROVE  Inv'
<1>0. /\ faults' \in 0 .. MaxFaults /\ faults \in Nat /\ faults' \in Nat
      /\ faults <= faults'
  <2>1. TypeOK /\ (Fault \/ faults' = faults)
      BY DEF Inv, OnlyRows
  <2>2. QED  BY <2>1, FaultsCount
<1>1. TypeOK'
    BY <1>0 DEF Inv, TypeOK, OnlyRows
<1>2. Elsewhere(o)
    BY <1>0 DEF Elsewhere, OnlyRows
<1>3. \A v \in Workers \ {w} : worker[v].order = o => WorkerOK(worker[v])'
    BY <1>2, SharersOK DEF Works
<1>4. (worker'[w].pc \in Fulfilling \/ worker'[w].pc = "claim") => worker'[w].order = o
    BY DEF Works, WorkerOK, Opening, Paying, Fulfilling, OfBalance, OfSub
<1>5. Carried(o)'
  <2>1. Carried(o)
      BY DEF Inv, AllCarried
  <2>2. hurt \subseteq hurt'
      BY DEF OnlyRows
  <2>3. ASSUME status'[o] = "PAID", o \notin hurt'
        PROVE  \E v \in Workers : worker'[v].pc = "claim" /\ worker'[v].order = o
    <3>1. CASE worker'[w].pc = "claim"
        BY <1>4, <3>1
    <3>2. CASE status[o] = "PAID" /\ worker[w].pc # "claim"
        BY <2>1, <2>2, <2>3, <3>2 DEF Carried, At, Works
    <3>3. QED  BY <2>3, <3>1, <3>2
  <2>4. ASSUME status'[o] = "RECHARGING", o \notin hurt'
        PROVE  \E v \in Workers : worker'[v].pc \in Fulfilling /\ worker'[v].order = o
    <3>1. CASE worker'[w].pc \in Fulfilling
        BY <1>4, <3>1
    <3>2. CASE status[o] = "RECHARGING" /\ worker[w].pc \notin Fulfilling
        BY <2>1, <2>2, <2>4, <3>2 DEF Carried, Works
    <3>3. QED  BY <2>4, <3>1, <3>2
  <2>5. QED  BY <2>3, <2>4 DEF Carried, At
<1>6. worker'[w].pc \in Fulfilling =>
          \/ worker[w].pc \in Fulfilling
          \/ \A v \in Workers : worker[v].order = o => worker[v].pc \notin Fulfilling
    BY DEF Inv, WorkersOK, WorkerOK
<1>7. QED  BY <1>1, <1>2, <1>3, <1>5, <1>6, WorkerStep

LEMMA ReturnStep ==
    ASSUME Inv, NEW o \in Orders, NEW w \in Workers, NEW pc, At(w, o, pc), Return(w),
           OnlyRows(o), Heedless(w, o), OrderOK(o)',
           status'[o] = "PAID" => o \in hurt' \/ (status[o] = "PAID" /\ pc # "claim"),
           status'[o] = "RECHARGING" =>
               o \in hurt' \/ (status[o] = "RECHARGING" /\ pc \notin Fulfilling)
    PROVE  Inv'
<1>0. TypeOK
    BY DEF Inv
<1>1. worker[w].pc = pc /\ worker[w].order = o
    BY DEF At
<1>2. /\ worker' \in [Workers -> Worker]
      /\ \A v \in Workers \ {w} : worker'[v] = worker[v]
      /\ worker'[w].pc = "idle" /\ worker'[w].order = NoOrder /\ worker'[w].target = ""
    BY <1>0, ReturnMoves
<1>3. Works(w, o, worker'[w])
    BY <1>1, <1>2 DEF Works
<1>4. "idle" \notin Fulfilling /\ "idle" \notin Opening
    BY DEF Opening, Fulfilling, OfBalance, OfSub
<1>5. WorkerOK(worker[w])'
    BY <1>2 DEF WorkerOK, Opening, Paying, Fulfilling, OfBalance, OfSub
<1>6. QED  BY <1>1, <1>2, <1>3, <1>4, <1>5, RowStep

\* The place a worker goes to agrees with the rows as they are now.
Fits(w, o, next) ==
    /\ next \in Opening => /\ worker[w].pc \in Opening /\ money'[o] = "none"
                           /\ status'[o] # "NONE"
    /\ next \in Paying => money'[o] = "paid"
    /\ next \in Fulfilling => status'[o] = "RECHARGING"
    /\ next \in OfBalance => type[o] = "balance"
    /\ next \in OfSub => type[o] = "subscription"
    /\ next = "complete" => credited'[o] > 0
    /\ next \in Fulfilling \ {"complete"} /\ faults' = 0 => credited'[o] = 0
    /\ next = "update" => worker[w].target # ""
    /\ next \in {"close", "update"} => worker[w].pc \in {"query", "close"}
    /\ next \in {"close", "update"} /\ worker[w].pc = "query" =>
           o \notin prompt \/ o \in blind'

Places == {"invoke", "close", "update", "toPaid", "already", "claim", "lookup", "create",
           "redeem", "checkAudit", "readSub", "writeSub", "complete", "fail"}

LEMMA GoStep ==
    ASSUME Inv, NEW o \in Orders, NEW w \in Workers, NEW pc, At(w, o, pc),
           NEW next, next \in Places, worker' \in [Workers -> Worker],
           \A v \in Workers \ {w} : worker'[v] = worker[v],
           worker'[w].pc = next, worker'[w].order = o,
           worker'[w].target = worker[w].target,
           OnlyRows(o), Heedless(w, o), OrderOK(o)', Fits(w, o, next),
           next \in Fulfilling => pc \in Fulfilling \/ status[o] # "RECHARGING",
           status'[o] = "PAID" =>
               o \in hurt' \/ next = "claim" \/ (status[o] = "PAID" /\ pc # "claim"),
           status'[o] = "RECHARGING" =>
               o \in hurt' \/ next \in Fulfilling
               \/ (status[o] = "RECHARGING" /\ pc \notin Fulfilling)
    PROVE  Inv'
<1>0. TypeOK /\ OrderOK(o) /\ WorkerOK(worker[w]) /\ NoOrder # o
    BY Before
<1>1. worker[w].pc = pc /\ worker[w].order = o
    BY DEF At
<1>2. Works(w, o, worker'[w])
    BY <1>1 DEF Works
<1>3. WorkerOK(worker[w])'
  <2>1. next # "idle" /\ next # "insert" /\ next # "query"
        /\ (next = "invoke" => next \in Opening)
      BY DEF Places, Opening
  <2>2. overdue' = overdue /\ prompt' = prompt /\ type' = type
        /\ (o \in blind => o \in blind')
      BY DEF OnlyRows
  <2>3. next \in {"close", "update"} /\ worker[w].target = "EXPIRED" =>
            o \in overdue /\ (o \notin prompt \/ o \in blind')
      BY <1>0, <1>1, <2>2 DEF WorkerOK, Fits
  <2>4. QED  BY ZenonT(40), <1>0, <2>1, <2>2, <2>3 DEF WorkerOK, Fits
<1>4. QED  BY <1>1, <1>2, <1>3, RowStep DEF Fits

\* The same for a step that leaves the rows as they are.
LEMMA StillOK ==
    ASSUME Inv, NEW o \in Orders, UNCHANGED <<rows, env>>,
           Fault \/ faults' = faults, blind' \in {blind, blind \cup {o}},
           hurt' \in {hurt, hurt \cup {o}}
    PROVE  OnlyRows(o) /\ OrderOK(o)' /\ \A w \in Workers : Heedless(w, o)
<1>0. TypeOK /\ OrderOK(o) /\ faults \in Nat /\ (faults' = 0 => faults = 0)
  <2>1. TypeOK /\ OrderOK(o)
      BY DEF Inv, OrdersOK
  <2>2. QED  BY <2>1, FaultsCount
<1>1. OnlyRows(o)
    BY <1>0 DEF OnlyRows, TypeOK, rows, env
<1>2. OrderOK(o)'
    BY <1>0 DEF OrderOK, rows, env
<1>3. \A w \in Workers : Heedless(w, o)
    BY DEF Heedless, rows, env
<1>4. QED  BY <1>1, <1>2, <1>3

-----------------------------------------------------------------------------
(* The actions, one by one. *)

\* GoStep for Goto, which every action but ReadSub uses.
LEMMA GotoStep ==
    ASSUME Inv, NEW o \in Orders, NEW w \in Workers, NEW pc, At(w, o, pc),
           NEW next, next \in Places, Goto(w, next),
           OnlyRows(o), Heedless(w, o), OrderOK(o)', Fits(w, o, next),
           next \in Fulfilling => pc \in Fulfilling \/ status[o] # "RECHARGING",
           status'[o] = "PAID" =>
               o \in hurt' \/ next = "claim" \/ (status[o] = "PAID" /\ pc # "claim"),
           status'[o] = "RECHARGING" =>
               o \in hurt' \/ next \in Fulfilling
               \/ (status[o] = "RECHARGING" /\ pc \notin Fulfilling)
    PROVE  Inv'
<1>1. TypeOK /\ worker[w].order = o
    BY DEF Inv, At
<1>2. /\ worker' \in [Workers -> Worker]
      /\ \A v \in Workers \ {w} : worker'[v] = worker[v]
      /\ worker'[w].pc = next /\ worker'[w].order = worker[w].order
      /\ worker'[w].target = worker[w].target
    BY <1>1, GotoMoves DEF Places
<1>3. QED  BY <1>1, <1>2, GoStep

LEMMA InsertStep ==
    ASSUME Inv, NEW w \in Workers, NEW o \in Orders, Insert(w, o) PROVE Inv'
<1>1. /\ TypeOK /\ OrderOK(o) /\ WorkerOK(worker[w])
      /\ worker[w].pc = "insert" /\ worker[w].order = o
    BY Before DEF Insert, At
<1>2. /\ status[o] = "NONE" /\ money[o] = "none"
    BY <1>1 DEF WorkerOK, Opening
<1>3. OnlyRows(o)
    BY <1>1 DEF Insert, Set, OnlyRows, TypeOK, env, Statuses
<1>4. /\ status'[o] = "PENDING" /\ UNCHANGED <<type, paidAt, code, audit, credited, env, faults>>
    BY <1>1 DEF Insert, Set, TypeOK
<1>5. OrderOK(o)'
    BY <1>1, <1>2, <1>4 DEF OrderOK, env
<1>6. Heedless(w, o) /\ Fits(w, o, "invoke")
    BY <1>1, <1>2, <1>4 DEF Heedless, Fits, env, Opening, Paying, Fulfilling, OfBalance, OfSub
<1>7. At(w, o, "insert") /\ Goto(w, "invoke") /\ "invoke" \in Places
      /\ "invoke" \notin Fulfilling
    BY DEF Insert, Places, Fulfilling, OfBalance, OfSub
<1>8. QED  BY <1>3, <1>4, <1>5, <1>6, <1>7, GotoStep

LEMMA InvokeStep ==
    ASSUME Inv, NEW w \in Workers, NEW o \in Orders, Invoke(w, o) PROVE Inv'
<1>1. /\ TypeOK /\ OrderOK(o) /\ WorkerOK(worker[w])
      /\ worker[w].pc = "invoke" /\ worker[w].order = o
    BY Before DEF Invoke, At
<1>2. money[o] = "none" /\ status[o] # "NONE" /\ worker[w].pc \in Opening
    BY <1>1 DEF WorkerOK, Opening
<1>3. status[o] \notin {"PAID", "RECHARGING", "COMPLETED"} /\ credited[o] = 0 /\ o \notin prompt
  <2>1. credited[o] \in Nat
      BY <1>1 DEF TypeOK
  <2>2. QED  BY <1>1, <1>2, <2>1 DEF OrderOK
<1>4. /\ status'[o] \in {status[o], "FAILED"} /\ money'[o] \in {"none", "open"}
      /\ UNCHANGED <<type, paidAt, code, audit, credited, overdue, prompt, blind, hurt>>
      /\ Fault \/ faults' = faults
    BY <1>1, <1>2 DEF Invoke, Set, TypeOK, Statuses
<1>5. OnlyRows(o)
    BY <1>1, <1>4 DEF Invoke, Set, OnlyRows, TypeOK, Statuses
<1>6. OrderOK(o)'
    BY <1>1, <1>2, <1>3, <1>4 DEF OrderOK
<1>7. Heedless(w, o)
    BY <1>1, <1>2, <1>4 DEF Heedless
<1>8. At(w, o, "invoke") /\ Return(w)
    BY DEF Invoke
<1>9. QED  BY <1>3, <1>4, <1>5, <1>6, <1>7, <1>8, ReturnStep

LEMMA QueryStep ==
    ASSUME Inv, NEW w \in Workers, NEW o \in Orders, QueryOrder(w, o) PROVE Inv'
<1>1. /\ TypeOK /\ OrderOK(o) /\ WorkerOK(worker[w]) /\ At(w, o, "query")
      /\ worker[w].pc = "query" /\ worker[w].order = o
      /\ Return(w) \/ \E next \in {"toPaid", "close", "update"} : Goto(w, next)
    BY Before DEF QueryOrder, At, NotPaid
<1>2. /\ UNCHANGED <<rows, env, hurt>> /\ blind' \in {blind, blind \cup {o}}
      /\ Fault \/ faults' = faults
    BY DEF QueryOrder
<1>3. OnlyRows(o) /\ OrderOK(o)' /\ Heedless(w, o)
    BY <1>2, StillOK
<1>4. status'[o] = status[o] /\ money'[o] = money[o]
    BY <1>2 DEF rows, env
<1>5. "query" \notin Fulfilling /\ "query" \notin Opening
    BY DEF Fulfilling, OfBalance, OfSub, Opening
<1>6. CASE Return(w)
    BY <1>1, <1>3, <1>4, <1>5, <1>6, ReturnStep
<1>7. ASSUME Goto(w, IF money[o] = "paid" THEN "toPaid" ELSE "close") PROVE Inv'
  <2>1. CASE money[o] = "paid"
    <3>1. Fits(w, o, "toPaid") /\ "toPaid" \in Places /\ "toPaid" \notin Fulfilling
        BY <1>4, <2>1 DEF Fits, Places, Opening, Paying, Fulfilling, OfBalance, OfSub
    <3>2. QED  BY <1>1, <1>3, <1>4, <1>5, <1>7, <2>1, <3>1, GotoStep
  <2>2. CASE money[o] # "paid"
    <3>1. Fits(w, o, "close") /\ "close" \in Places /\ "close" \notin Fulfilling
        BY <1>1, <2>2 DEF OrderOK, Fits, Places, Opening, Paying, Fulfilling, OfBalance, OfSub
    <3>2. QED  BY <1>1, <1>3, <1>4, <1>5, <1>7, <2>2, <3>1, GotoStep
  <2>3. QED  BY <2>1, <2>2
<1>8. ASSUME Goto(w, "update"), blind' = blind \cup {o}, worker[w].target # "" PROVE Inv'
  <2>1. Fits(w, o, "update") /\ "update" \in Places /\ "update" \notin Fulfilling
      BY <1>1, <1>8 DEF Fits, Places, Opening, Paying, Fulfilling, OfBalance, OfSub
  <2>2. QED  BY <1>1, <1>3, <1>4, <1>5, <1>8, <2>1, GotoStep
<1>9. QED  BY <1>6, <1>7, <1>8 DEF QueryOrder, NotPaid

LEMMA CancelPaymentStep ==
    ASSUME Inv, NEW w \in Workers, NEW o \in Orders, CancelPayment(w, o) PROVE Inv'
<1>1. /\ TypeOK /\ OrderOK(o) /\ WorkerOK(worker[w]) /\ At(w, o, "close")
      /\ worker[w].pc = "close" /\ worker[w].order = o
    BY Before DEF CancelPayment, At
<1>2. /\ UNCHANGED <<rows, hurt, blind, faults, prompt, overdue, lapsed>>
      /\ \/ money' = money
         \/ money[o] = "open" /\ money' = [money EXCEPT ![o] = "closed"]
    BY DEF CancelPayment
<1>3. money'[o] = money[o] \/ (money[o] = "open" /\ money'[o] = "closed")
    BY <1>1, <1>2 DEF TypeOK
<1>4. OnlyRows(o)
    BY <1>1, <1>2 DEF OnlyRows, TypeOK, rows
<1>5. OrderOK(o)'
    BY <1>1, <1>2, <1>3 DEF OrderOK, rows
<1>6. Heedless(w, o) /\ status'[o] = status[o]
    BY <1>2, <1>3 DEF Heedless, rows
<1>7. /\ worker[w].target # "" => Fits(w, o, "update")
      /\ "update" \in Places /\ "update" \notin Fulfilling /\ "close" \notin Fulfilling
    BY <1>1 DEF Fits, Places, Opening, Paying, Fulfilling, OfBalance, OfSub
<1>8. Return(w) \/ (Goto(w, "update") /\ worker[w].target # "")
    BY DEF CancelPayment, NotPaid
<1>9. CASE Return(w)
    BY <1>1, <1>4, <1>5, <1>6, <1>7, <1>9, ReturnStep
<1>10. CASE Goto(w, "update") /\ worker[w].target # ""
    BY <1>1, <1>4, <1>5, <1>6, <1>7, <1>10, GotoStep
<1>11. QED  BY <1>8, <1>9, <1>10

LEMMA UpdateStep ==
    ASSUME Inv, NEW w \in Workers, NEW o \in Orders, UpdateStatus(w, o) PROVE Inv'
<1>1. /\ TypeOK /\ OrderOK(o) /\ WorkerOK(worker[w]) /\ At(w, o, "update")
      /\ worker[w].pc = "update" /\ worker[w].order = o
      /\ worker[w].target \in {"", "CANCELLED", "EXPIRED"}
    BY Before DEF UpdateStatus, At
<1>2. worker[w].target # ""
    BY <1>1 DEF WorkerOK
<1>3. /\ Return(w)
      /\ UNCHANGED <<type, paidAt, code, audit, days, credited, env, blind, hurt>>
      /\ Fault \/ faults' = faults
      /\ \/ status' = status
         \/ status[o] = "PENDING" /\ status' = [status EXCEPT ![o] = worker[w].target]
    BY DEF UpdateStatus, Set
<1>4. \/ status'[o] = status[o]
      \/ status[o] = "PENDING" /\ status'[o] = worker[w].target
    BY <1>1, <1>3 DEF TypeOK
<1>5. OnlyRows(o)
  <2>1. status' \in [Orders -> Statuses]
      BY ZenonT(40), <1>1, <1>2, <1>3 DEF TypeOK, Statuses
  <2>2. QED  BY <1>1, <1>3, <2>1 DEF OnlyRows, TypeOK, env
<1>6. faults \in Nat /\ (faults' = 0 => faults = 0)
  <2>1. TypeOK /\ (Fault \/ faults' = faults)
      BY <1>1, <1>3
  <2>2. QED  BY <2>1, FaultsCount
<1>7. OrderOK(o)'
  <2>1. status'[o] = "EXPIRED" /\ status[o] # "EXPIRED" =>
            o \in overdue /\ (o \notin prompt \/ o \in blind)
      BY <1>1, <1>4 DEF WorkerOK
  <2>2. QED  BY <1>1, <1>2, <1>3, <1>4, <1>6, <2>1 DEF OrderOK, env
<1>8. Heedless(w, o)
    BY <1>1, <1>2, <1>3, <1>4 DEF Heedless, env
<1>9. "update" \notin Fulfilling
    BY DEF Fulfilling, OfBalance, OfSub
<1>10. status'[o] \in {"PAID", "RECHARGING"} => status'[o] = status[o]
    BY <1>1, <1>4
<1>11. QED  BY <1>1, <1>3, <1>5, <1>7, <1>8, <1>9, <1>10, ReturnStep

LEMMA ToPaidStep ==
    ASSUME Inv, NEW w \in Workers, NEW o \in Orders, ToPaid(w, o) PROVE Inv'
<1>1. /\ TypeOK /\ OrderOK(o) /\ WorkerOK(worker[w]) /\ At(w, o, "toPaid")
      /\ worker[w].pc = "toPaid" /\ worker[w].order = o
    BY Before DEF ToPaid, At
<1>2. money[o] = "paid"
    BY <1>1 DEF WorkerOK, Paying
<1>3. "toPaid" \notin Fulfilling /\ {"claim", "already"} \subseteq Places \ Fulfilling
    BY DEF Places, Fulfilling, OfBalance, OfSub
<1>4. CASE UNCHANGED <<status, paidAt>>
  <2>1. /\ UNCHANGED <<rows, env, hurt>> /\ blind' \in {blind, blind \cup {o}}
        /\ (Fault \/ faults' = faults) /\ (Goto(w, "already") \/ Return(w))
    <3>1. /\ UNCHANGED <<type, code, audit, days, credited, env, blind, hurt>>
          /\ (Fault \/ faults' = faults)
        BY DEF ToPaid
    <3>2. Goto(w, "already") \/ Return(w)
        BY <1>1, <1>4 DEF ToPaid, Payable, Set, TypeOK
    <3>3. QED  BY <1>4, <3>1, <3>2 DEF rows
  <2>2. OnlyRows(o) /\ OrderOK(o)' /\ Heedless(w, o) /\ status'[o] = status[o]
      BY <2>1, StillOK DEF rows
  <2>3. Fits(w, o, "already")
      BY <1>2, <2>1 DEF Fits, env, Opening, Paying, Fulfilling, OfBalance, OfSub
  <2>4. CASE Return(w)
      BY <1>1, <1>3, <2>2, <2>4, ReturnStep
  <2>5. CASE Goto(w, "already")
      BY <1>1, <1>3, <2>2, <2>3, <2>5, GotoStep
  <2>6. QED  BY <2>1, <2>4, <2>5
<1>5. ASSUME Payable(o), Set(o, "PAID"), paidAt' = paidAt \cup {o}, Goto(w, "claim"),
             faults' = faults
      PROVE  Inv'
  <2>1. /\ status[o] \in {"PENDING", "CANCELLED", "EXPIRED"} /\ status'[o] = "PAID"
        /\ UNCHANGED <<type, code, audit, days, credited, env, blind, hurt>>
      BY <1>1, <1>5 DEF ToPaid, Payable, Set, TypeOK
  <2>2. OnlyRows(o)
      BY <1>1, <1>5, <2>1 DEF OnlyRows, Set, TypeOK, Statuses, env
  <2>3. OrderOK(o)'
      BY <1>1, <1>2, <1>5, <2>1 DEF OrderOK, env
  <2>4. Heedless(w, o)
      BY <2>1 DEF Heedless, env
  <2>5. Fits(w, o, "claim")
      BY <1>2, <2>1 DEF Fits, env, Opening, Paying, Fulfilling, OfBalance, OfSub
  <2>6. QED  BY <1>1, <1>3, <1>5, <2>1, <2>2, <2>3, <2>4, <2>5, GotoStep
<1>6. QED  BY <1>4, <1>5 DEF ToPaid

LEMMA AlreadyStep ==
    ASSUME Inv, NEW w \in Workers, NEW o \in Orders, AlreadyProcessed(w, o) PROVE Inv'
<1>1. /\ TypeOK /\ WorkerOK(worker[w]) /\ At(w, o, "already")
      /\ worker[w].pc = "already" /\ worker[w].order = o
    BY Before DEF AlreadyProcessed, At
<1>2. money[o] = "paid"
    BY <1>1 DEF WorkerOK, Paying
<1>3. /\ UNCHANGED <<rows, env, hurt>> /\ blind' = blind /\ faults' = faults
      /\ status'[o] = status[o] /\ money'[o] = money[o]
      /\ Goto(w, "claim") \/ Return(w)
    BY DEF AlreadyProcessed, rows, env
<1>4. OnlyRows(o) /\ OrderOK(o)' /\ Heedless(w, o)
    BY <1>3, StillOK
<1>5. "already" \notin Fulfilling /\ "claim" \notin Fulfilling /\ "claim" \in Places
    BY DEF Places, Fulfilling, OfBalance, OfSub
<1>6. Fits(w, o, "claim")
    BY <1>2, <1>3 DEF Fits, Opening, Paying, Fulfilling, OfBalance, OfSub
<1>7. CASE Return(w)
    BY <1>1, <1>3, <1>4, <1>5, <1>7, ReturnStep
<1>8. CASE Goto(w, "claim")
    BY <1>1, <1>3, <1>4, <1>5, <1>6, <1>8, GotoStep
<1>9. QED  BY <1>3, <1>7, <1>8

LEMMA ResetStep ==
    ASSUME Inv, NEW w \in Workers, NEW o \in Orders, Reset(w, o) PROVE Inv'
<1>1. /\ TypeOK /\ OrderOK(o) /\ WorkerOK(worker[w]) /\ At(w, o, "reset")
      /\ worker[w].pc = "reset" /\ worker[w].order = o
    BY Before DEF Reset, At
<1>2. money[o] = "paid"
    BY <1>1 DEF WorkerOK, Paying
<1>3. /\ UNCHANGED <<type, paidAt, code, audit, days, credited, env, faults, blind, hurt>>
      /\ Goto(w, "claim")
      /\ \/ status[o] \in {"PAID", "FAILED"} /\ status' = [status EXCEPT ![o] = "PAID"]
         \/ status' = status
    BY DEF Reset, Set
<1>4. \/ status[o] \in {"PAID", "FAILED"} /\ status'[o] = "PAID"
      \/ status'[o] = status[o]
    BY <1>1, <1>3 DEF TypeOK
<1>5. OnlyRows(o)
    BY <1>1, <1>3 DEF OnlyRows, TypeOK, Statuses, env
<1>6. OrderOK(o)'
    BY <1>1, <1>2, <1>3, <1>4 DEF OrderOK, env
<1>7. Heedless(w, o)
    BY <1>1, <1>3, <1>4 DEF Heedless, env
<1>8. "reset" \notin Fulfilling /\ "claim" \notin Fulfilling /\ "claim" \in Places
    BY DEF Places, Fulfilling, OfBalance, OfSub
<1>9. Fits(w, o, "claim")
    BY <1>2, <1>3 DEF Fits, env, Opening, Paying, Fulfilling, OfBalance, OfSub
<1>10. QED  BY <1>1, <1>3, <1>4, <1>5, <1>6, <1>7, <1>8, <1>9, GotoStep

LEMMA ClaimStep ==
    ASSUME Inv, NEW w \in Workers, NEW o \in Orders, Claim(w, o) PROVE Inv'
<1>1. /\ TypeOK /\ OrderOK(o) /\ WorkerOK(worker[w]) /\ At(w, o, "claim")
      /\ worker[w].pc = "claim" /\ worker[w].order = o
    BY Before DEF Claim, At
<1>2. money[o] = "paid" /\ type[o] \in {"balance", "subscription"} /\ credited[o] \in Nat
    BY <1>1, OrdersAssumption DEF WorkerOK, Paying, TypeOK
<1>3. "claim" \notin Fulfilling
    BY DEF Fulfilling, OfBalance, OfSub
<1>4. CASE UNCHANGED status /\ Return(w)
  <2>1. /\ UNCHANGED <<rows, env>> /\ blind' \in {blind, blind \cup {o}}
        /\ (Fault \/ faults' = faults) /\ hurt' \in {hurt, hurt \cup {o}}
      BY <1>4 DEF Claim, rows
  <2>2. OnlyRows(o) /\ OrderOK(o)' /\ Heedless(w, o) /\ status'[o] = status[o]
      BY <2>1, StillOK DEF rows
  <2>3. status[o] = "PAID" => o \in hurt'
      BY <1>1, <1>4 DEF Claim, Claimable, Set, TypeOK
  <2>4. QED  BY <1>1, <1>3, <1>4, <2>2, <2>3, ReturnStep
<1>5. ASSUME Claimable(o), Set(o, "RECHARGING"), UNCHANGED <<faults, hurt>>,
             Goto(w, IF type[o] = "balance" THEN "lookup" ELSE "checkAudit")
      PROVE  Inv'
  <2>1. /\ status[o] \in {"PAID", "FAILED"} /\ status'[o] = "RECHARGING"
        /\ UNCHANGED <<type, paidAt, code, audit, days, credited, env, blind>>
      BY <1>1, <1>5 DEF Claim, Claimable, Set, TypeOK
  <2>2. OnlyRows(o)
      BY <1>1, <1>5, <2>1 DEF OnlyRows, Set, TypeOK, Statuses, env
  <2>3. OrderOK(o)'
      BY <1>1, <1>2, <1>5, <2>1 DEF OrderOK, env
  <2>4. Heedless(w, o)
      BY <2>1 DEF Heedless, env
  <2>5. faults' = 0 => credited'[o] = 0
      BY <1>1, <1>2, <1>5, <2>1 DEF OrderOK
  <2>6. /\ type[o] = "balance" => Fits(w, o, "lookup")
        /\ type[o] # "balance" => Fits(w, o, "checkAudit")
      BY <1>2, <2>1, <2>5 DEF Fits, env, Opening, Paying, Fulfilling, OfBalance, OfSub
  <2>7. {"lookup", "checkAudit"} \subseteq Places \cap Fulfilling
      BY DEF Places, Fulfilling, OfBalance, OfSub
  <2>8. CASE type[o] = "balance"
      BY <1>1, <1>5, <2>1, <2>2, <2>3, <2>4, <2>6, <2>7, <2>8, GotoStep
  <2>9. CASE type[o] # "balance"
      BY <1>1, <1>5, <2>1, <2>2, <2>3, <2>4, <2>6, <2>7, <2>9, GotoStep
  <2>10. QED  BY <2>8, <2>9
<1>6. QED  BY <1>4, <1>5 DEF Claim

\* A fulfilment that goes on: its status and its payment stay.
LEMMA FulfilStep ==
    ASSUME Inv, NEW w \in Workers, NEW o \in Orders, NEW pc, At(w, o, pc), pc \in Fulfilling,
           NEW next, next \in Fulfilling, Goto(w, next), OnlyRows(o),
           status' = status, money' = money, paidAt' = paidAt, audit' = audit, hurt' = hurt,
           \/ /\ credited'[o] = credited[o]
              /\ \/ code'[o] = code[o]
                 \/ code[o] = "none" /\ code'[o] = "unused"
           \/ /\ credited'[o] = credited[o] + 1
              /\ faults = 0 => credited[o] = 0
              /\ type[o] = "balance" => code[o] = "unused" /\ code'[o] = "used",
           next \in OfBalance => type[o] = "balance",
           next \in OfSub => type[o] = "subscription",
           next = "complete" => credited'[o] > 0,
           next # "complete" /\ faults' = 0 => credited'[o] = 0
    PROVE  Inv'
<1>1. /\ TypeOK /\ OrderOK(o) /\ WorkerOK(worker[w])
      /\ worker[w].pc = pc /\ worker[w].order = o
    BY Before DEF At
<1>2. /\ money[o] = "paid" /\ status[o] = "RECHARGING" /\ credited[o] \in Nat
      /\ code[o] \in {"none", "unused", "used"} /\ pc \in Paying
    BY <1>1 DEF WorkerOK, Paying, TypeOK
<1>3. faults \in Nat /\ (faults' = 0 => faults = 0)
  <2>1. TypeOK /\ (Fault \/ faults' = faults)
      BY <1>1 DEF OnlyRows
  <2>2. QED  BY <2>1, FaultsCount
<1>4. type' = type /\ prompt' = prompt /\ overdue' = overdue
    BY DEF OnlyRows
<1>5. OrderOK(o)'
    BY <1>1, <1>2, <1>3, <1>4 DEF OrderOK
<1>6. Heedless(w, o)
    BY <1>1 DEF Heedless
<1>7. next \in Places /\ next \notin Opening /\ next \notin {"close", "update"}
    BY DEF Places, Opening, Fulfilling, OfBalance, OfSub
<1>8. Fits(w, o, next)
    BY <1>2, <1>7 DEF Fits
<1>9. QED  BY <1>2, <1>5, <1>6, <1>7, <1>8, GotoStep

\* What is known when a fulfilment is at place pc.
LEMMA Fulfilment ==
    ASSUME Inv, NEW w \in Workers, NEW o \in Orders, NEW pc, At(w, o, pc), pc \in Fulfilling
    PROVE  /\ TypeOK /\ OrderOK(o) /\ credited[o] \in Nat /\ faults \in Nat
           /\ money[o] = "paid" /\ status[o] = "RECHARGING"
           /\ pc \in OfBalance => type[o] = "balance"
           /\ pc \in OfSub => type[o] = "subscription"
           /\ pc = "complete" => credited[o] > 0
           /\ pc # "complete" /\ faults = 0 => credited[o] = 0
<1>1. /\ TypeOK /\ OrderOK(o) /\ WorkerOK(worker[w])
      /\ worker[w].pc = pc /\ worker[w].order = o
    BY Before DEF At
<1>2. credited[o] \in Nat /\ faults \in Nat
    BY <1>1, OrdersAssumption DEF TypeOK
<1>3. QED  BY <1>1, <1>2 DEF WorkerOK, Paying

LEMMA LookupStep ==
    ASSUME Inv, NEW w \in Workers, NEW o \in Orders, Lookup(w, o) PROVE Inv'
<1>1. At(w, o, "lookup") /\ "lookup" \in OfBalance
      /\ {"lookup", "create", "redeem", "complete"} \subseteq Fulfilling
      /\ "complete" \notin OfBalance
      /\ {"create", "redeem", "complete"} \cap OfSub = {}
    BY DEF Lookup, Fulfilling, OfBalance, OfSub
<1>2. /\ TypeOK /\ OrderOK(o) /\ credited[o] \in Nat /\ type[o] = "balance"
      /\ faults = 0 => credited[o] = 0
    BY <1>1, Fulfilment
<1>3. /\ UNCHANGED <<rows, env, hurt>> /\ blind' = blind /\ (Fault \/ faults' = faults)
      /\ code[o] \in {"none", "unused", "used"}
    BY <1>2 DEF Lookup, TypeOK
<1>4. OnlyRows(o)
    BY <1>3, StillOK
<1>5. faults' = 0 => credited'[o] = 0
  <2>1. TypeOK /\ (Fault \/ faults' = faults)
      BY <1>2, <1>3
  <2>2. faults' = 0 => faults = 0
      BY <2>1, FaultsCount
  <2>3. QED  BY <1>2, <1>3, <2>2 DEF rows
<1>6. /\ status' = status /\ money' = money /\ paidAt' = paidAt /\ audit' = audit
      /\ hurt' = hurt /\ credited' = credited /\ code' = code
    BY <1>3 DEF rows, env
<1>7. CASE Goto(w, "create")
    BY <1>1, <1>2, <1>4, <1>5, <1>6, <1>7, FulfilStep
<1>8. CASE Goto(w, "redeem")
    BY <1>1, <1>2, <1>4, <1>5, <1>6, <1>8, FulfilStep
<1>9. CASE Goto(w, "complete") /\ code[o] = "used"
  <2>1. credited'[o] > 0
      BY <1>2, <1>6, <1>9 DEF OrderOK
  <2>2. QED  BY <1>1, <1>2, <1>4, <1>6, <1>9, <2>1, FulfilStep
<1>10. Goto(w, "create") \/ Goto(w, "redeem") \/ (Goto(w, "complete") /\ code[o] = "used")
    BY <1>3 DEF Lookup
<1>11. QED  BY <1>7, <1>8, <1>9, <1>10

LEMMA NoNewFault ==
    ASSUME TypeOK, Fault \/ faults' = faults
    PROVE  /\ faults \in Nat /\ (faults' = 0 => faults = 0) /\ (Fault => faults' # 0)
BY OrdersAssumption DEF TypeOK, Fault

LEMMA CreateStep ==
    ASSUME Inv, NEW w \in Workers, NEW o \in Orders, CreateCode(w, o) PROVE Inv'
<1>1. /\ At(w, o, "create") /\ "create" \in OfBalance
      /\ {"create", "redeem", "fail"} \subseteq Fulfilling
      /\ {"redeem", "fail"} \cap OfSub = {} /\ "fail" \notin OfBalance
    BY DEF CreateCode, Fulfilling, OfBalance, OfSub
<1>2. /\ TypeOK /\ OrderOK(o) /\ credited[o] \in Nat /\ type[o] = "balance"
      /\ faults = 0 => credited[o] = 0
    BY <1>1, Fulfilment
<1>3. /\ UNCHANGED <<type, status, paidAt, audit, days, credited, env, blind, hurt>>
      /\ Fault \/ faults' = faults
    BY DEF CreateCode
<1>4. \/ code' = code
      \/ code[o] = "none" /\ code' = [code EXCEPT ![o] = "unused"]
    BY DEF CreateCode
<1>5. OnlyRows(o)
  <2>1. Fault \/ faults' = faults
      BY <1>3
  <2>2. QED  BY <1>2, <1>3, <1>4, <2>1 DEF OnlyRows, TypeOK, env
<1>6. code'[o] = code[o] \/ (code[o] = "none" /\ code'[o] = "unused")
    BY <1>2, <1>4 DEF TypeOK
<1>7. faults' = 0 => credited'[o] = 0
  <2>1. TypeOK /\ (Fault \/ faults' = faults)
      BY <1>2, <1>3
  <2>2. faults' = 0 => faults = 0
      BY <2>1, NoNewFault
  <2>3. QED  BY <1>2, <1>3, <2>2
<1>8. status' = status /\ money' = money /\ paidAt' = paidAt /\ audit' = audit
      /\ hurt' = hurt /\ credited'[o] = credited[o]
    BY <1>3 DEF env
<1>9. CASE Goto(w, "redeem")
    BY <1>1, <1>2, <1>5, <1>6, <1>7, <1>8, <1>9, FulfilStep
<1>10. CASE Goto(w, "fail")
    BY <1>1, <1>2, <1>5, <1>6, <1>7, <1>8, <1>10, FulfilStep
<1>11. Goto(w, "redeem") \/ Goto(w, "fail")
    BY DEF CreateCode
<1>12. QED  BY <1>9, <1>10, <1>11

LEMMA RedeemStep ==
    ASSUME Inv, NEW w \in Workers, NEW o \in Orders, Redeem(w, o) PROVE Inv'
<1>1. /\ At(w, o, "redeem") /\ "redeem" \in OfBalance
      /\ {"redeem", "complete", "fail"} \subseteq Fulfilling
      /\ {"complete", "fail"} \cap (OfSub \cup OfBalance) = {}
    BY DEF Redeem, Fulfilling, OfBalance, OfSub
<1>2. /\ TypeOK /\ OrderOK(o) /\ credited[o] \in Nat /\ type[o] = "balance"
      /\ faults = 0 => credited[o] = 0
    BY <1>1, Fulfilment
<1>3. /\ UNCHANGED <<type, status, paidAt, audit, days, env, blind, hurt>>
      /\ Fault \/ faults' = faults
    BY DEF Redeem
<1>4. \/ code' = code /\ credited' = credited
      \/ /\ code[o] = "unused" /\ code' = [code EXCEPT ![o] = "used"]
         /\ credited' = [credited EXCEPT ![o] = @ + 1]
    BY DEF Redeem, Credit
<1>5. OnlyRows(o)
  <2>1. Fault \/ faults' = faults
      BY <1>3
  <2>2. credited' \in [Orders -> Nat] /\ \A p \in Orders \ {o} : credited'[p] = credited[p]
      BY <1>2, <1>4 DEF TypeOK
  <2>3. QED  BY <1>2, <1>3, <1>4, <2>1, <2>2 DEF OnlyRows, TypeOK, env
<1>6. \/ code'[o] = code[o] /\ credited'[o] = credited[o]
      \/ code[o] = "unused" /\ code'[o] = "used" /\ credited'[o] = credited[o] + 1
    BY <1>2, <1>4 DEF TypeOK
<1>7. status' = status /\ money' = money /\ paidAt' = paidAt /\ audit' = audit
      /\ hurt' = hurt
    BY <1>3 DEF env
<1>8. /\ (Fault => faults' # 0) /\ (faults' = 0 => faults = 0)
  <2>1. TypeOK /\ (Fault \/ faults' = faults)
      BY <1>2, <1>3
  <2>2. QED  BY <2>1, NoNewFault
<1>9. \/ Goto(w, "complete") /\ credited'[o] > 0
      \/ Goto(w, "fail") /\ (faults' = 0 => credited'[o] = 0)
  <2>1. code[o] # "unused" => code[o] = "used" \/ code[o] = "none"
      BY <1>2 DEF TypeOK
  <2>2. CASE code[o] = "unused" /\ credited'[o] = credited[o] + 1
    <3>1. Goto(w, "complete") \/ (Goto(w, "fail") /\ (Fault \/ credited' = credited))
        BY <2>2 DEF Redeem
    <3>2. QED  BY <1>2, <1>8, <2>2, <3>1
  <2>3. CASE credited'[o] = credited[o]
    <3>1. Goto(w, "fail")
      <4>1. credited[o] # credited[o] + 1
          BY <1>2
      <4>2. Credit(o) => credited'[o] = credited[o] + 1
          BY <1>2 DEF Credit, TypeOK
      <4>3. QED  BY <2>3, <4>1, <4>2 DEF Redeem
    <3>2. QED  BY <1>2, <1>8, <2>3, <3>1
  <2>4. QED  BY <1>6, <2>2, <2>3
<1>10. CASE Goto(w, "complete") /\ credited'[o] > 0
    BY <1>1, <1>2, <1>5, <1>6, <1>7, <1>10, FulfilStep
<1>11. CASE Goto(w, "fail") /\ (faults' = 0 => credited'[o] = 0)
    BY <1>1, <1>2, <1>5, <1>6, <1>7, <1>11, FulfilStep
<1>12. QED  BY <1>9, <1>10, <1>11

LEMMA CheckAuditStep ==
    ASSUME Inv, NEW w \in Workers, NEW o \in Orders, CheckAudit(w, o) PROVE Inv'
<1>1. /\ At(w, o, "checkAudit") /\ "checkAudit" \in OfSub
      /\ {"checkAudit", "readSub", "complete", "fail"} \subseteq Fulfilling
      /\ {"readSub", "complete", "fail"} \cap OfBalance = {}
      /\ "complete" \notin OfSub /\ "fail" \notin OfSub
    BY DEF CheckAudit, Fulfilling, OfBalance, OfSub
<1>2. /\ TypeOK /\ OrderOK(o) /\ credited[o] \in Nat /\ type[o] = "subscription"
      /\ faults = 0 => credited[o] = 0
    BY <1>1, Fulfilment
<1>3. /\ UNCHANGED <<rows, env, hurt>> /\ blind' = blind /\ (Fault \/ faults' = faults)
    BY DEF CheckAudit
<1>4. OnlyRows(o)
    BY <1>3, StillOK
<1>5. faults' = 0 => credited'[o] = 0
  <2>1. TypeOK /\ (Fault \/ faults' = faults)
      BY <1>2, <1>3
  <2>2. faults' = 0 => faults = 0
      BY <2>1, NoNewFault
  <2>3. QED  BY <1>2, <1>3, <2>2 DEF rows
<1>6. /\ status' = status /\ money' = money /\ paidAt' = paidAt /\ audit' = audit
      /\ hurt' = hurt /\ credited' = credited /\ code' = code
    BY <1>3 DEF rows, env
<1>7. CASE Goto(w, "readSub")
    BY <1>1, <1>2, <1>4, <1>5, <1>6, <1>7, FulfilStep
<1>8. CASE Goto(w, "fail")
    BY <1>1, <1>2, <1>4, <1>5, <1>6, <1>8, FulfilStep
<1>9. CASE Goto(w, "complete") /\ o \in audit
  <2>1. credited'[o] > 0
      BY <1>2, <1>6, <1>9 DEF OrderOK
  <2>2. QED  BY <1>1, <1>2, <1>4, <1>6, <1>9, <2>1, FulfilStep
<1>10. Goto(w, "readSub") \/ Goto(w, "fail") \/ (Goto(w, "complete") /\ o \in audit)
    BY DEF CheckAudit
<1>11. QED  BY <1>7, <1>8, <1>9, <1>10

LEMMA ReadSubStep ==
    ASSUME Inv, NEW w \in Workers, NEW o \in Orders, ReadSub(w, o) PROVE Inv'
<1>1. /\ At(w, o, "readSub") /\ "readSub" \in OfSub /\ "writeSub" \in OfSub
      /\ {"readSub", "writeSub"} \subseteq Fulfilling \cap Paying \cap Places
      /\ "writeSub" \notin OfBalance \cup Opening
    BY DEF ReadSub, Paying, Fulfilling, OfBalance, OfSub, Opening, Places
<1>2. /\ TypeOK /\ OrderOK(o) /\ credited[o] \in Nat /\ type[o] = "subscription"
      /\ money[o] = "paid" /\ status[o] = "RECHARGING" /\ (faults = 0 => credited[o] = 0)
      /\ worker[w].order = o
  <2>1. worker[w].order = o
      BY <1>1 DEF At
  <2>2. QED  BY <1>1, <2>1, Fulfilment
<1>3. /\ UNCHANGED <<rows, env, hurt>> /\ blind' = blind /\ (Fault \/ faults' = faults)
      /\ status' = status /\ money' = money /\ credited' = credited
    BY DEF ReadSub, rows, env
<1>4. OnlyRows(o) /\ OrderOK(o)' /\ Heedless(w, o)
    BY <1>3, StillOK
<1>5. faults' = 0 => credited'[o] = 0
  <2>1. TypeOK /\ (Fault \/ faults' = faults)
      BY <1>2, <1>3
  <2>2. faults' = 0 => faults = 0
      BY <2>1, NoNewFault
  <2>3. QED  BY <1>2, <1>3, <2>2
<1>6. /\ worker' \in [Workers -> Worker]
      /\ \A v \in Workers \ {w} : worker'[v] = worker[v]
      /\ worker'[w].pc = "writeSub" /\ worker'[w].order = worker[w].order
      /\ worker'[w].target = worker[w].target
  <2>1. CASE Goto(w, "writeSub")
      BY <1>2, <2>1, GotoMoves
  <2>2. CASE worker' = [worker EXCEPT ![w].pc = "writeSub", ![w].seen = days]
    <3> DEFINE r == [worker[w] EXCEPT !.pc = "writeSub", !.seen = days]
    <3>1. worker \in [Workers -> Worker] /\ worker[w] \in Worker /\ days \in Nat
        BY <1>2 DEF TypeOK
    <3>2. r \in Worker /\ r.pc = "writeSub" /\ r.order = worker[w].order
          /\ r.target = worker[w].target
        BY <3>1 DEF Worker
    <3>3. worker' = [worker EXCEPT ![w] = r]
        BY <2>2
    <3> HIDE DEF r
    <3>4. QED  BY <3>1, <3>2, <3>3
  <2>3. QED  BY <2>1, <2>2 DEF ReadSub
<1>7. Fits(w, o, "writeSub")
    BY <1>1, <1>2, <1>3, <1>5 DEF Fits
<1>8. QED  BY <1>1, <1>2, <1>3, <1>4, <1>6, <1>7, GoStep

LEMMA WriteSubStep ==
    ASSUME Inv, NEW w \in Workers, NEW o \in Orders, WriteSub(w, o) PROVE Inv'
<1>1. /\ At(w, o, "writeSub") /\ "writeSub" \in OfSub
      /\ {"writeSub", "complete", "fail"} \subseteq Fulfilling
      /\ {"complete", "fail"} \cap (OfSub \cup OfBalance) = {}
    BY DEF WriteSub, Fulfilling, OfBalance, OfSub
<1>2. /\ TypeOK /\ credited[o] \in Nat /\ type[o] = "subscription"
      /\ faults = 0 => credited[o] = 0
    BY <1>1, Fulfilment
<1>3. /\ UNCHANGED <<type, status, paidAt, code, audit, env, blind, hurt>>
      /\ Fault \/ faults' = faults
    BY DEF WriteSub
<1>4. \/ credited' = credited
      \/ credited' = [credited EXCEPT ![o] = @ + 1]
    BY DEF WriteSub, Credit
<1>5. OnlyRows(o)
  <2>1. Fault \/ faults' = faults
      BY <1>3
  <2>2. credited' \in [Orders -> Nat] /\ \A p \in Orders \ {o} : credited'[p] = credited[p]
      BY <1>2, <1>4 DEF TypeOK
  <2>3. days' \in Nat
    <3>1. worker[w] \in Worker
        BY <1>2 DEF TypeOK
    <3>2. worker[w].seen \in Nat
        BY <3>1 DEF Worker
    <3>3. worker[w].seen + 1 \in Nat /\ days \in Nat
        BY <1>2, <3>2 DEF TypeOK
    <3>4. days' = days \/ days' = worker[w].seen + 1
        BY DEF WriteSub
    <3>5. QED  BY <3>3, <3>4
  <2>4. QED  BY <1>2, <1>3, <2>1, <2>2, <2>3 DEF OnlyRows, TypeOK, env
<1>6. credited'[o] = credited[o] \/ credited'[o] = credited[o] + 1
    BY <1>2, <1>4 DEF TypeOK
<1>7. status' = status /\ money' = money /\ paidAt' = paidAt /\ audit' = audit
      /\ hurt' = hurt /\ code' = code
    BY <1>3 DEF env
<1>8. /\ (Fault => faults' # 0) /\ (faults' = 0 => faults = 0)
  <2>1. TypeOK /\ (Fault \/ faults' = faults)
      BY <1>2, <1>3
  <2>2. QED  BY <2>1, NoNewFault
<1>9. \/ Goto(w, "complete") /\ credited'[o] > 0
      \/ Goto(w, "fail") /\ (faults' = 0 => credited'[o] = 0)
  <2>1. CASE credited'[o] = credited[o] + 1
    <3>1. Goto(w, "complete") \/ (Goto(w, "fail") /\ (Fault \/ credited' = credited))
        BY DEF WriteSub
    <3>2. QED  BY <1>2, <1>8, <2>1, <3>1
  <2>2. CASE credited'[o] = credited[o]
    <3>1. Goto(w, "fail")
      <4>1. credited[o] # credited[o] + 1
          BY <1>2
      <4>2. Credit(o) => credited'[o] = credited[o] + 1
          BY <1>2 DEF Credit, TypeOK
      <4>3. QED  BY <2>2, <4>1, <4>2 DEF WriteSub
    <3>2. QED  BY <1>2, <1>8, <2>2, <3>1
  <2>3. QED  BY <1>6, <2>1, <2>2
<1>10. CASE Goto(w, "complete") /\ credited'[o] > 0
    BY <1>1, <1>2, <1>5, <1>6, <1>7, <1>10, FulfilStep
<1>11. CASE Goto(w, "fail") /\ (faults' = 0 => credited'[o] = 0)
    BY <1>1, <1>2, <1>5, <1>6, <1>7, <1>11, FulfilStep
<1>12. QED  BY <1>9, <1>10, <1>11

LEMMA CompleteStep ==
    ASSUME Inv, NEW w \in Workers, NEW o \in Orders, MarkCompleted(w, o) PROVE Inv'
<1>1. /\ At(w, o, "complete") /\ worker[w].pc = "complete" /\ worker[w].order = o
      /\ {"complete", "fail"} \subseteq Fulfilling
      /\ {"complete", "fail"} \cap (OfSub \cup OfBalance) = {}
    BY DEF MarkCompleted, At, Fulfilling, OfBalance, OfSub
<1>2. /\ TypeOK /\ OrderOK(o) /\ credited[o] \in Nat /\ credited[o] > 0
      /\ money[o] = "paid" /\ status[o] = "RECHARGING"
    BY <1>1, Fulfilment
<1>3. /\ UNCHANGED <<type, paidAt, code, days, credited, env, blind, hurt>>
      /\ Fault \/ faults' = faults
    BY DEF MarkCompleted
<1>4. /\ (Fault => faults' # 0) /\ (faults' = 0 => faults = 0)
  <2>1. TypeOK /\ (Fault \/ faults' = faults)
      BY <1>2, <1>3
  <2>2. QED  BY <2>1, NoNewFault
<1>5. CASE Fault /\ Goto(w, "fail") /\ UNCHANGED <<status, audit>>
  <2>1. OnlyRows(o)
    <3>1. UNCHANGED <<rows, env, hurt>> /\ blind' = blind /\ (Fault \/ faults' = faults)
        BY <1>3, <1>5 DEF rows
    <3>2. QED  BY <3>1, StillOK
  <2>2. /\ status' = status /\ money' = money /\ paidAt' = paidAt /\ audit' = audit
        /\ hurt' = hurt /\ code' = code /\ credited' = credited /\ faults' # 0
      BY <1>3, <1>4, <1>5 DEF env
  <2>3. Goto(w, "fail")
      BY <1>5
  <2>4. QED  BY <1>1, <2>1, <2>2, <2>3, FulfilStep
<1>6. ASSUME Set(o, "COMPLETED"), audit' \in {audit, audit \cup {o}}, Return(w) PROVE Inv'
  <2>1. status'[o] = "COMPLETED" /\ status' \in [Orders -> Statuses]
      BY <1>2, <1>6 DEF Set, TypeOK, Statuses
  <2>2. OnlyRows(o)
    <3>1. Fault \/ faults' = faults
        BY <1>3
    <3>2. \A p \in Orders \ {o} : status'[p] = status[p]
        BY <1>2, <1>6 DEF Set, TypeOK
    <3>3. QED  BY <1>2, <1>3, <1>6, <2>1, <3>1, <3>2 DEF OnlyRows, TypeOK, env
  <2>3. OrderOK(o)'
      BY <1>2, <1>3, <1>4, <1>6, <2>1 DEF OrderOK, env
  <2>4. Heedless(w, o)
      BY <1>1, <1>3, <2>1 DEF Heedless, env
  <2>5. QED  BY <1>1, <1>6, <2>1, <2>2, <2>3, <2>4, ReturnStep
<1>7. QED  BY <1>2, <1>5, <1>6 DEF MarkCompleted

LEMMA FailStep ==
    ASSUME Inv, NEW w \in Workers, NEW o \in Orders, MarkFailed(w, o) PROVE Inv'
<1>1. /\ At(w, o, "fail") /\ worker[w].pc = "fail" /\ worker[w].order = o
      /\ "fail" \in Fulfilling
    BY DEF MarkFailed, At, Fulfilling
<1>2. /\ TypeOK /\ OrderOK(o) /\ credited[o] \in Nat
      /\ money[o] = "paid" /\ status[o] = "RECHARGING" /\ (faults = 0 => credited[o] = 0)
    BY <1>1, Fulfilment
<1>3. /\ UNCHANGED <<type, paidAt, code, audit, days, credited, env, blind>> /\ Return(w)
    BY DEF MarkFailed
<1>4. CASE Fault /\ hurt' = hurt \cup {o} /\ UNCHANGED status
  <2>1. UNCHANGED <<rows, env>> /\ blind' = blind /\ (Fault \/ faults' = faults)
        /\ hurt' = hurt \cup {o} /\ o \in hurt'
      BY <1>3, <1>4 DEF rows
  <2>2. OnlyRows(o) /\ OrderOK(o)' /\ Heedless(w, o)
      BY <2>1, StillOK
  <2>3. QED  BY <1>1, <1>3, <2>1, <2>2, ReturnStep
<1>5. ASSUME Set(o, "FAILED"), UNCHANGED <<faults, hurt>> PROVE Inv'
  <2>1. status'[o] = "FAILED" /\ status' \in [Orders -> Statuses]
      BY <1>2, <1>5 DEF Set, TypeOK, Statuses
  <2>2. OnlyRows(o)
    <3>1. \A p \in Orders \ {o} : status'[p] = status[p]
        BY <1>2, <1>5 DEF Set, TypeOK
    <3>2. QED  BY <1>2, <1>3, <1>5, <2>1, <3>1 DEF OnlyRows, TypeOK, env
  <2>3. OrderOK(o)'
      BY <1>2, <1>3, <1>5, <2>1 DEF OrderOK, env
  <2>4. Heedless(w, o)
      BY <1>1, <1>3, <2>1 DEF Heedless, env
  <2>5. QED  BY <1>1, <1>3, <2>1, <2>2, <2>3, <2>4, ReturnStep
<1>6. QED  BY <1>2, <1>4, <1>5 DEF MarkFailed

LEMMA CrashStep ==
    ASSUME Inv, NEW w \in Workers, Crash(w) PROVE Inv'
<1>1. worker[w].order \in Orders
  <2>1. worker[w] \in Worker /\ WorkerOK(worker[w])
      BY DEF Inv, TypeOK, WorkersOK
  <2>2. QED  BY <2>1 DEF Worker, WorkerOK, Crash
<1>2. PICK o \in Orders : worker[w].order = o
    BY <1>1
<1>3. PICK pc : worker[w].pc = pc
    OBVIOUS
<1>4. UNCHANGED <<rows, env>> /\ blind' = blind /\ (Fault \/ faults' = faults)
      /\ hurt' = hurt \cup {o} /\ o \in hurt' /\ Return(w) /\ At(w, o, pc)
    BY <1>2, <1>3 DEF Crash, At
<1>5. OnlyRows(o) /\ OrderOK(o)' /\ Heedless(w, o)
    BY <1>4, StillOK
<1>6. QED  BY <1>4, <1>5, ReturnStep

LEMMA EnvironmentStep ==
    ASSUME Inv, NEW o \in Orders, Pay(o) \/ ExpiresAtPasses(o) \/ GracePasses(o) PROVE Inv'
<1>1. TypeOK /\ OrderOK(o) /\ Carried(o)
    BY DEF Inv, OrdersOK, AllCarried
<1>2. /\ UNCHANGED <<rows, worker, faults, blind, hurt>> /\ overdue \subseteq overdue'
      /\ \/ money' = money /\ prompt' = prompt
         \/ /\ money[o] = "open" /\ money' = [money EXCEPT ![o] = "paid"]
            /\ \/ prompt' = prompt
               \/ o \notin overdue /\ overdue' = overdue /\ prompt' = prompt \cup {o}
    BY DEF Pay, ExpiresAtPasses, GracePasses
<1>3. overdue' \in {overdue, overdue \cup {o}} /\ lapsed' \in {lapsed, lapsed \cup {o}}
    BY DEF Pay, ExpiresAtPasses, GracePasses
<1>4. \/ money'[o] = money[o] /\ prompt' = prompt
      \/ /\ money[o] = "open" /\ money'[o] = "paid"
         /\ \/ prompt' = prompt
            \/ o \notin overdue /\ overdue' = overdue /\ prompt' = prompt \cup {o}
    BY <1>1, <1>2 DEF TypeOK
<1>5. TypeOK'
    BY <1>1, <1>2, <1>3 DEF TypeOK, rows
<1>6. Elsewhere(o)
  <2>1. faults \in Nat
      BY <1>1, OrdersAssumption DEF TypeOK
  <2>2. QED  BY <1>1, <1>2, <2>1 DEF Elsewhere, TypeOK, rows
<1>7. OrderOK(o)'
    BY <1>1, <1>2, <1>4 DEF OrderOK, rows
<1>8. Carried(o)'
    BY <1>1, <1>2 DEF Carried, rows, At
<1>9. ASSUME NEW v \in Workers, worker[v].order = o PROVE WorkerOK(worker[v])'
  <2>1. WorkerOK(worker[v])
      BY DEF Inv, WorkersOK
  <2>2. worker[v].target = "EXPIRED" /\ worker[v].pc \in {"query", "close", "update"} =>
            o \in overdue
      BY <1>9, <2>1 DEF WorkerOK
  <2>3. QED  BY ZenonT(40), <1>2, <1>4, <1>9, <2>1, <2>2 DEF WorkerOK, rows
<1>10. QED  BY <1>2, <1>5, <1>6, <1>7, <1>8, <1>9, EnvStep

LEMMA StutterStep == ASSUME Inv, UNCHANGED vars PROVE Inv'
<1>1. /\ UNCHANGED <<type, status, paidAt, code, audit, days, credited>>
      /\ UNCHANGED <<money, overdue, lapsed, prompt>>
      /\ UNCHANGED <<worker, faults, blind, hurt>>
    BY DEF vars, rows, env
<1>2. TypeOK' /\ WorkersOK'
    BY ZenonT(40), <1>1 DEF Inv, TypeOK, WorkersOK, WorkerOK
<1>3. OrdersOK' /\ AllCarried' /\ OneWorker'
    BY <1>1 DEF Inv, OrdersOK, OrderOK, AllCarried, Carried, At, OneWorker, Together
<1>4. QED  BY <1>2, <1>3 DEF Inv

LEMMA NextInv == Inv /\ [Next]_vars => Inv'
<1> SUFFICES ASSUME Inv, [Next]_vars PROVE Inv'
    OBVIOUS
<1>1. CASE UNCHANGED vars
    BY <1>1, StutterStep
<1>2. CASE Environment
    BY <1>2, EnvironmentStep DEF Environment
<1>3. ASSUME NEW w \in Workers, NEW o \in Orders, Step(w, o) PROVE Inv'
    BY <1>3, InsertStep, InvokeStep, QueryStep, CancelPaymentStep, UpdateStep, ToPaidStep,
       AlreadyStep, ResetStep, ClaimStep, LookupStep, CreateStep, RedeemStep, CheckAuditStep,
       ReadSubStep, WriteSubStep, CompleteStep, FailStep DEF Step
<1>4. QED  BY <1>1, <1>2, <1>3, RequestStep, CrashStep DEF Next

LEMMA Invariance == Spec => []Inv
BY InitInv, NextInv, PTL DEF Spec

-----------------------------------------------------------------------------
(* What follows. *)

\* A balance order is credited once: its redeem code is the key, and only
\* the step that turns the code from unused to used credits.
THEOREM CreditsABalanceOnce == Spec => []BalanceCreditedOnce
<1>1. Inv => BalanceCreditedOnce
    BY DEF Inv, OrdersOK, OrderOK, BalanceCreditedOnce
<1>2. QED  BY <1>1, Invariance, PTL

\* No order is credited that the provider was not paid for.
THEOREM CreditsThePaid == Spec => []CreditNeedsPayment
<1>1. Inv => CreditNeedsPayment
    BY DEF Inv, OrdersOK, OrderOK, CreditNeedsPayment
<1>2. QED  BY <1>1, Invariance, PTL

\* What the status of an order says is so: a completed order was credited, one
\* that nobody works on and nobody can take up was hurt by a fault, one that
\* was paid in time and expired had a blind query, and without a fault no
\* order is granted twice.
THEOREM StatusesAreSound == Spec => []OrdersSound
<1>1. ASSUME Inv PROVE OrdersSound
  <2>1. TypeOK /\ CompletedWasCredited
      BY <1>1 DEF Inv, OrdersOK, OrderOK, CompletedWasCredited
  <2>2. StrandedOnlyByFault
      BY <1>1 DEF Inv, AllCarried, Carried, StrandedOnlyByFault, Stranded, Busy, At
  <2>3. PromptPaymentLostOnlyIfBlind
    <3>1. \A o \in prompt : o \in Orders
        BY <2>1 DEF TypeOK
    <3>2. QED  BY <1>1, <3>1 DEF Inv, OrdersOK, OrderOK, PromptPaymentLostOnlyIfBlind
  <2>4. GrantedTwiceOnlyAfterFault
    <3>1. faults \in Nat /\ \A o \in Orders : credited[o] \in Nat
        BY <2>1, OrdersAssumption DEF TypeOK
    <3>2. QED  BY <1>1, <3>1 DEF Inv, OrdersOK, OrderOK, GrantedTwiceOnlyAfterFault
  <2>5. QED  BY <2>1, <2>2, <2>3, <2>4 DEF OrdersSound
<1>2. QED  BY <1>1, Invariance, PTL

-----------------------------------------------------------------------------
(* What no step undoes. *)

LEMMA PaidAtGrows == ASSUME [Next]_vars PROVE paidAt \subseteq paidAt'
<1>1. CASE UNCHANGED vars \/ Environment
    BY <1>1 DEF vars, rows, Environment, Pay, ExpiresAtPasses, GracePasses
<1>2. ASSUME NEW w \in Workers, Crash(w) PROVE paidAt' = paidAt
    BY <1>2 DEF Crash, rows
<1>3. ASSUME NEW w \in Workers, NEW o \in Orders, Request(w, o) PROVE paidAt' = paidAt
    BY <1>3 DEF Request, CheckPendingLimit, CancelOrder, ExpireTimedOutOrder, VerifyOrder,
               Notify, RetryFulfillment, rows
<1>4. ASSUME NEW w \in Workers, NEW o \in Orders, Step(w, o) PROVE paidAt \subseteq paidAt'
  <2>1. CASE Insert(w, o) \/ Invoke(w, o) \/ QueryOrder(w, o) \/ CancelPayment(w, o)
             \/ UpdateStatus(w, o) \/ ToPaid(w, o) \/ AlreadyProcessed(w, o) \/ Reset(w, o)
      BY <2>1 DEF Insert, Invoke, QueryOrder, CancelPayment, UpdateStatus, ToPaid,
                  AlreadyProcessed, Reset, rows
  <2>2. CASE Claim(w, o) \/ Lookup(w, o) \/ CreateCode(w, o) \/ Redeem(w, o)
      BY <2>2 DEF Claim, Lookup, CreateCode, Redeem, rows
  <2>3. CASE CheckAudit(w, o) \/ ReadSub(w, o) \/ WriteSub(w, o) \/ MarkCompleted(w, o)
             \/ MarkFailed(w, o)
      BY <2>3 DEF CheckAudit, ReadSub, WriteSub, MarkCompleted, MarkFailed, rows
  <2>4. QED  BY <1>4, <2>1, <2>2, <2>3 DEF Step
<1>5. QED  BY <1>1, <1>2, <1>3, <1>4 DEF Next

\* A payment that was recorded is not undone by a cancel or an expiry.
THEOREM PaidStaysOpen == Spec => PaidIsNotClosed
<1>1. ASSUME Inv', [Next]_vars, NEW o \in Orders, o \in paidAt
      PROVE  status'[o] \notin {"PENDING", "CANCELLED", "EXPIRED"}
  <2>1. o \in paidAt'
      BY <1>1, PaidAtGrows
  <2>2. QED  BY <1>1, <2>1 DEF Inv, OrdersOK, OrderOK
<1>2. Inv' /\ [Next]_vars =>
          [\A o \in Orders : o \in paidAt =>
               status'[o] \notin {"PENDING", "CANCELLED", "EXPIRED"}]_vars
    BY <1>1
<1>3. QED  BY <1>2, Invariance, PTL DEF Spec, PaidIsNotClosed

LEMMA StatusSteps ==
    ASSUME Inv, Next, NEW o \in Orders
    PROVE  status' = status \/ \E w \in Workers, p \in Orders, s \in Statuses :
               /\ worker[w].order = p /\ status' = [status EXCEPT ![p] = s]
               /\ \/ worker[w].pc \in {"insert", "invoke"}
                  \/ status[p] # "COMPLETED"
<1>1. CASE Environment
    BY <1>1 DEF Environment, Pay, ExpiresAtPasses, GracePasses, rows
<1>2. ASSUME NEW w \in Workers, Crash(w) PROVE status' = status
    BY <1>2 DEF Crash, rows
<1>3. ASSUME NEW w \in Workers, NEW p \in Orders, Request(w, p) PROVE status' = status
    BY <1>3 DEF Request, CheckPendingLimit, CancelOrder, ExpireTimedOutOrder, VerifyOrder,
               Notify, RetryFulfillment, rows
<1>4. ASSUME NEW w \in Workers, NEW p \in Orders, Step(w, p)
      PROVE  \/ status' = status
             \/ \E s \in Statuses :
                 /\ worker[w].order = p /\ status' = [status EXCEPT ![p] = s]
                 /\ worker[w].pc \in {"insert", "invoke"} \/ status[p] # "COMPLETED"
  <2>1. worker[w].target \in {"", "CANCELLED", "EXPIRED"}
      BY Before
  <2>2. WorkerOK(worker[w])
      BY DEF Inv, WorkersOK
  <2>3. CASE UpdateStatus(w, p)
    <3>1. worker[w].target # ""
        BY <2>2, <2>3 DEF UpdateStatus, At, WorkerOK
    <3>2. worker[w].target \in Statuses
        BY <2>1, <3>1 DEF Statuses
    <3>3. QED  BY <2>3, <3>2 DEF UpdateStatus, At, Set
  <2>4. CASE Insert(w, p) \/ Invoke(w, p)
      BY <2>4 DEF Insert, Invoke, At, Set, Statuses
  <2>5. CASE ToPaid(w, p) \/ Reset(w, p) \/ Claim(w, p)
      BY <2>5 DEF ToPaid, Payable, Reset, Claim, Claimable, At, Set, Statuses
  <2>6. CASE MarkCompleted(w, p) \/ MarkFailed(w, p)
      BY <2>6 DEF MarkCompleted, MarkFailed, At, Set, Statuses
  <2>7. CASE QueryOrder(w, p) \/ CancelPayment(w, p) \/ AlreadyProcessed(w, p)
      BY <2>7 DEF QueryOrder, CancelPayment, AlreadyProcessed, rows
  <2>8. CASE Lookup(w, p) \/ CreateCode(w, p) \/ Redeem(w, p) \/ CheckAudit(w, p)
             \/ ReadSub(w, p) \/ WriteSub(w, p)
      BY <2>8 DEF Lookup, CreateCode, Redeem, CheckAudit, ReadSub, WriteSub, rows
  <2>9. QED  BY <1>4, <2>3, <2>4, <2>5, <2>6, <2>7, <2>8 DEF Step
<1>5. QED  BY <1>1, <1>2, <1>3, <1>4 DEF Next

\* A completed order stays completed: the worker that creates an order is
\* done before it is paid, and every other update of the status has a guard
\* that a completed order does not meet.
THEOREM CompletedIsFinal == Spec => CompletedStays
<1>1. ASSUME Inv, [Next]_vars, NEW o \in Orders, status[o] = "COMPLETED"
      PROVE  status'[o] = "COMPLETED"
  <2>1. CASE status' = status
      BY <1>1, <2>1
  <2>2. ASSUME NEW w \in Workers, NEW p \in Orders, NEW s \in Statuses,
               worker[w].order = p, status' = [status EXCEPT ![p] = s],
               worker[w].pc \in {"insert", "invoke"} \/ status[p] # "COMPLETED"
        PROVE  status'[o] = "COMPLETED"
    <3>1. p # o
      <4>1. WorkerOK(worker[w]) /\ OrderOK(o)
          BY <1>1 DEF Inv, WorkersOK, OrdersOK
      <4>2. QED  BY <1>1, <2>2, <4>1 DEF WorkerOK, OrderOK, Opening
    <3>2. status \in [Orders -> Statuses]
        BY <1>1 DEF Inv, TypeOK
    <3>3. QED  BY <1>1, <2>2, <3>1, <3>2
  <2>3. status' = status \/ Next
      BY <1>1 DEF vars, rows
  <2>4. QED  BY <1>1, <2>1, <2>2, <2>3, StatusSteps
<1>2. Inv /\ [Next]_vars =>
          [\A o \in Orders : status[o] = "COMPLETED" => status'[o] = "COMPLETED"]_vars
    BY <1>1
<1>3. QED  BY <1>2, Invariance, PTL DEF Spec, CompletedStays

-----------------------------------------------------------------------------
(***************************************************************************)
(* The refunds of a completed order, for any number of calls, amounts and  *)
(* faults. Of the refunds only one is at work, between the claim of Lock   *)
(* and its last write; so a step has to keep its own part of the           *)
(* invariant only (WorkerMoves). That part follows the money: what the     *)
(* gateway has certainly paid stands against the statuses that can still   *)
(* be written, and the deduction the code knows of, net - kept, against the*)
(* plan of the refund that is at work, or against the audit log that       *)
(* forbids another deduction.                                              *)
(***************************************************************************)
AtWork  == {"deduct", "gateway", "rollback", "restore", "refundFailed", "markOk"}
Resting == {"new", "lock", "done"}

\* What has certainly been paid back is on its way to be marked, or marked.
PaidBackStands ==
    ~unsure /\ gateway > 0 =>
        /\ gateway <= Amount /\ refundStatus \notin R!Refundable
        /\ \A r \in Refunds : R!Working(r) => refund[r].pc = "markOk"

\* How the known deduction stands to the refund that is at work.
Account(r) ==
    IF failedLog THEN refund[r].pc \in {"gateway", "rollback"} => refund[r].deduct = 0
    ELSE /\ refund[r].pc \in {"deduct", "restore"} => net - kept <= 0
         /\ refund[r].pc \in {"gateway", "rollback"} => net - kept <= refund[r].deduct
         /\ refund[r].pc # "refundFailed"

Books ==
    \/ unlogged
    \/ /\ net - kept <= Amount
       /\ ~failedLog /\ refundStatus \in R!Refundable => net - kept <= 0
       /\ \A r \in Refunds : Account(r)

RefundInv ==
    R!TypeOK /\ R!OneRefundAtATime /\ PaidBackStands /\ Books /\ R!StuckOnlyByFault

\* Min and Max of two numbers.
LEMMA MinOfTwo ==
    ASSUME NEW a \in Int, NEW b \in Int
    PROVE  R!Min({a, b}) \in {a, b} /\ R!Min({a, b}) <= a /\ R!Min({a, b}) <= b
<1>1. \E x \in {a, b} : \A y \in {a, b} : x <= y
    OBVIOUS
<1> QED BY <1>1 DEF R!Min

LEMMA MaxOfTwo ==
    ASSUME NEW a \in Int, NEW b \in Int
    PROVE  R!Max({a, b}) \in {a, b} /\ R!Max({a, b}) >= a /\ R!Max({a, b}) >= b
<1>1. \E x \in {a, b} : \A y \in {a, b} : x >= y
    OBVIOUS
<1> QED BY <1>1 DEF R!Max

\* Every order of one part: what is planned to be deducted is at most it.
LEMMA PlannedInAmount ==
    ASSUME R!TypeOK, NEW amount \in 1 .. Amount, NEW deduct \in R!Planned(amount)
    PROVE  deduct \in 0 .. Amount
<1>0. holding \in Int /\ Amount \in Nat \ {0} /\ amount \in Int /\ amount <= Amount
    BY RefundConstants DEF R!TypeOK, R!RefundsAssumption
<1>1. CASE refundType = "subscription"
    BY <1>0, <1>1 DEF R!Planned
<1>2. CASE refundType # "subscription"
    <2>1. PICK m \in Int : m = R!Min({amount, holding})
        BY <1>0, MinOfTwo
    <2>2. m <= amount
        BY <1>0, <2>1, MinOfTwo
    <2>3. PICK z \in Int : z = 0
        OBVIOUS
    <2>4. R!Max({z, m}) \in {z, m} /\ R!Max({z, m}) >= z
        BY MaxOfTwo
    <2>5. deduct = R!Max({z, m})
        BY <1>2, <2>1, <2>3 DEF R!Planned
    <2> QED BY <1>0, <2>1, <2>2, <2>3, <2>4, <2>5
<1> QED BY <1>1, <1>2

\* A refund goes on, and no other moves.
LEMMA RefundGoesOn ==
    ASSUME refund \in [Refunds -> R!Refund], NEW r \in Refunds,
           NEW pc \in AtWork \cup {"done"}, R!Goto(r, pc)
    PROVE  /\ refund' \in [Refunds -> R!Refund]
           /\ refund'[r].pc = pc /\ refund'[r].deduct = refund[r].deduct
           /\ \A s \in Refunds : s # r => refund'[s] = refund[s]
<1> DEFINE c == [refund[r] EXCEPT !.pc = pc]
<1>1. refund[r] \in R!Refund
    OBVIOUS
<1>2. c \in R!Refund
    BY <1>1 DEF R!Refund, AtWork
<1>3. c.pc = pc /\ c.deduct = refund[r].deduct
    BY <1>1 DEF R!Refund
<1>4. refund' = [refund EXCEPT ![r] = c]
    BY DEF R!Goto
<1> HIDE DEF c
<1> QED BY <1>2, <1>3, <1>4

\* The refund at work is the only one: its step need only keep its own part.
LEMMA WorkerMoves ==
    ASSUME RefundInv, R!TypeOK', NEW r \in Refunds, R!Working(r),
           \A s \in Refunds : s # r => refund'[s] = refund[s],
           refund'[r].pc \in AtWork \cup {"done"},
           refund'[r].pc # "done" => refundStatus' = refundStatus,
           (~unsure /\ gateway > 0)' =>
               /\ (gateway <= Amount /\ refundStatus \notin R!Refundable)'
               /\ refund'[r].pc \in {"markOk", "done"},
           \/ unlogged'
           \/ /\ net' - kept' <= Amount
              /\ (~failedLog /\ refundStatus \in R!Refundable => net - kept <= 0)'
              /\ Account(r)',
           refund'[r].pc = "done" /\ refundStatus' = "REFUNDING" => refundFaults' > 0
    PROVE  RefundInv'
<1>1. refundStatus = "REFUNDING" /\ \A s \in Refunds : R!Working(s) => s = r
    BY DEF RefundInv, R!OneRefundAtATime
<1>2. \A s \in Refunds : s # r => ~R!Working(s) /\ ~R!Working(s)'
    BY <1>1 DEF R!Working
<1>3. R!OneRefundAtATime'
    <2> SUFFICES ASSUME NEW s \in Refunds, R!Working(s)'
                 PROVE  refundStatus' = "REFUNDING" /\ \A u \in Refunds : R!Working(u)' => u = s
        BY DEF R!OneRefundAtATime
    <2>1. s = r
        BY <1>2
    <2>2. refund'[r].pc # "done"
        BY <2>1 DEF R!Working
    <2> QED BY <1>1, <1>2, <2>1, <2>2
<1>4. PaidBackStands'
    <2>1. R!Working(r)' => refund'[r].pc # "done"
        BY DEF R!Working
    <2> QED BY <1>2, <2>1 DEF PaidBackStands
<1>5. Books'
    <2>1. \A s \in Refunds : s # r => Account(s)'
        BY <1>2 DEF Account, R!Working
    <2> QED BY <2>1 DEF Books
<1>6. R!StuckOnlyByFault'
    <2>1. refund'[r].pc # "done" => R!Working(r)'
        BY DEF R!Working, AtWork
    <2> QED BY <2>1 DEF R!StuckOnlyByFault
<1> QED BY <1>3, <1>4, <1>5, <1>6 DEF RefundInv

\* A refund that has not begun, or ends before it began, disturbs nothing.
LEMMA RestingMoves ==
    ASSUME RefundInv, R!TypeOK', NEW r \in Refunds, ~R!Working(r), ~R!Working(r)',
           \A s \in Refunds : s # r => refund'[s] = refund[s],
           UNCHANGED <<refundStatus, gateway, net, kept, unsure, unlogged, failedLog>>,
           refundFaults' >= refundFaults
    PROVE  RefundInv'
<1>1. \A s \in Refunds : R!Working(s)' => R!Working(s)
    BY DEF R!Working
<1>1a. \A s \in Refunds : R!Working(s) => R!Working(s)' /\ refund'[s] = refund[s]
    BY DEF R!Working
<1>2. R!OneRefundAtATime'
    BY <1>1 DEF RefundInv, R!OneRefundAtATime
<1>3. PaidBackStands'
    BY <1>1, <1>1a DEF RefundInv, PaidBackStands
<1>4. Books'
    <2>1. Account(r)'
        BY DEF Account, R!Working
    <2>2. \A s \in Refunds : s # r => (Account(s) => Account(s)')
        BY DEF Account
    <2> QED BY <2>1, <2>2 DEF RefundInv, Books
<1>5. R!StuckOnlyByFault'
    BY <1>1a DEF RefundInv, R!StuckOnlyByFault, R!TypeOK
<1> QED BY <1>2, <1>3, <1>4, <1>5 DEF RefundInv

\* The steps, one by one.
LEMMA PrepareKeeps ==
    ASSUME RefundInv, NEW r \in Refunds, R!PrepareRefund(r)
    PROVE  RefundInv'
<1>1. PICK amount \in 1 .. Amount, deduct \in 0 .. Amount :
          refund' = [refund EXCEPT ![r] = [pc |-> "lock", amount |-> amount,
                                           deduct |-> deduct, was |-> refundStatus]]
    <2>1. PICK amount \in 1 .. Amount, asked \in BOOLEAN :
              \E deduct \in IF asked THEN R!Planned(amount) ELSE {0} :
                  refund' = [refund EXCEPT ![r] = [pc |-> "lock", amount |-> amount,
                                                   deduct |-> deduct, was |-> refundStatus]]
        BY DEF R!PrepareRefund
    <2>2. PICK deduct \in IF asked THEN R!Planned(amount) ELSE {0} :
              refund' = [refund EXCEPT ![r] = [pc |-> "lock", amount |-> amount,
                                               deduct |-> deduct, was |-> refundStatus]]
        BY <2>1
    <2>3. CASE asked
        <3>1. deduct \in 0 .. Amount
            BY <2>3, PlannedInAmount DEF RefundInv
        <3> QED BY <2>2, <3>1
    <2>4. CASE ~asked
        <3>1. deduct \in 0 .. Amount
            BY <2>4, RefundConstants DEF R!RefundsAssumption
        <3> QED BY <2>2, <3>1
    <2> QED BY <2>3, <2>4
<1> DEFINE c == [pc |-> "lock", amount |-> amount, deduct |-> deduct, was |-> refundStatus]
<1>2. c \in R!Refund /\ c.pc = "lock"
    BY DEF RefundInv, R!TypeOK, R!Refund
<1>3. refund' = [refund EXCEPT ![r] = c]
    BY <1>1
<1> HIDE DEF c
<1>4. refund' \in [Refunds -> R!Refund] /\ refund'[r].pc = "lock"
    BY <1>2, <1>3 DEF RefundInv, R!TypeOK
<1>5. /\ \A s \in Refunds : s # r => refund'[s] = refund[s]
      /\ refundFaults' = refundFaults
      /\ UNCHANGED <<refundType, traded, refundStatus, holding, revoked, debits, gateway, net,
                     kept, unsure, unlogged, failedLog>>
    BY <1>3 DEF R!PrepareRefund, RefundInv, R!TypeOK, R!fixed, R!funds, R!hist
<1>6. R!TypeOK'
    BY <1>4, <1>5 DEF RefundInv, R!TypeOK
<1>7. ~R!Working(r) /\ ~R!Working(r)' /\ refundFaults' >= refundFaults
    BY <1>4, <1>5 DEF R!PrepareRefund, R!Working, RefundInv, R!TypeOK
<1> QED BY <1>5, <1>6, <1>7, RestingMoves

LEMMA LockKeeps ==
    ASSUME RefundInv, NEW r \in Refunds, R!Lock(r)
    PROVE  RefundInv'
<1>0. ~R!Working(r) /\ refund \in [Refunds -> R!Refund] /\ MaxRefundFaults \in Nat
    BY RefundConstants DEF R!Lock, R!Working, RefundInv, R!TypeOK, R!RefundsAssumption
<1>1. CASE refundStatus \in R!Refundable /\ refundStatus' = "REFUNDING" /\ R!Goto(r, "deduct")
           /\ UNCHANGED refundFaults
    <2>1. /\ refund' \in [Refunds -> R!Refund] /\ refund'[r].pc = "deduct"
          /\ \A s \in Refunds : s # r => refund'[s] = refund[s]
        BY <1>0, <1>1, RefundGoesOn DEF AtWork
    <2>2. \A s \in Refunds : ~R!Working(s)
        BY <1>1 DEF RefundInv, R!OneRefundAtATime, R!Refundable
    <2>3. \A s \in Refunds : s # r => ~R!Working(s)'
        BY <2>1, <2>2 DEF R!Working
    <2>4. UNCHANGED <<refundType, traded, holding, revoked, failedLog, gateway, debits, net,
                      kept, unsure, unlogged>>
        BY DEF R!Lock, R!fixed, R!funds, R!hist
    <2>5. R!TypeOK'
        BY <1>1, <2>1, <2>4 DEF RefundInv, R!TypeOK, R!Statuses
    <2>6. R!OneRefundAtATime'
        BY <1>1, <2>3 DEF R!OneRefundAtATime
    <2>7. PaidBackStands'
        BY <1>1, <2>4 DEF RefundInv, PaidBackStands
    <2>8. Books'
        <3>1. ~unlogged => net - kept <= Amount /\ (~failedLog => net - kept <= 0)
            BY <1>1 DEF RefundInv, Books
        <3>2. ~unlogged => Account(r)'
            BY <2>1, <2>4, <3>1 DEF Account
        <3>3. \A s \in Refunds : s # r => Account(s)'
            BY <2>3 DEF Account, R!Working
        <3> QED BY <1>1, <2>4, <3>1, <3>2, <3>3 DEF Books, R!Refundable
    <2>9. R!StuckOnlyByFault'
        <3>1. R!Working(r)'
            BY <2>1 DEF R!Working
        <3> QED BY <3>1 DEF R!StuckOnlyByFault
    <2> QED BY <2>5, <2>6, <2>7, <2>8, <2>9 DEF RefundInv
<1>2. ASSUME R!Goto(r, "done"), UNCHANGED refundStatus, refundFaults' >= refundFaults,
             refundFaults' \in 0 .. MaxRefundFaults
      PROVE  RefundInv'
    <2>1. /\ refund' \in [Refunds -> R!Refund] /\ refund'[r].pc = "done"
          /\ \A s \in Refunds : s # r => refund'[s] = refund[s]
        BY <1>0, <1>2, RefundGoesOn
    <2>2. UNCHANGED <<refundType, traded, holding, revoked, failedLog, gateway, debits, net,
                      kept, unsure, unlogged>>
        BY DEF R!Lock, R!fixed, R!funds, R!hist
    <2>3. R!TypeOK'
        BY <1>2, <2>1, <2>2 DEF RefundInv, R!TypeOK
    <2>4. ~R!Working(r)'
        BY <2>1 DEF R!Working
    <2> QED BY <1>0, <1>2, <2>1, <2>2, <2>3, <2>4, RestingMoves
<1>3. CASE R!Goto(r, "done") /\ UNCHANGED <<refundStatus, refundFaults>>
    BY <1>2, <1>3 DEF RefundInv, R!TypeOK
<1>4. CASE R!Fault /\ R!Goto(r, "done") /\ UNCHANGED refundStatus
    BY <1>0, <1>2, <1>4 DEF RefundInv, R!TypeOK, R!Fault
<1> QED BY <1>1, <1>3, <1>4 DEF R!Lock

\* What a refund at work knows before its step.
LEMMA WorkerKnows ==
    ASSUME RefundInv, NEW r \in Refunds, R!Working(r)
    PROVE  /\ refundStatus = "REFUNDING"
           /\ refund[r].pc # "markOk" => unsure \/ gateway = 0
           /\ ~unlogged => net - kept <= Amount /\ Account(r)
           /\ refund \in [Refunds -> R!Refund]
           /\ refund[r].deduct \in 0 .. Amount /\ refund[r].amount \in 0 .. Amount
           /\ net \in Int /\ kept \in Int /\ holding \in Int /\ gateway \in Nat /\ Amount \in Nat
           /\ revoked \in BOOLEAN
           /\ refundFaults \in Nat /\ MaxRefundFaults \in Nat /\ refundFaults <= MaxRefundFaults
           /\ failedLog \in BOOLEAN /\ unsure \in BOOLEAN /\ unlogged \in BOOLEAN
           /\ refundType \in {"balance", "subscription"}
<1>1. refund[r] \in R!Refund
    BY DEF RefundInv, R!TypeOK
<1>2. refund[r].deduct \in 0 .. Amount /\ refund[r].amount \in 0 .. Amount
    BY <1>1 DEF R!Refund
<1>3. refundStatus = "REFUNDING"
    BY DEF RefundInv, R!OneRefundAtATime
<1>4. refund[r].pc # "markOk" => unsure \/ gateway = 0
    BY DEF RefundInv, PaidBackStands, R!TypeOK
<1>5. ~unlogged => net - kept <= Amount /\ Account(r)
    BY DEF RefundInv, Books
<1>6. MaxRefundFaults \in Nat /\ Amount \in Nat
    BY RefundConstants DEF R!RefundsAssumption
<1> QED BY <1>2, <1>3, <1>4, <1>5, <1>6 DEF RefundInv, R!TypeOK

\* A share of the deduction, taken from what the user holds.
LEMMA ShareTaken ==
    ASSUME RefundInv, NEW n \in 0 .. Amount, R!DeductShare(n)
    PROVE  /\ \E k \in Int : k <= n /\ k = R!Share(n) /\ holding' = holding - k /\ net' = net + k
           /\ revoked' \in BOOLEAN
<1>1. holding \in Int /\ n \in Int /\ revoked \in BOOLEAN /\ Amount \in Nat
    BY RefundConstants DEF RefundInv, R!TypeOK, R!RefundsAssumption
<1>2. R!Share(n) \in Int /\ R!Share(n) <= n
    BY <1>1, MinOfTwo DEF R!Share
<1>3. R!Take(R!Share(n)) /\ revoked' \in BOOLEAN
    BY <1>1 DEF R!DeductShare
<1> QED BY <1>2, <1>3 DEF R!Take

LEMMA DeductKeeps ==
    ASSUME RefundInv, NEW r \in Refunds, R!Deduct(r)
    PROVE  RefundInv'
<1> DEFINE n == refund[r].deduct
           lookup == IF failedLog THEN R!Fault ELSE UNCHANGED refundFaults
<1>0. refund[r].pc = "deduct" /\ R!Working(r)
    BY DEF R!Deduct, R!Working
<1>k. /\ refundStatus = "REFUNDING" /\ (unsure \/ gateway = 0)
      /\ ~unlogged => net - kept <= Amount
      /\ ~unlogged /\ ~failedLog => net - kept <= 0
      /\ refund \in [Refunds -> R!Refund] /\ n \in 0 .. Amount
      /\ net \in Int /\ kept \in Int /\ holding \in Int /\ Amount \in Nat
      /\ unlogged \in BOOLEAN /\ failedLog \in BOOLEAN
      /\ refundFaults \in 0 .. MaxRefundFaults /\ MaxRefundFaults \in Nat
    BY <1>0, WorkerKnows DEF Account
<1>u. /\ UNCHANGED <<refundType, traded, refundStatus, failedLog, gateway, debits, unsure>>
      /\ refundFaults' = refundFaults \/ R!Fault
    BY DEF R!Deduct, R!fixed
<1>f. refundFaults' \in 0 .. MaxRefundFaults
    BY <1>k, <1>u DEF R!Fault
<1>8. refundStatus' \notin R!Refundable
    BY <1>k, <1>u DEF R!Refundable
\* Nothing is deducted.
<1>1. ASSUME n = 0 \/ failedLog, UNCHANGED <<holding, revoked, net, kept, unlogged>>,
             refund' = [refund EXCEPT ![r].deduct = 0, ![r].pc = "gateway"]
      PROVE  RefundInv'
    <2> DEFINE c == [refund[r] EXCEPT !.deduct = 0, !.pc = "gateway"]
    <2>1. refund[r] \in R!Refund
        BY <1>k
    <2>2. c \in R!Refund
        <3> DEFINE d == [refund[r] EXCEPT !.deduct = 0]
        <3>1. 0 \in 0 .. Amount
            BY <1>k
        <3>2. d \in R!Refund
            BY <2>1, <3>1 DEF R!Refund
        <3>3. c = [d EXCEPT !.pc = "gateway"]
            BY <2>1 DEF R!Refund
        <3> HIDE DEF d, c
        <3> QED BY <3>2, <3>3 DEF R!Refund
    <2>3. c.pc = "gateway" /\ c.deduct = 0
        BY <2>1 DEF R!Refund
    <2>4. refund' = [refund EXCEPT ![r] = c]
        BY <1>1, <1>k
    <2> HIDE DEF c
    <2>5. /\ refund' \in [Refunds -> R!Refund] /\ refund'[r].pc = "gateway" /\ refund'[r].deduct = 0
          /\ \A s \in Refunds : s # r => refund'[s] = refund[s]
        BY <1>k, <2>2, <2>3, <2>4
    <2>6. R!TypeOK'
        BY <1>1, <1>u, <1>f, <2>5 DEF RefundInv, R!TypeOK
    <2>7. ~unlogged' => net' - kept' <= Amount /\ Account(r)'
        <3>1. ~failedLog /\ ~unlogged => net - kept <= 0
            BY <1>k
        <3> QED BY <1>1, <1>k, <1>u, <2>5, <3>1 DEF Account
    <2> QED BY <1>0, <1>k, <1>u, <1>8, <2>5, <2>6, <2>7, WorkerMoves DEF AtWork
\* Something is, and the code knows it.
<1>2. ASSUME R!DeductShare(n), R!Goto(r, "gateway"), UNCHANGED kept,
             unlogged' = (unlogged \/ failedLog)
      PROVE  RefundInv'
    <2>1. /\ \E k \in Int : k <= n /\ k = R!Share(n) /\ holding' = holding - k /\ net' = net + k
          /\ revoked' \in BOOLEAN
        BY <1>2, <1>k, ShareTaken
    <2>2. PICK k \in Int : k <= n /\ holding' = holding - k /\ net' = net + k
        BY <2>1
    <2>5. /\ refund' \in [Refunds -> R!Refund] /\ refund'[r].pc = "gateway" /\ refund'[r].deduct = n
          /\ \A s \in Refunds : s # r => refund'[s] = refund[s]
        BY <1>2, <1>k, RefundGoesOn DEF AtWork
    <2>6. R!TypeOK'
        <3>1. holding' \in Int /\ net' \in Int /\ kept' \in Int
            BY <1>2, <1>k, <2>2
        <3>2. unlogged' \in BOOLEAN
            BY <1>2, <1>k
        <3> QED BY <1>u, <1>f, <2>1, <2>5, <3>1, <3>2 DEF RefundInv, R!TypeOK
    <2>7. ~unlogged' => net' - kept' <= Amount /\ Account(r)'
        <3>1. ~unlogged' => ~failedLog' /\ net - kept <= 0
            BY <1>2, <1>k, <1>u
        <3>2. net - kept <= 0 => net' - kept' <= n
            BY <1>2, <1>k, <2>2
        <3>3. ~unlogged' => net' - kept' <= n
            BY <3>1, <3>2
        <3>4. n <= Amount /\ n \in Int /\ Amount \in Int /\ net' - kept' \in Int
            BY <1>2, <1>k, <2>2
        <3>5. ~unlogged' => net' - kept' <= Amount
            BY <3>3, <3>4
        <3>6. ~unlogged' => Account(r)'
            BY <2>5, <3>1, <3>3 DEF Account
        <3> QED BY <3>5, <3>6
    <2> QED BY <1>0, <1>k, <1>u, <1>8, <2>5, <2>6, <2>7, WorkerMoves DEF AtWork
\* The statement answers an error, committed or not.
<1>3. ASSUME R!Goto(r, "restore"), unlogged' = (unlogged \/ failedLog),
             \/ R!DeductShare(n) /\ kept' = kept + R!Share(n)
             \/ UNCHANGED <<holding, revoked, net, kept>>
      PROVE  RefundInv'
    <2>1. /\ holding' \in Int /\ net' \in Int /\ kept' \in Int /\ revoked' \in BOOLEAN
          /\ net' - kept' = net - kept
        <3>1. CASE R!DeductShare(n) /\ kept' = kept + R!Share(n)
            <4>1. /\ \E k \in Int : k = R!Share(n) /\ holding' = holding - k /\ net' = net + k
                  /\ revoked' \in BOOLEAN
                BY <3>1, <1>k, ShareTaken
            <4> QED BY <3>1, <4>1, <1>k
        <3>2. CASE UNCHANGED <<holding, revoked, net, kept>>
            BY <3>2, <1>k DEF RefundInv, R!TypeOK
        <3> QED BY <1>3, <3>1, <3>2
    <2>5. /\ refund' \in [Refunds -> R!Refund] /\ refund'[r].pc = "restore"
          /\ \A s \in Refunds : s # r => refund'[s] = refund[s]
        BY <1>3, <1>k, RefundGoesOn DEF AtWork
    <2>6. R!TypeOK'
        <3>1. unlogged' \in BOOLEAN
            BY <1>3, <1>k
        <3> QED BY <1>u, <1>f, <2>1, <2>5, <3>1 DEF RefundInv, R!TypeOK
    <2>7. ~unlogged' => net' - kept' <= Amount /\ Account(r)'
        <3>1. ~unlogged' => net - kept <= Amount /\ net - kept <= 0
            BY <1>3, <1>k
        <3> QED BY <2>1, <2>5, <3>1 DEF Account
    <2> QED BY <1>0, <1>k, <1>u, <1>8, <2>5, <2>6, <2>7, WorkerMoves DEF AtWork
<1>4. \/ /\ n = 0 \/ failedLog
         /\ refund' = [refund EXCEPT ![r].deduct = 0, ![r].pc = "gateway"]
         /\ UNCHANGED <<holding, revoked, net, kept, unlogged>>
      \/ /\ unlogged' = (unlogged \/ failedLog)
         /\ \/ R!DeductShare(n) /\ R!Goto(r, "gateway") /\ UNCHANGED kept
            \/ R!DeductShare(n) /\ R!Goto(r, "restore") /\ kept' = kept + R!Share(n)
            \/ R!Goto(r, "restore") /\ UNCHANGED <<holding, revoked, net, kept>>
    BY DEF R!Deduct, R!funds
<1> HIDE DEF n
<1> QED BY <1>1, <1>2, <1>3, <1>4

LEMMA GatewayKeeps ==
    ASSUME RefundInv, NEW r \in Refunds, R!GatewayRefund(r)
    PROVE  RefundInv'
<1>0. refund[r].pc = "gateway" /\ R!Working(r)
    BY DEF R!GatewayRefund, R!Working
<1>k. /\ refundStatus = "REFUNDING" /\ (unsure \/ gateway = 0)
      /\ ~unlogged => net - kept <= Amount
      /\ ~unlogged => IF failedLog THEN refund[r].deduct = 0 ELSE net - kept <= refund[r].deduct
      /\ refund \in [Refunds -> R!Refund]
      /\ refund[r].amount \in 0 .. Amount /\ gateway \in Nat /\ Amount \in Nat
      /\ refundFaults \in 0 .. MaxRefundFaults /\ MaxRefundFaults \in Nat
    BY <1>0, WorkerKnows DEF Account
<1>u. /\ UNCHANGED <<refundType, traded, refundStatus, holding, revoked, failedLog, debits, net, kept,
                   unlogged>>
      /\ refundFaults' = refundFaults \/ R!Fault
    BY DEF R!GatewayRefund, R!fixed, R!funds
<1>f. refundFaults' \in 0 .. MaxRefundFaults
    BY <1>k, <1>u DEF R!Fault
<1>1. ASSUME NEW pc \in {"markOk", "rollback"}, R!Goto(r, pc),
             gateway' = gateway \/ gateway' = gateway + refund[r].amount,
             unsure' = unsure \/ unsure' = TRUE,
             unsure' = TRUE \/ pc = "markOk" \/ gateway' = gateway
      PROVE  RefundInv'
    <2>5. /\ refund' \in [Refunds -> R!Refund] /\ refund'[r].pc = pc
          /\ refund'[r].deduct = refund[r].deduct
          /\ \A s \in Refunds : s # r => refund'[s] = refund[s]
        BY <1>1, <1>k, RefundGoesOn DEF AtWork
    <2>6. R!TypeOK'
        <3>1. unsure' \in BOOLEAN
            BY <1>1 DEF RefundInv, R!TypeOK
        <3>2. gateway' \in Nat
            BY <1>1, <1>k
        <3> QED BY <1>u, <1>f, <2>5, <3>1, <3>2 DEF RefundInv, R!TypeOK
    <2>7. ~unlogged' => net' - kept' <= Amount /\ Account(r)'
        BY <1>k, <1>u, <2>5 DEF Account
    <2>8. refundStatus' \notin R!Refundable
        BY <1>k, <1>u DEF R!Refundable
    <2>9. ~unsure' /\ gateway' > 0 => gateway' <= Amount /\ refund'[r].pc = "markOk"
        BY <1>1, <1>k, <2>5
    <2> QED BY <1>0, <1>k, <1>u, <2>5, <2>6, <2>7, <2>8, <2>9, WorkerMoves DEF AtWork
<1>2. CASE ~traded /\ R!Goto(r, "markOk") /\ UNCHANGED <<gateway, refundFaults, unsure>>
    BY <1>1, <1>2
<1>3. CASE /\ traded /\ gateway' = gateway + refund[r].amount
           /\ \/ R!Goto(r, "markOk") /\ UNCHANGED <<refundFaults, unsure>>
              \/ R!Fault /\ R!Goto(r, "rollback") /\ unsure' = TRUE
    BY <1>1, <1>3
<1>4. CASE traded /\ R!Fault /\ R!Goto(r, "rollback") /\ UNCHANGED <<gateway, unsure>>
    BY <1>1, <1>4
<1> QED BY <1>2, <1>3, <1>4 DEF R!GatewayRefund

LEMMA RollbackKeeps ==
    ASSUME RefundInv, NEW r \in Refunds, R!Rollback(r)
    PROVE  RefundInv'
<1> DEFINE n == refund[r].deduct
<1>0. refund[r].pc = "rollback" /\ R!Working(r)
    BY DEF R!Rollback, R!Working
<1>k. /\ refundStatus = "REFUNDING" /\ (unsure \/ gateway = 0)
      /\ ~unlogged => net - kept <= Amount
      /\ ~unlogged => IF failedLog THEN n = 0 ELSE net - kept <= n
      /\ refund \in [Refunds -> R!Refund] /\ n \in 0 .. Amount
      /\ net \in Int /\ kept \in Int /\ holding \in Int /\ Amount \in Nat
      /\ refundFaults \in 0 .. MaxRefundFaults /\ MaxRefundFaults \in Nat
    BY <1>0, WorkerKnows DEF Account
<1>u. /\ UNCHANGED <<refundType, traded, refundStatus, revoked, gateway, debits, kept, unsure>>
      /\ refundFaults' = refundFaults \/ R!Fault
    BY DEF R!Rollback, R!fixed, R!funds
<1>f. refundFaults' \in 0 .. MaxRefundFaults
    BY <1>k, <1>u DEF R!Fault
<1>8. refundStatus' \notin R!Refundable
    BY <1>k, <1>u DEF R!Refundable
<1>9. kept' = kept /\ n \in Int /\ n >= 0
    BY <1>k, <1>u
\* It is given back, or there was nothing to give.
<1>1. ASSUME R!Goto(r, "restore"), net' = net - n, holding' = holding + n,
             UNCHANGED <<failedLog, unlogged>>
      PROVE  RefundInv'
    <2>5. /\ refund' \in [Refunds -> R!Refund] /\ refund'[r].pc = "restore"
          /\ \A s \in Refunds : s # r => refund'[s] = refund[s]
        BY <1>1, <1>k, RefundGoesOn DEF AtWork
    <2>6. R!TypeOK'
        <3>1. holding' \in Int /\ net' \in Int
            BY <1>1, <1>k
        <3> QED BY <1>1, <1>u, <1>f, <2>5, <3>1 DEF RefundInv, R!TypeOK
    <2>7. ~unlogged' => net' - kept' <= Amount /\ Account(r)'
        <3>1. ~unlogged => net' - kept' <= Amount
            BY <1>1, <1>k, <1>9
        <3>2. ~unlogged /\ ~failedLog => net' - kept' <= 0
            BY <1>1, <1>k, <1>9
        <3> QED BY <1>1, <2>5, <3>1, <3>2 DEF Account
    <2> QED BY <1>0, <1>k, <1>u, <1>8, <2>5, <2>6, <2>7, WorkerMoves DEF AtWork
\* It answers an error, committed or not.
<1>2. ASSUME R!Goto(r, "refundFailed"), R!Take(-n) \/ UNCHANGED <<holding, net>>,
             \/ failedLog' = TRUE /\ unlogged' = unlogged
             \/ failedLog' = failedLog /\ unlogged' = TRUE
      PROVE  RefundInv'
    <2>1. net' \in Int /\ holding' \in Int /\ net' <= net
        BY <1>2, <1>k DEF R!Take
    <2>5. /\ refund' \in [Refunds -> R!Refund] /\ refund'[r].pc = "refundFailed"
          /\ \A s \in Refunds : s # r => refund'[s] = refund[s]
        BY <1>2, <1>k, RefundGoesOn DEF AtWork
    <2>6. R!TypeOK'
        <3>1. failedLog' \in BOOLEAN /\ unlogged' \in BOOLEAN
            BY <1>2 DEF RefundInv, R!TypeOK
        <3> QED BY <1>u, <1>f, <2>1, <2>5, <3>1 DEF RefundInv, R!TypeOK
    <2>7. ~unlogged' => net' - kept' <= Amount /\ Account(r)'
        <3>1. ~unlogged' => ~unlogged /\ failedLog'
            BY <1>2
        <3>2. /\ net \in Int /\ kept \in Int /\ kept' \in Int /\ Amount \in Int
              /\ net' \in Int /\ net' <= net /\ kept' = kept
            BY <1>k, <1>9, <2>1
        <3>p. PICK a \in Int, b \in Int : a = net /\ b = net'
            BY <3>2
        <3>3. net - kept <= Amount => net' - kept' <= Amount
          <4>1. a \in Int /\ b \in Int /\ b <= a
              BY <3>2, <3>p
          <4>2. a - kept <= Amount => b - kept <= Amount
              BY <3>2, <4>1
          <4> QED BY <3>2, <3>p, <4>2
        <3>4. ~unlogged => net - kept <= Amount
            BY <1>k
        <3>5. ~unlogged => net' - kept' <= Amount
            BY <3>3, <3>4
        <3> QED BY <2>5, <3>1, <3>5 DEF Account
    <2> QED BY <1>0, <1>k, <1>u, <1>8, <2>5, <2>6, <2>7, WorkerMoves DEF AtWork
<1>3. CASE n = 0 /\ R!Goto(r, "restore")
           /\ UNCHANGED <<holding, net, failedLog, refundFaults, unlogged>>
    BY <1>1, <1>3, <1>k
<1>4. CASE R!Take(-n) /\ R!Goto(r, "restore") /\ UNCHANGED <<failedLog, refundFaults, unlogged>>
    <2>1. net' = net - n /\ holding' = holding + n
        BY <1>4, <1>k DEF R!Take
    <2> QED BY <1>1, <1>4, <2>1
<1>5. CASE /\ R!Goto(r, "refundFailed")
           /\ R!Take(-n) \/ UNCHANGED <<holding, net>>
           /\ \/ failedLog' = TRUE /\ UNCHANGED unlogged
              \/ UNCHANGED failedLog /\ unlogged' = TRUE
    BY <1>2, <1>5
<1> QED BY <1>3, <1>4, <1>5 DEF R!Rollback

LEMMA RestoreKeeps ==
    ASSUME RefundInv, NEW r \in Refunds, R!RestoreStatus(r)
    PROVE  RefundInv'
<1>0. refund[r].pc = "restore" /\ R!Working(r)
    BY DEF R!RestoreStatus, R!Working
<1>k. /\ refundStatus = "REFUNDING" /\ (unsure \/ gateway = 0)
      /\ ~unlogged => net - kept <= Amount /\ (~failedLog => net - kept <= 0)
      /\ refund \in [Refunds -> R!Refund] /\ gateway \in Nat
      /\ refundFaults \in 0 .. MaxRefundFaults /\ MaxRefundFaults \in Nat
    BY <1>0, WorkerKnows DEF Account
<1>u. UNCHANGED <<refundType, traded, holding, revoked, failedLog, gateway, debits, net, kept,
                  unsure, unlogged>>
    BY DEF R!RestoreStatus, R!fixed, R!funds, R!hist
<1>1. /\ refundStatus' \in R!Statuses /\ refundFaults' \in 0 .. MaxRefundFaults
      /\ refundStatus' = "REFUNDING" => refundFaults' > 0
    BY <1>k DEF R!RestoreStatus, R!Fault, R!Statuses
<1>2. /\ refund' \in [Refunds -> R!Refund] /\ refund'[r].pc = "done"
      /\ \A s \in Refunds : s # r => refund'[s] = refund[s]
    BY <1>k, RefundGoesOn DEF R!RestoreStatus
<1>3. R!TypeOK'
    BY <1>u, <1>1, <1>2 DEF RefundInv, R!TypeOK
<1>4. \/ unlogged'
      \/ /\ net' - kept' <= Amount
         /\ (~failedLog /\ refundStatus \in R!Refundable => net - kept <= 0)'
         /\ Account(r)'
    BY <1>k, <1>u, <1>2 DEF Account
<1>5. ~(~unsure /\ gateway > 0)'
    BY <1>k, <1>u
<1> QED BY <1>0, <1>1, <1>2, <1>3, <1>4, <1>5, WorkerMoves

LEMMA FailedKeeps ==
    ASSUME RefundInv, NEW r \in Refunds, R!MarkRefundFailed(r)
    PROVE  RefundInv'
<1>0. refund[r].pc = "refundFailed" /\ R!Working(r)
    BY DEF R!MarkRefundFailed, R!Working
<1>k. /\ refundStatus = "REFUNDING" /\ (unsure \/ gateway = 0)
      /\ ~unlogged => net - kept <= Amount /\ failedLog
      /\ refund \in [Refunds -> R!Refund] /\ gateway \in Nat
      /\ refundFaults \in 0 .. MaxRefundFaults /\ MaxRefundFaults \in Nat
    BY <1>0, WorkerKnows DEF Account
<1>u. UNCHANGED <<refundType, traded, holding, revoked, failedLog, gateway, debits, net, kept,
                  unsure, unlogged>>
    BY DEF R!MarkRefundFailed, R!fixed, R!funds, R!hist
<1>1. /\ refundStatus' \in R!Statuses /\ refundFaults' \in 0 .. MaxRefundFaults
      /\ refundStatus' = "REFUNDING" => refundFaults' > 0
    BY <1>k DEF R!MarkRefundFailed, R!Fault, R!Statuses
<1>2. /\ refund' \in [Refunds -> R!Refund] /\ refund'[r].pc = "done"
      /\ \A s \in Refunds : s # r => refund'[s] = refund[s]
    BY <1>k, RefundGoesOn DEF R!MarkRefundFailed
<1>3. R!TypeOK'
    BY <1>u, <1>1, <1>2 DEF RefundInv, R!TypeOK
<1>4. \/ unlogged'
      \/ /\ net' - kept' <= Amount
         /\ (~failedLog /\ refundStatus \in R!Refundable => net - kept <= 0)'
         /\ Account(r)'
    BY <1>k, <1>u, <1>2 DEF Account
<1>5. ~(~unsure /\ gateway > 0)'
    BY <1>k, <1>u
<1> QED BY <1>0, <1>1, <1>2, <1>3, <1>4, <1>5, WorkerMoves

LEMMA OkKeeps ==
    ASSUME RefundInv, NEW r \in Refunds, R!MarkRefundOk(r)
    PROVE  RefundInv'
<1>0. refund[r].pc = "markOk" /\ R!Working(r)
    BY DEF R!MarkRefundOk, R!Working
<1>k. /\ refundStatus = "REFUNDING"
      /\ ~unsure /\ gateway > 0 => gateway <= Amount
      /\ ~unlogged => net - kept <= Amount
      /\ refund \in [Refunds -> R!Refund]
      /\ refundFaults \in 0 .. MaxRefundFaults /\ MaxRefundFaults \in Nat
    BY <1>0, WorkerKnows DEF RefundInv, PaidBackStands
<1>u. UNCHANGED <<refundType, traded, holding, revoked, failedLog, gateway, debits, net, kept,
                  unsure, unlogged>>
    BY DEF R!MarkRefundOk, R!fixed, R!funds, R!hist
<1>1. /\ refundStatus' \in R!Statuses \ R!Refundable /\ refundFaults' \in 0 .. MaxRefundFaults
      /\ refundStatus' = "REFUNDING" => refundFaults' > 0
    BY <1>k DEF R!MarkRefundOk, R!Fault, R!Statuses, R!Refundable
<1>2. /\ refund' \in [Refunds -> R!Refund] /\ refund'[r].pc = "done"
      /\ \A s \in Refunds : s # r => refund'[s] = refund[s]
    BY <1>k, RefundGoesOn DEF R!MarkRefundOk
<1>3. R!TypeOK'
    BY <1>u, <1>1, <1>2 DEF RefundInv, R!TypeOK
<1>4. \/ unlogged'
      \/ /\ net' - kept' <= Amount
         /\ (~failedLog /\ refundStatus \in R!Refundable => net - kept <= 0)'
         /\ Account(r)'
    BY <1>k, <1>u, <1>1, <1>2 DEF Account
<1>5. (~unsure /\ gateway > 0)' => (gateway <= Amount /\ refundStatus \notin R!Refundable)'
    BY <1>k, <1>u, <1>1
<1> QED BY <1>0, <1>1, <1>2, <1>3, <1>4, <1>5, WorkerMoves

LEMMA CrashKeeps ==
    ASSUME RefundInv, NEW r \in Refunds, R!Crash(r)
    PROVE  RefundInv'
<1>k. /\ refund \in [Refunds -> R!Refund]
      /\ refundFaults \in 0 .. MaxRefundFaults /\ MaxRefundFaults \in Nat
    BY RefundConstants DEF R!RefundsAssumption, RefundInv, R!TypeOK
<1>u. UNCHANGED <<refundType, traded, refundStatus, holding, revoked, failedLog, gateway, debits,
                  net, kept, unsure, unlogged>>
    BY DEF R!Crash, R!fixed, R!funds, R!hist
<1>1. /\ refundFaults' \in 0 .. MaxRefundFaults /\ refundFaults' > 0 /\ refundFaults' >= refundFaults
    BY <1>k DEF R!Crash, R!Fault
<1>2. /\ refund' \in [Refunds -> R!Refund] /\ refund'[r].pc = "done"
      /\ \A s \in Refunds : s # r => refund'[s] = refund[s]
    BY <1>k, RefundGoesOn DEF R!Crash
<1>3. R!TypeOK'
    BY <1>u, <1>1, <1>2 DEF RefundInv, R!TypeOK
<1>4. CASE ~R!Working(r)
    <2>1. ~R!Working(r)'
        BY <1>2 DEF R!Working
    <2> QED BY <1>1, <1>2, <1>3, <1>4, <1>u, <2>1, RestingMoves
<1>5. CASE R!Working(r)
    <2>0. /\ refundStatus = "REFUNDING" /\ ~unlogged => net - kept <= Amount
          /\ ~unsure /\ gateway > 0 => gateway <= Amount
        BY <1>5, WorkerKnows DEF RefundInv, PaidBackStands
    <2>1. refundStatus' \notin R!Refundable
        BY <1>5, <1>u, WorkerKnows DEF R!Refundable
    <2>2. ~unlogged => net - kept <= Amount
        BY <1>5, WorkerKnows
    <2>4. \/ unlogged'
          \/ /\ net' - kept' <= Amount
             /\ (~failedLog /\ refundStatus \in R!Refundable => net - kept <= 0)'
             /\ Account(r)'
        BY <2>1, <2>2, <1>u, <1>2 DEF Account
    <2>5. (~unsure /\ gateway > 0)' => (gateway <= Amount /\ refundStatus \notin R!Refundable)'
        BY <2>0, <2>1, <1>u
    <2> QED BY <1>1, <1>2, <1>3, <1>5, <2>4, <2>5, WorkerMoves
<1> QED BY <1>4, <1>5

LEMMA DebitKeeps ==
    ASSUME RefundInv, R!Debit
    PROVE  RefundInv'
<1>1. /\ UNCHANGED <<refundType, traded, refundStatus, revoked, failedLog, gateway, refund,
                     refundFaults, net, kept, unsure, unlogged>>
      /\ debits' = debits + 1 /\ debits < MaxDebits /\ holding' = holding - 1
    BY DEF R!Debit, R!fixed, R!funds, R!hist
<1>2. R!TypeOK'
    BY <1>1, RefundConstants DEF RefundInv, R!TypeOK, R!RefundsAssumption
<1>3. \A r \in Refunds : (R!Working(r)' <=> R!Working(r)) /\ (Account(r)' <=> Account(r))
    BY <1>1 DEF R!Working, Account
<1>4. R!OneRefundAtATime' /\ PaidBackStands' /\ R!StuckOnlyByFault'
    BY <1>1, <1>3 DEF RefundInv, R!OneRefundAtATime, PaidBackStands, R!StuckOnlyByFault
<1>5. Books'
    BY <1>1, <1>3 DEF RefundInv, Books
<1> QED BY <1>2, <1>4, <1>5 DEF RefundInv

LEMMA RequestKeeps ==
    ASSUME RefundInv, R!RequestRefund
    PROVE  RefundInv'
<1>1. /\ UNCHANGED <<refundType, traded, holding, revoked, debits, failedLog, gateway, refund,
                     refundFaults, net, kept, unsure, unlogged>>
      /\ refundStatus = "COMPLETED" /\ refundStatus' = "REFUND_REQUESTED"
    BY DEF R!RequestRefund, R!fixed, R!funds, R!hist
<1>2. R!TypeOK'
    BY <1>1 DEF RefundInv, R!TypeOK, R!Statuses
<1>3. \A r \in Refunds : ~R!Working(r)
    BY <1>1 DEF RefundInv, R!OneRefundAtATime
<1>4. \A r \in Refunds : ~R!Working(r)' /\ (Account(r)' <=> Account(r))
    BY <1>1, <1>3 DEF R!Working, Account
<1>5. R!OneRefundAtATime' /\ R!StuckOnlyByFault'
    BY <1>1, <1>4 DEF R!OneRefundAtATime, R!StuckOnlyByFault
<1>6. PaidBackStands'
    BY <1>1, <1>4 DEF RefundInv, PaidBackStands, R!Refundable
<1>7. Books'
    BY <1>1, <1>4 DEF RefundInv, Books, R!Refundable
<1> QED BY <1>2, <1>5, <1>6, <1>7 DEF RefundInv

LEMMA RefundInit == R!Init => RefundInv
<1> SUFFICES ASSUME R!Init PROVE RefundInv
    OBVIOUS
<1>1. /\ refundStatus = "COMPLETED" /\ gateway = 0 /\ net = 0 /\ kept = 0 /\ ~failedLog /\ refundFaults = 0
      /\ refundType \in {"balance", "subscription"} /\ traded \in BOOLEAN /\ holding \in Int
      /\ revoked = FALSE /\ failedLog = FALSE /\ unsure = FALSE /\ unlogged = FALSE /\ debits = 0
      /\ MaxDebits \in Nat /\ MaxRefundFaults \in Nat /\ Amount \in Nat
    BY RefundConstants DEF R!Init, R!RefundsAssumption
<1> DEFINE c == [pc |-> "new", amount |-> 0, deduct |-> 0, was |-> "COMPLETED"]
<1>2. c \in R!Refund /\ c.pc = "new"
    BY <1>1 DEF R!Refund, R!Statuses
<1>3. refund = [r \in Refunds |-> c]
    BY DEF R!Init
<1> HIDE DEF c
<1>4. refund \in [Refunds -> R!Refund] /\ \A r \in Refunds : refund[r].pc = "new"
    BY <1>2, <1>3
<1>5. \A r \in Refunds : ~R!Working(r) /\ Account(r)
    BY <1>1, <1>4 DEF R!Working, Account
<1>6. R!TypeOK
    <2>1. debits \in 0 .. MaxDebits /\ refundFaults \in 0 .. MaxRefundFaults
        BY <1>1
    <2>2. net \in Int /\ kept \in Int /\ gateway \in Nat /\ refundStatus \in R!Statuses
        BY <1>1 DEF R!Statuses
    <2>3. revoked \in BOOLEAN /\ failedLog \in BOOLEAN /\ unsure \in BOOLEAN /\ unlogged \in BOOLEAN
        BY <1>1
    <2>4. refundType \in {"balance", "subscription"} /\ traded \in BOOLEAN /\ holding \in Int
        BY <1>1
    <2> QED BY <1>4, <2>1, <2>2, <2>3, <2>4 DEF R!TypeOK
<1>7. R!OneRefundAtATime /\ PaidBackStands /\ Books
    BY <1>1, <1>5 DEF R!OneRefundAtATime, PaidBackStands, Books
<1>8. R!StuckOnlyByFault
    BY <1>1 DEF R!StuckOnlyByFault
<1> QED BY <1>6, <1>7, <1>8 DEF RefundInv

LEMMA RefundNext == RefundInv /\ [R!Next]_(R!vars) => RefundInv'
<1> SUFFICES ASSUME RefundInv, [R!Next]_(R!vars) PROVE RefundInv'
    OBVIOUS
<1>1. CASE R!Debit
    BY <1>1, DebitKeeps
<1>2. CASE R!RequestRefund
    BY <1>2, RequestKeeps
<1>3. ASSUME NEW r \in Refunds,
             \/ R!PrepareRefund(r) \/ R!Lock(r) \/ R!Deduct(r) \/ R!GatewayRefund(r)
             \/ R!Rollback(r) \/ R!RestoreStatus(r) \/ R!MarkRefundFailed(r)
             \/ R!MarkRefundOk(r) \/ R!Crash(r)
      PROVE  RefundInv'
    BY <1>3, PrepareKeeps, LockKeeps, DeductKeeps, GatewayKeeps, RollbackKeeps, RestoreKeeps,
       FailedKeeps, OkKeeps, CrashKeeps
<1>4. CASE UNCHANGED R!vars
    <2>1. UNCHANGED refundVars
        BY <1>4 DEF R!vars, R!fixed, R!funds, R!hist, refundVars
    <2>2. \A r \in Refunds : (R!Working(r)' <=> R!Working(r)) /\ (Account(r)' <=> Account(r))
        BY <2>1 DEF R!Working, Account, refundVars
    <2>3. R!TypeOK'
        BY <2>1 DEF RefundInv, R!TypeOK, refundVars
    <2>4. R!OneRefundAtATime' /\ PaidBackStands' /\ R!StuckOnlyByFault'
        BY <2>1, <2>2 DEF RefundInv, R!OneRefundAtATime, PaidBackStands, R!StuckOnlyByFault,
                          refundVars
    <2>5. Books'
        BY <2>1, <2>2 DEF RefundInv, Books, refundVars
    <2> QED BY <2>3, <2>4, <2>5 DEF RefundInv
<1> QED BY <1>1, <1>2, <1>3, <1>4 DEF R!Next

\* A behaviour of the refunds leaves the payment where it starts, and the
\* other way round.
LEMMA RefundInvariant == MCSpec => []RefundInv
<1>1. MCInit => RefundInv
    BY RefundInit DEF MCInit
<1>2. RefundInv /\ [MCNext]_<<part, vars, refundVars>> => RefundInv'
    <2> SUFFICES ASSUME RefundInv, [MCNext]_<<part, vars, refundVars>> PROVE RefundInv'
        OBVIOUS
    <2>1. R!Next \/ UNCHANGED refundVars
        BY DEF MCNext
    <2>2. UNCHANGED refundVars => UNCHANGED R!vars
        BY DEF R!vars, R!fixed, R!funds, R!hist, refundVars
    <2> QED BY <2>1, <2>2, RefundNext
<1> QED BY <1>1, <1>2, PTL DEF MCSpec

(* One refund of the order is between its lock and its last write at a     *)
(* time, and the order is REFUNDING while it is: the writes of             *)
(* restoreStatus, handleGwFail and markRefundOk look at no status.         *)
THEOREM RefundsRunAlone == MCSpec => []OneRefundAtATime
<1>1. RefundInv => OneRefundAtATime
    BY DEF RefundInv, OneRefundAtATime
<1> QED BY <1>1, RefundInvariant, PTL

(* Over all refunds of the order, whichever of their statements fail: the  *)
(* gateway pays back at most the order and what it has paid is not offered *)
(* again.  Beside what statements deducted that answered an error, the user*)
(* is deducted at most the order, and an order that is open to a refund has*)
(* its deduction back unless the audit log says otherwise.  Only a fault   *)
(* leaves it REFUNDING with nobody at work.                                *)
THEOREM RefundsAreSound == MCSpec => []RefundsSound
<1>1. RefundInv => R!RefundWithinAmount
    BY RefundConstants DEF RefundInv, PaidBackStands, R!RefundWithinAmount, R!TypeOK,
                           R!RefundsAssumption
<1>2. RefundInv => R!PaidBackIsFinal
    BY DEF RefundInv, PaidBackStands, R!PaidBackIsFinal
<1>3. RefundInv => R!GivenBackUnlessLogged /\ R!DeductedWithinAmount
    <2> SUFFICES ASSUME RefundInv PROVE R!GivenBackUnlessLogged /\ R!DeductedWithinAmount
        OBVIOUS
    <2>1. net \in Int /\ kept \in Int /\ Amount \in Int
        BY RefundConstants DEF RefundInv, R!TypeOK, R!RefundsAssumption
    <2>2. ~unlogged => net - kept <= Amount
        BY DEF RefundInv, Books
    <2>3. ~unlogged /\ ~failedLog /\ refundStatus \in R!Refundable => net - kept <= 0
        BY DEF RefundInv, Books
    <2>4. net - kept <= Amount => net <= Amount + kept
        BY <2>1
    <2>5. net - kept <= 0 => net <= kept
        BY <2>1
    <2> QED BY <2>2, <2>3, <2>4, <2>5 DEF R!GivenBackUnlessLogged, R!DeductedWithinAmount
<1>4. RefundInv => RefundsSound
    BY <1>1, <1>2, <1>3 DEF RefundInv, RefundsSound, R!RefundsSound
<1> QED BY <1>4, RefundInvariant, PTL
=============================================================================
