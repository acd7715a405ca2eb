--------------------------- MODULE MCPaymentOrders ---------------------------
(* An order up to its fulfilment, and the refunds of a completed order.    *)
(* The actions of PaymentOrders do to an order in a status of a refund     *)
(* what they do to a completed one, nothing, and those of PaymentRefunds   *)
(* touch no other order: TLC checks the two side by side, a behaviour      *)
(* belongs to one of them and leaves the other where it starts.            *)
EXTENDS PaymentOrders

CONSTANTS Refunds, Amount, StartHolding, MaxDebits, MaxRefundFaults

VARIABLES part, refundType, traded, refundStatus, holding, revoked, failedLog, gateway, refund,
          debits, refundFaults, net, kept, unsure, unlogged

refundVars == <<refundType, traded, refundStatus, holding, revoked, failedLog, gateway, refund,
                debits, refundFaults, net, kept, unsure, unlogged>>

R == INSTANCE PaymentRefunds WITH type <- refundType, status <- refundStatus,
                                  faults <- refundFaults, MaxFaults <- MaxRefundFaults

ASSUME RefundConstants == R!RefundsAssumption

(* The choices of the part that stays where it starts are tied to those of *)
(* the other.                                                              *)
MCInit ==
    /\ part \in {"order", "refund"} /\ Init /\ R!Init
    /\ part = "refund" => \A o \in Orders : type[o] = refundType
    /\ part = "order" => /\ \A o \in Orders : refundType = type[o]
                         /\ traded /\ \A n \in StartHolding : holding <= n

MCNext ==
    /\ UNCHANGED part
    /\ \/ part = "order" /\ Next /\ UNCHANGED refundVars
       \/ part = "refund" /\ R!Next /\ UNCHANGED vars

MCSpec == MCInit /\ [][MCNext]_<<part, vars, refundVars>> /\ Fairness

(* PaymentRefunds: one refund at a time, and what all of them together     *)
(* give back.                                                              *)
OneRefundAtATime == R!OneRefundAtATime
RefundsSound     == R!RefundsSound
=============================================================================
