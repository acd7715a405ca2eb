-------------------------- MODULE MCPaymentBridge --------------------------
(* Small instances of PaymentBridge, and of the move of an account to the  *)
(* authority, which comes before it. They share no variable, so TLC checks *)
(* them side by side: a behaviour belongs to one of them and leaves the    *)
(* other where it starts.                                                  *)
EXTENDS PaymentBridge, TLC

CONSTANTS p1, p2, Writers, Operators, Batches, Nothing, MinBalance, StartBalance

VARIABLES part, route, money, holder, writer, command, files, recorded, raced

routeVars == <<route, money, holder, writer, command, files, recorded, raced>>

A == INSTANCE AuthorityRoute

ASSUME AuthorityAssumption == A!AuthorityAssumption

\* An order for each kind of provider, sold by the authority or imported. The
\* adapters for Stripe, Alipay and WeChat Pay find a refund by our request, the
\* one for EasyPay not at all; the bridge also serves one that knows its own id.
Stripe   == [imported |-> FALSE, byReference |-> TRUE,  refundQuery |-> "request"]
Alipay   == [imported |-> FALSE, byReference |-> FALSE, refundQuery |-> "request"]
EasyPay  == [imported |-> FALSE, byReference |-> FALSE, refundQuery |-> "none"]
WithId   == [imported |-> FALSE, byReference |-> FALSE, refundQuery |-> "id"]
Adopted(kind) == [kind EXCEPT !.imported = TRUE]

NewOrders == {Stripe, Alipay, EasyPay, WithId}
AllOrders == NewOrders \cup {Adopted(kind) : kind \in NewOrders}

\* The choice of an order is tied while the account moves.
MCInit ==
    /\ part \in {"bridge", "move"} /\ Init /\ A!Init
    /\ part = "move" => order = Stripe

MCNext ==
    /\ UNCHANGED part
    /\ \/ part = "bridge" /\ Next /\ UNCHANGED routeVars
       \/ part = "move" /\ A!Next /\ UNCHANGED vars

MCSpec == MCInit /\ [][MCNext]_<<part, vars, routeVars>>

Symmetry ==
    Permutations(Processes) \cup Permutations(Writers) \cup
    Permutations(Operators) \cup Permutations(Batches)

\* AuthorityRoute: the authority opens the account with exactly the funds the
\* local rows keep, and no work admitted before is lost.
SwitchSound == A!SwitchSound

\* AuthorityRoute: the funds of a fenced account stay as they are.
FencedMoneyStands == A!FencedMoneyStands
=============================================================================
