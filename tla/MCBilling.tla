------------------------------ MODULE MCBilling ------------------------------
(***************************************************************************)
(* A small instance of Billing for TLC: two plans, of which one brings the *)
(* only module, and a third offer that is not active.                      *)
(***************************************************************************)
EXTENDS Billing, TLC

MCOffer(price, active, modules) == [price |-> price, active |-> active, modules |-> modules]
MCOffers == {MCOffer(1, TRUE, {}), MCOffer(2, TRUE, Modules), MCOffer(1, FALSE, {})}
MCFirstOffers == [p \in Plans |-> IF p = "starter" THEN MCOffer(1, TRUE, {})
                                  ELSE MCOffer(2, TRUE, Modules)]
MCPlanRows == {[price |-> 5, active |-> TRUE], [price |-> 5, active |-> FALSE]}
MCFirstPlanRows == [p \in Plans |-> [price |-> 5, active |-> TRUE]]

MCSymmetry == Permutations(Requests) \cup Permutations(Transactions)
=============================================================================
