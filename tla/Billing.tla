------------------------------- MODULE Billing -------------------------------
(***************************************************************************)
(* Invoices and manual payments of the tenant of Subscriptions             *)
(* (web_payment_invoice_api.go, web_payment_transaction_api.go).  A        *)
(* payment is logged, then approved or rejected by a superadmin who has    *)
(* read its status first; the approval pays the invoice, whatever state it *)
(* is in, and makes the subscription active, which a recalculation of      *)
(* Subscriptions may undo.                                                 *)
(*                                                                         *)
(* The tables are taken to have the columns the handlers name: the code    *)
(* that would create them is never called.  Taxes are left out.            *)
(***************************************************************************)
EXTENDS Subscriptions

CONSTANTS MaxInvoices, Transactions, NoInvoice

ASSUME BillingAssumption ==
  MaxInvoices \in Nat /\ NoInvoice \notin Nat /\ IsFiniteSet(Transactions)

VARIABLES invoice,      \* invoices, by number
          transaction,  \* transactions
          disputed      \* history: decided again by a superadmin who was late

payVars == <<invoice, transaction, disputed>>
vars == <<subVars, payVars>>

Numbers == 1..MaxInvoices
Unpaid(total) == [status |-> "pending", total |-> total, paid |-> 0, due |-> total]
NotMade == [status |-> "none", total |-> 0, paid |-> 0, due |-> 0]
NotLogged == [status |-> "none", invoice |-> NoInvoice]

BillingTypeOK ==
  /\ SubscriptionTypeOK
  /\ invoice \in [Numbers -> [status: {"none", "pending", "paid", "cancelled"},
                              total: Nat, paid: Nat, due: Nat]]
  /\ transaction \in [Transactions -> [status: {"none", "pending_approval", "completed", "failed"},
                                       invoice: Numbers \cup {NoInvoice}]]
  /\ disputed \subseteq Transactions
  /\ \A t \in Transactions : transaction[t].invoice # NoInvoice =>
                               invoice[transaction[t].invoice].status # "none"

Init ==
  /\ SubInit
  /\ invoice = [n \in Numbers |-> NotMade]
  /\ transaction = [t \in Transactions |-> NotLogged]
  /\ disputed = {}

-----------------------------------------------------------------------------
\* The invoices there are number themselves: the next one takes their count plus one.
Count == Cardinality({n \in Numbers : invoice[n].status # "none"})

\* Request r starts with the transaction or invoice number `arg` before it.
Start(r, op, arg, base) ==
  req' = [req EXCEPT ![r] = [Idle EXCEPT !.op = op, !.at = "write", !.arg = arg, !.base = base]]

\* generateInvoice reads the plan's amount and the number before its transaction.
GenerateBegin(r) ==
  /\ req[r] = Idle
  /\ Count < MaxInvoices
  /\ Start(r, "generate", Count + 1, subscription.base)
  /\ UNCHANGED <<subscription, owned, matrix, plans, catalog, begun, chosen, outdated, payVars>>

\* Faulty: the invoice that has the number already is written over.
GenerateReplaces(r) ==
  /\ req[r].at = "write" /\ req[r].op = "generate"
  /\ invoice' = IF \E m \in Modules : owned[m].enabled /\ owned[m].source # "plan"
                THEN invoice
                ELSE [invoice EXCEPT ![req[r].arg] = Unpaid(req[r].base)]
  /\ req' = [req EXCEPT ![r] = Idle]
  /\ UNCHANGED <<subscription, owned, matrix, plans, catalog, begun, chosen, outdated>>
  /\ UNCHANGED <<transaction, disputed>>

\* The number may have been taken.  An add-on fails the transaction: its line is inserted
\* while the query of the add-ons is still open on the same connection.
GenerateWrite(r) ==
  /\ req[r].at = "write" /\ req[r].op = "generate"
  /\ LET n == req[r].arg IN
       invoice' = IF \/ invoice[n].status # "none"
                     \/ \E m \in Modules : owned[m].enabled /\ owned[m].source # "plan"
                  THEN invoice
                  ELSE [invoice EXCEPT ![n] = Unpaid(req[r].base)]
  /\ req' = [req EXCEPT ![r] = Idle]
  /\ UNCHANGED <<subscription, owned, matrix, plans, catalog, begun, chosen, outdated>>
  /\ UNCHANGED <<transaction, disputed>>

\* cancelInvoice, of an invoice in any state.
Cancel(n) ==
  /\ invoice[n].status \notin {"none", "cancelled"}
  /\ invoice' = [invoice EXCEPT ![n].status = "cancelled"]
  /\ UNCHANGED <<subVars, transaction, disputed>>

\* handlePaymentLogManual; a payment need not name an invoice.
LogManual(t) ==
  /\ transaction[t].status = "none"
  /\ \E n \in {k \in Numbers : invoice[k].status # "none"} \cup {NoInvoice} :
       transaction' = [transaction EXCEPT ![t] = [status |-> "pending_approval", invoice |-> n]]
  /\ UNCHANGED <<subVars, invoice, disputed>>

\* handlePaymentApprove and handlePaymentReject read the status without a lock.
DecideBegin(r) ==
  /\ req[r] = Idle /\ OneMore
  /\ \E t \in Transactions, op \in {"approve", "reject"} :
       /\ transaction[t].status = "pending_approval"
       /\ Start(r, op, t, 0)
  /\ UNCHANGED <<subscription, owned, matrix, plans, catalog, chosen, outdated, payVars>>

\* Transaction t is decided, by its id only.
Decide(t, status) ==
  /\ transaction' = [transaction EXCEPT ![t].status = status]
  /\ disputed' = IF transaction[t].status = "pending_approval" THEN disputed
                 ELSE disputed \cup {t}

\* The approval's transaction: the payment, its invoice and the subscription.
ApproveWrite(r) ==
  /\ req[r].at = "write" /\ req[r].op = "approve"
  /\ LET t == req[r].arg
         n == transaction[t].invoice
         active == [subscription EXCEPT !.status = "active"]
     IN /\ Decide(t, "completed")
        /\ invoice' = IF n = NoInvoice THEN invoice
                      ELSE [invoice EXCEPT ![n].status = "paid", ![n].paid = invoice[n].due,
                                           ![n].due = 0]
        /\ subscription' = active
        /\ chosen' = [chosen EXCEPT !.status = "active"]
        /\ req' = [Late(IF active = subscription THEN {} ELSE {"row"}) EXCEPT ![r] = Idle]
  /\ UNCHANGED <<owned, matrix, plans, catalog, begun, outdated>>

RejectWrite(r) ==
  /\ req[r].at = "write" /\ req[r].op = "reject"
  /\ Decide(req[r].arg, "failed")
  /\ req' = [req EXCEPT ![r] = Idle]
  /\ UNCHANGED <<subscription, owned, matrix, plans, catalog, begun, chosen, outdated, invoice>>

Next ==
  \/ SubNext /\ UNCHANGED payVars
  \/ \E r \in Requests :
       \/ GenerateBegin(r) \/ GenerateWrite(r)
       \/ DecideBegin(r) \/ ApproveWrite(r) \/ RejectWrite(r)
  \/ \E n \in Numbers : Cancel(n)
  \/ \E t \in Transactions : LogManual(t)

Spec == Init /\ [][Next]_vars

-----------------------------------------------------------------------------
(***************************************************************************)
(* Properties.                                                             *)
(***************************************************************************)
Completed(n) == {t \in Transactions : /\ transaction[t].invoice = n
                                      /\ transaction[t].status = "completed"}

\* An invoice is paid by approved payments only, in full by the first of them; only a
\* superadmin who decides on a payment that another one has decided meanwhile can leave it
\* paid without one.  A second approval sets amount_paid to 0.
PaidIsCovered ==
  \A n \in Numbers :
    (\A t \in disputed : transaction[t].invoice # n) =>
      /\ invoice[n].status = "paid" => Completed(n) # {}
      /\ Completed(n) # {} => invoice[n].status # "pending"
      /\ Completed(n) = {} => invoice[n].paid = 0 /\ invoice[n].due = invoice[n].total
      /\ Cardinality(Completed(n)) = 1 => invoice[n].paid = invoice[n].total
=============================================================================
