---------------------------- MODULE BillingProofs ----------------------------
(***************************************************************************)
(* Proofs about Billing, for any plans, modules, requests, invoices and    *)
(* payments: the types, that the plan and status of the tenant are those   *)
(* chosen last (PlanIsKept), that the amount is what it owes (AmountIsOwed)*)
(* and that invoices are paid by approved payments only (PaidIsCovered).   *)
(*                                                                         *)
(* The recalculation writes back what it has read, a statement at a time.  *)
(* What makes the properties inductive is what a request in flight knows:  *)
(* one not marked late has read the plan and status there are              *)
(* (RowIsFresh), and its price and its sum are what they would be now      *)
(* (IsFresh).  That the recalculation's sum over the add-ons and the sum   *)
(* of what is owed over all modules are the same number is a fact about    *)
(* sums over finite sets, proved first by induction on the subsets.        *)
(***************************************************************************)
EXTENDS Billing, WellFoundedInduction, FiniteSetTheorems, TLAPS

\* A request with these fields.
Fields(op, at, arg, row, base, addons, late) ==
  [op |-> op, at |-> at, arg |-> arg, row |-> row, base |-> base, addons |-> addons,
   late |-> late]

\* Requests, and the choices in them and in the row, are records with the fields they
\* should have.
IsChoice(c) == c = [plan |-> c.plan, status |-> c.status]
IsRequest(q) ==
  /\ q = [op |-> q.op, at |-> q.at, arg |-> q.arg, row |-> q.row, base |-> q.base,
          addons |-> q.addons, late |-> q.late]
  /\ IsChoice(q.row)
  /\ q.op = "save" /\ q.at = "write" => IsChoice(q.arg)
Shaped ==
  /\ req = [r \in Requests |-> req[r]] /\ \A r \in Requests : IsRequest(req[r])
  /\ subscription = [plan |-> subscription.plan, status |-> subscription.status,
                     base |-> subscription.base, addons |-> subscription.addons,
                     amount |-> subscription.amount]

\* Steps of the recalculation after the row has been read.
Reading == {"base", "addons", "total"}

\* A recalculation that is not late has read the plan and status there are.
RowIsFresh ==
  \A r \in Requests : req[r].at \in Reading /\ "row" \notin req[r].late
                        => req[r].row = ChoiceOf(subscription)

\* The choice that stands: the first part of the inductive invariant.
Chooses == Shaped /\ RowIsFresh /\ PlanIsKept

\* What a request carries while its first write is still to come.
Asked(q) ==
  q.at = "write" =>
    /\ q.op = "save" => q.arg \in [plan: Plans, status: Statuses]
    /\ q.op = "module" => q.arg \in [module: Modules, enabled: BOOLEAN,
                                     source: {"plan", "manual"}]
    /\ q.op = "price" => q.arg \in [module: Modules, price: Overrides]
    /\ q.op = "generate" => q.arg \in Numbers
    /\ q.op \in {"approve", "reject"} => q.arg \in Transactions

\* A request and what it has read have their types.
IsTyped(q) ==
  /\ q.row \in Choice /\ q.base \in Nat /\ q.addons \in Nat
  /\ q.at = "total" => q.row.plan # NoPlan
  /\ Asked(q)

\* What a recalculation that is not late has read and summed is what it would be now.
IsFresh(q) ==
  "amount" \notin q.late =>
    /\ q.at \in {"addons", "total"} => q.base = BasePrice(q.row.plan)
    /\ q.at = "total" => q.addons = AddonsFor(q.row.plan)

\* The amount that is owed: the second part.
Owes ==
  /\ BillingTypeOK
  /\ \A r \in Requests : IsTyped(req[r]) /\ IsFresh(req[r])
  /\ AmountIsOwed

\* A payment that is not logged names no invoice.
Blank ==
  \A t \in Transactions : transaction[t].status = "none" => transaction[t].invoice = NoInvoice

\* One invoice is covered by its payments.
Covered(n) ==
  (\A t \in disputed : transaction[t].invoice # n) =>
    /\ invoice[n].status = "paid" => Completed(n) # {}
    /\ Completed(n) # {} => invoice[n].status # "pending"
    /\ Completed(n) = {} => invoice[n].paid = 0 /\ invoice[n].due = invoice[n].total
    /\ Cardinality(Completed(n)) = 1 => invoice[n].paid = invoice[n].total

\* Invoices and their payments: the third part.
Paid == Blank /\ \A n \in Numbers : Covered(n)

\* The inductive invariant.
IInv == Chooses /\ Owes /\ Paid

\* The types of everything but the requests.
Columns ==
  /\ subscription \in Subscription
  /\ owned \in [Modules -> [there: BOOLEAN, enabled: BOOLEAN, source: {"plan", "manual"},
                            price: Nat, agreed: BOOLEAN]]
  /\ matrix \in [Plans -> [price: Nat, active: BOOLEAN, modules: SUBSET Modules]]
  /\ plans \in [Plans -> PlanRows]
  /\ catalog \in [Modules -> [price: ListPrices, active: BOOLEAN]]
  /\ chosen \in Choice
  /\ outdated \in BOOLEAN
  /\ begun \in 0..MaxRequests

\* The types of invoices and payments: a payment names an invoice there is.
Payments ==
  /\ invoice \in [Numbers -> [status: {"none", "pending", "paid", "cancelled"},
                              total: Nat, paid: Nat, due: Nat]]
  /\ transaction \in [Transactions -> [status: {"none", "pending_approval", "completed", "failed"},
                                       invoice: Numbers \cup {NoInvoice}]]
  /\ disputed \subseteq Transactions
  /\ \A t \in Transactions : transaction[t].invoice # NoInvoice =>
                               invoice[transaction[t].invoice].status # "none"

-----------------------------------------------------------------------------
(***************************************************************************)
(* The choice: what the actions share.                                     *)
(***************************************************************************)

\* Marking requests as late changes nothing else of them.
LEMMA LateFacts ==
  ASSUME Shaped, NEW what
  PROVE  /\ Late(what) = [r \in Requests |-> Late(what)[r]]
         /\ \A r \in Requests :
              /\ IsRequest(Late(what)[r])
              /\ Late(what)[r].at = req[r].at /\ Late(what)[r].row = req[r].row
              /\ req[r].at \in Reading => Late(what)[r].late = req[r].late \cup what
<1>1. \A r \in Requests :
        /\ IsRequest(Late(what)[r])
        /\ Late(what)[r].at = req[r].at /\ Late(what)[r].row = req[r].row
        /\ req[r].at \in Reading => Late(what)[r].late = req[r].late \cup what
  <2> SUFFICES ASSUME NEW r \in Requests
               PROVE  /\ IsRequest(Late(what)[r])
                      /\ Late(what)[r].at = req[r].at /\ Late(what)[r].row = req[r].row
                      /\ req[r].at \in Reading => Late(what)[r].late = req[r].late \cup what
    OBVIOUS
  <2>1. IsRequest(req[r])
    BY DEF Shaped
  <2>2. CASE Recalculating(r)
    <3>1. Late(what)[r] = [req[r] EXCEPT !.late = req[r].late \cup what]
      BY <2>2 DEF Late
    <3>2. Late(what)[r] =
            [op |-> req[r].op, at |-> req[r].at, arg |-> req[r].arg, row |-> req[r].row,
             base |-> req[r].base, addons |-> req[r].addons, late |-> req[r].late \cup what]
      BY <2>1, <3>1 DEF IsRequest
    <3> QED
      BY <2>1, <3>2 DEF IsRequest
  <2>3. CASE ~Recalculating(r)
    <3>1. Late(what)[r] = req[r]
      BY <2>3 DEF Late
    <3> QED
      BY <2>1, <2>3, <3>1 DEF Recalculating, Reading
  <2> QED
    BY <2>2, <2>3
<1>2. Late(what) = [r \in Requests |-> Late(what)[r]]
  BY DEF Late
<1> QED
  BY <1>1, <1>2

\* Marking requests as late keeps what is known of them, if the row keeps its plan and
\* status or they are told.
LEMMA MarkKeeps ==
  ASSUME Shaped, RowIsFresh, NEW what, req' = Late(what),
         \/ UNCHANGED subscription
         \/ /\ "row" \in what
            /\ subscription' = [plan |-> subscription'.plan, status |-> subscription'.status,
                                base |-> subscription'.base, addons |-> subscription'.addons,
                                amount |-> subscription'.amount]
  PROVE  Shaped' /\ RowIsFresh'
<1>1. Shaped'
  BY LateFacts DEF Shaped
<1>2. RowIsFresh'
  BY LateFacts DEF RowIsFresh
<1> QED
  BY <1>1, <1>2

\* So does a request r that goes on as `new` meanwhile.
LEMMA GoesOnKeeps ==
  ASSUME Shaped, RowIsFresh, NEW what, NEW r \in Requests, NEW new, IsRequest(new),
         req' = [Late(what) EXCEPT ![r] = new],
         new.at \in Reading /\ "row" \notin new.late => new.row = ChoiceOf(subscription'),
         \/ UNCHANGED subscription
         \/ ChoiceOf(subscription') = ChoiceOf(subscription)
            /\ subscription' = [plan |-> subscription'.plan, status |-> subscription'.status,
                                base |-> subscription'.base, addons |-> subscription'.addons,
                                amount |-> subscription'.amount]
         \/ /\ "row" \in what
            /\ subscription' = [plan |-> subscription'.plan, status |-> subscription'.status,
                                base |-> subscription'.base, addons |-> subscription'.addons,
                                amount |-> subscription'.amount]
  PROVE  Shaped' /\ RowIsFresh'
<1>1. /\ req' = [q \in Requests |-> req'[q]]
      /\ req'[r] = new /\ \A q \in Requests \ {r} : req'[q] = Late(what)[q]
  BY LateFacts
<1>2. Shaped'
  BY <1>1, LateFacts DEF Shaped
<1>3. RowIsFresh'
  BY <1>1, LateFacts DEF RowIsFresh
<1> QED
  BY <1>2, <1>3

\* And a request that goes on, with no other marked.
LEMMA AloneKeeps ==
  ASSUME Shaped, RowIsFresh, NEW r \in Requests, NEW new, IsRequest(new),
         req' = [req EXCEPT ![r] = new],
         new.at \in Reading /\ "row" \notin new.late => new.row = ChoiceOf(subscription),
         UNCHANGED subscription
  PROVE  Shaped' /\ RowIsFresh'
<1>1. /\ req' = [q \in Requests |-> req'[q]]
      /\ req'[r] = new /\ \A q \in Requests \ {r} : req'[q] = req[q]
  BY DEF Shaped
<1>2. Shaped'
  BY <1>1 DEF Shaped
<1>3. RowIsFresh'
  BY <1>1 DEF RowIsFresh
<1> QED
  BY <1>2, <1>3

\* A request that has nothing to do, by its fields.
LEMMA IdleFields == Idle = Fields("none", "idle", NoChoice, NoChoice, 0, 0, {})
BY DEF Idle, Fields

\* The one that begins.
LEMMA BeginFields ==
  ASSUME NEW op, NEW arg, NEW base
  PROVE  [Idle EXCEPT !.op = op, !.at = "write", !.arg = arg, !.base = base]
           = Fields(op, "write", arg, NoChoice, base, 0, {})
<1> DEFINE q1 == [Idle EXCEPT !.op = op]
           q2 == [q1 EXCEPT !.at = "write"]
           q3 == [q2 EXCEPT !.arg = arg]
           q4 == [q3 EXCEPT !.base = base]
<1>1. q1 = Fields(op, "idle", NoChoice, NoChoice, 0, 0, {})
  <2>1. [Fields("none", "idle", NoChoice, NoChoice, 0, 0, {}) EXCEPT !.op = op] =
          Fields(op, "idle", NoChoice, NoChoice, 0, 0, {})
    BY DEF Fields
  <2>2. q1 = [Fields("none", "idle", NoChoice, NoChoice, 0, 0, {}) EXCEPT !.op = op]
    BY IdleFields, Zenon
  <2> QED
    BY <2>1, <2>2, Zenon
<1>2. q2 = Fields(op, "write", NoChoice, NoChoice, 0, 0, {})
  <2>1. [Fields(op, "idle", NoChoice, NoChoice, 0, 0, {}) EXCEPT !.at = "write"] =
          Fields(op, "write", NoChoice, NoChoice, 0, 0, {})
    BY DEF Fields
  <2>2. q2 = [Fields(op, "idle", NoChoice, NoChoice, 0, 0, {}) EXCEPT !.at = "write"]
    BY <1>1, Zenon
  <2> QED
    BY <2>1, <2>2, Zenon
<1>3. q3 = Fields(op, "write", arg, NoChoice, 0, 0, {})
  <2>1. [Fields(op, "write", NoChoice, NoChoice, 0, 0, {}) EXCEPT !.arg = arg] =
          Fields(op, "write", arg, NoChoice, 0, 0, {})
    BY DEF Fields
  <2>2. q3 = [Fields(op, "write", NoChoice, NoChoice, 0, 0, {}) EXCEPT !.arg = arg]
    BY <1>2, Zenon
  <2> QED
    BY <2>1, <2>2, Zenon
<1>4. q4 = Fields(op, "write", arg, NoChoice, base, 0, {})
  <2>1. [Fields(op, "write", arg, NoChoice, 0, 0, {}) EXCEPT !.base = base] =
          Fields(op, "write", arg, NoChoice, base, 0, {})
    BY DEF Fields
  <2>2. q4 = [Fields(op, "write", arg, NoChoice, 0, 0, {}) EXCEPT !.base = base]
    BY <1>3, Zenon
  <2> QED
    BY <2>1, <2>2, Zenon
<1> QED
  BY <1>4

\* The requests that start or end are well formed.
LEMMA IdleShape ==
  /\ IsRequest(Idle) /\ Idle.at \notin Reading
  /\ IsRequest(Recalculate) /\ Recalculate.at \notin Reading
  /\ \A op, arg, base :
       (op = "save" => IsChoice(arg))
       => LET new == [Idle EXCEPT !.op = op, !.at = "write", !.arg = arg, !.base = base]
          IN  IsRequest(new) /\ new.at \notin Reading
<1>1. IsChoice(NoChoice)
  BY DEF IsChoice, NoChoice
<1>2. IsRequest(Idle) /\ Idle.at \notin Reading
  BY <1>1 DEF IsRequest, Idle, Reading
<1>3. Recalculate = Fields("none", "row", NoChoice, NoChoice, 0, 0, {})
  <2>1. [Fields("none", "idle", NoChoice, NoChoice, 0, 0, {}) EXCEPT !.at = "row"] =
          Fields("none", "row", NoChoice, NoChoice, 0, 0, {})
    BY DEF Fields
  <2>2. Recalculate = [Fields("none", "idle", NoChoice, NoChoice, 0, 0, {}) EXCEPT !.at = "row"]
    BY IdleFields, Zenon DEF Recalculate
  <2> QED
    BY <2>1, <2>2, Zenon
<1>4. IsRequest(Recalculate) /\ Recalculate.at \notin Reading
  BY <1>1, <1>3 DEF IsRequest, Reading, Fields
<1>5. ASSUME NEW op, NEW arg, NEW base, op = "save" => IsChoice(arg)
      PROVE  LET new == [Idle EXCEPT !.op = op, !.at = "write", !.arg = arg, !.base = base]
             IN  IsRequest(new) /\ new.at \notin Reading
  <2> DEFINE q == Fields(op, "write", arg, NoChoice, base, 0, {})
  <2>1. IsRequest(q) /\ q.at \notin Reading
    BY <1>1, <1>5 DEF IsRequest, Reading, Fields
  <2> QED
    BY <2>1, BeginFields
<1> QED
  BY <1>2, <1>4, <1>5

-----------------------------------------------------------------------------
(***************************************************************************)
(* Every action keeps the choice.                                          *)
(***************************************************************************)

\* At the start there is no row and no request.
LEMMA InitChooses == Init => Chooses
<1> SUFFICES ASSUME Init PROVE Chooses
  OBVIOUS
<1>1. subscription = NoSubscription /\ chosen = NoChoice /\ req = [r \in Requests |-> Idle]
  BY DEF Init, SubInit
<1>2. Shaped
  BY <1>1, IdleShape DEF Shaped, NoSubscription
<1>3. RowIsFresh
  BY <1>1, IdleShape DEF RowIsFresh
<1>4. PlanIsKept
  BY <1>1 DEF PlanIsKept, ChoiceOf, NoSubscription, NoChoice
<1> QED
  BY <1>2, <1>3, <1>4 DEF Chooses

\* What only changes prices and offers.
LEMMA OffersKeep == ASSUME Chooses, Reseed \/ MatrixSave \/ PlanSave \/ CatalogEdit PROVE Chooses'
<1>1. req' = Late({"amount"}) /\ UNCHANGED <<subscription, chosen>>
  BY DEF Reseed, MatrixSave, PlanSave, CatalogEdit
<1>2. Shaped' /\ RowIsFresh'
  BY <1>1, MarkKeeps DEF Chooses
<1> QED
  BY <1>1, <1>2 DEF Chooses, PlanIsKept

\* A request begins.
LEMMA BeginKeeps ==
  ASSUME Chooses, NEW r \in Requests, SaveBegin(r) \/ ModuleBegin(r) \/ PriceBegin(r)
  PROVE  Chooses'
<1>1. UNCHANGED <<subscription, chosen>>
  BY DEF SaveBegin, ModuleBegin, PriceBegin
<1>2. PICK op, arg, base : (op = "save" => IsChoice(arg)) /\ Begin(r, op, arg, base)
  <2>1. CASE SaveBegin(r)
    BY <2>1 DEF SaveBegin, IsChoice
  <2>2. CASE ModuleBegin(r)
    BY <2>2 DEF ModuleBegin
  <2>3. CASE PriceBegin(r)
    BY <2>3 DEF PriceBegin
  <2> QED
    BY <2>1, <2>2, <2>3
<1>3. Shaped' /\ RowIsFresh'
  BY <1>1, <1>2, IdleShape, GoesOnKeeps DEF Chooses, Begin
<1> QED
  BY <1>1, <1>3 DEF Chooses, PlanIsKept

\* An invoice or a decision begins.
LEMMA StartKeeps ==
  ASSUME Chooses, NEW r \in Requests, GenerateBegin(r) \/ DecideBegin(r) PROVE Chooses'
<1>1. UNCHANGED <<subscription, chosen>>
  BY DEF GenerateBegin, DecideBegin
<1>2. PICK op, arg, base : op # "save" /\ Start(r, op, arg, base)
  <2>1. CASE GenerateBegin(r)
    BY <2>1 DEF GenerateBegin
  <2>2. CASE DecideBegin(r)
    BY <2>2 DEF DecideBegin
  <2> QED
    BY <2>1, <2>2
<1>3. Shaped' /\ RowIsFresh'
  BY <1>1, <1>2, IdleShape, AloneKeeps DEF Chooses, Start
<1> QED
  BY <1>1, <1>3 DEF Chooses, PlanIsKept

\* A save makes its choice the row's, and every recalculation in flight late.
LEMMA SaveWriteKeeps == ASSUME Chooses, NEW r \in Requests, SaveWrite(r) PROVE Chooses'
<1> DEFINE choice == req[r].arg
<1>1. IsChoice(choice)
  BY DEF Chooses, Shaped, IsRequest, SaveWrite
<1>2. /\ subscription' = [plan |-> choice.plan, status |-> choice.status,
                          base |-> req[r].base, addons |-> subscription.addons,
                          amount |-> req[r].base]
      /\ chosen' = choice
      /\ req' = [Late({"row", "amount"}) EXCEPT ![r] = Recalculate]
  BY DEF SaveWrite
<1>3. PlanIsKept'
  BY <1>1, <1>2 DEF PlanIsKept, ChoiceOf, IsChoice
<1>4. subscription' = [plan |-> subscription'.plan, status |-> subscription'.status,
                       base |-> subscription'.base, addons |-> subscription'.addons,
                       amount |-> subscription'.amount]
  BY <1>2
<1>5. Shaped' /\ RowIsFresh'
  BY <1>2, <1>4, IdleShape, GoesOnKeeps DEF Chooses
<1> QED
  BY <1>3, <1>5 DEF Chooses

\* Modules and prices are written; the row stays.
LEMMA ModuleWritesKeep ==
  ASSUME Chooses, NEW r \in Requests, ModuleWrite(r) \/ PriceWrite(r) PROVE Chooses'
<1>1. /\ UNCHANGED <<subscription, chosen>>
      /\ req' = [Late({"amount"}) EXCEPT ![r] = Recalculate]
  BY DEF ModuleWrite, PriceWrite
<1>2. Shaped' /\ RowIsFresh'
  BY <1>1, IdleShape, GoesOnKeeps DEF Chooses
<1> QED
  BY <1>1, <1>2 DEF Chooses, PlanIsKept

\* What a recalculation that reads goes on with.
LEMMA ReadFields ==
  ASSUME Shaped, NEW r \in Requests
  PROVE  LET q == req[r]
         IN  /\ RecalcRow(r) =>
                  req' = [req EXCEPT ![r] = Fields(q.op, "base", q.arg, ChoiceOf(subscription),
                                                   q.base, q.addons, {})]
             /\ RecalcBase(r) =>
                  req' = [req EXCEPT ![r] = Fields(q.op, "addons", q.arg, q.row,
                                                   BasePrice(q.row.plan), q.addons, q.late)]
             /\ RecalcAddons(r) /\ q.row.plan # NoPlan =>
                  req' = [req EXCEPT ![r] = Fields(q.op, "total", q.arg, q.row, q.base,
                                                   AddonsFor(q.row.plan), q.late)]
<1> DEFINE q == req[r]
           Q(at, row, base, addons, late) == Fields(q.op, at, q.arg, row, base, addons, late)
<1>1. req = [u \in Requests |-> req[u]] /\ IsRequest(q)
  BY DEF Shaped
<1>2. q = Q(q.at, q.row, q.base, q.addons, q.late)
  BY <1>1 DEF IsRequest, Fields
<1>3. ASSUME RecalcRow(r)
      PROVE  req' = [req EXCEPT ![r] = Q("base", ChoiceOf(subscription), q.base, q.addons, {})]
  <2> DEFINE row == ChoiceOf(subscription)
             q1 == [q EXCEPT !.at = "base"]
             q2 == [q1 EXCEPT !.late = {}]
             q3 == [q2 EXCEPT !.row = row]
  <2>1. req' = [req EXCEPT ![r] = q3]
    BY <1>1, <1>3 DEF RecalcRow
  <2>2. q1 = Q("base", q.row, q.base, q.addons, q.late)
    <3>1. [Q(q.at, q.row, q.base, q.addons, q.late) EXCEPT !.at = "base"] =
            Q("base", q.row, q.base, q.addons, q.late)
      BY DEF Fields
    <3>2. q1 = [Q(q.at, q.row, q.base, q.addons, q.late) EXCEPT !.at = "base"]
      BY <1>2, Zenon
    <3> QED
      BY <3>1, <3>2, Zenon
  <2>3. q2 = Q("base", q.row, q.base, q.addons, {})
    <3>1. [Q("base", q.row, q.base, q.addons, q.late) EXCEPT !.late = {}] =
            Q("base", q.row, q.base, q.addons, {})
      BY DEF Fields
    <3>2. q2 = [Q("base", q.row, q.base, q.addons, q.late) EXCEPT !.late = {}]
      BY <2>2, Zenon
    <3> QED
      BY <3>1, <3>2, Zenon
  <2>4. q3 = Q("base", row, q.base, q.addons, {})
    <3>1. [Q("base", q.row, q.base, q.addons, {}) EXCEPT !.row = row] =
            Q("base", row, q.base, q.addons, {})
      BY DEF Fields
    <3>2. q3 = [Q("base", q.row, q.base, q.addons, {}) EXCEPT !.row = row]
      BY <2>3, Zenon
    <3> QED
      BY <3>1, <3>2, Zenon
  <2> QED
    BY <2>1, <2>4, Zenon
<1>4. ASSUME RecalcBase(r)
      PROVE  req' = [req EXCEPT ![r] = Q("addons", q.row, BasePrice(q.row.plan), q.addons,
                                         q.late)]
  <2> DEFINE price == BasePrice(q.row.plan)
             q1 == [q EXCEPT !.at = "addons"]
             q2 == [q1 EXCEPT !.base = price]
  <2>1. req' = [req EXCEPT ![r] = q2]
    BY <1>1, <1>4 DEF RecalcBase
  <2>2. q1 = Q("addons", q.row, q.base, q.addons, q.late)
    <3>1. [Q(q.at, q.row, q.base, q.addons, q.late) EXCEPT !.at = "addons"] =
            Q("addons", q.row, q.base, q.addons, q.late)
      BY DEF Fields
    <3>2. q1 = [Q(q.at, q.row, q.base, q.addons, q.late) EXCEPT !.at = "addons"]
      BY <1>2, Zenon
    <3> QED
      BY <3>1, <3>2, Zenon
  <2>3. q2 = Q("addons", q.row, price, q.addons, q.late)
    <3>1. [Q("addons", q.row, q.base, q.addons, q.late) EXCEPT !.base = price] =
            Q("addons", q.row, price, q.addons, q.late)
      BY DEF Fields
    <3>2. q2 = [Q("addons", q.row, q.base, q.addons, q.late) EXCEPT !.base = price]
      BY <2>2, Zenon
    <3> QED
      BY <3>1, <3>2, Zenon
  <2> QED
    BY <2>1, <2>3, Zenon
<1>5. ASSUME RecalcAddons(r), q.row.plan # NoPlan
      PROVE  req' = [req EXCEPT ![r] = Q("total", q.row, q.base, AddonsFor(q.row.plan), q.late)]
  <2> DEFINE sum == AddonsFor(q.row.plan)
             q1 == [q EXCEPT !.at = "total"]
             q2 == [q1 EXCEPT !.addons = sum]
  <2>1. req' = [req EXCEPT ![r] = q2]
    BY <1>1, <1>5 DEF RecalcAddons
  <2>2. q1 = Q("total", q.row, q.base, q.addons, q.late)
    <3>1. [Q(q.at, q.row, q.base, q.addons, q.late) EXCEPT !.at = "total"] =
            Q("total", q.row, q.base, q.addons, q.late)
      BY DEF Fields
    <3>2. q1 = [Q(q.at, q.row, q.base, q.addons, q.late) EXCEPT !.at = "total"]
      BY <1>2, Zenon
    <3> QED
      BY <3>1, <3>2, Zenon
  <2>3. q2 = Q("total", q.row, q.base, sum, q.late)
    <3>1. [Q("total", q.row, q.base, q.addons, q.late) EXCEPT !.addons = sum] =
            Q("total", q.row, q.base, sum, q.late)
      BY DEF Fields
    <3>2. q2 = [Q("total", q.row, q.base, q.addons, q.late) EXCEPT !.addons = sum]
      BY <2>2, Zenon
    <3> QED
      BY <3>1, <3>2, Zenon
  <2> QED
    BY <2>1, <2>3, Zenon
<1> QED
  BY <1>3, <1>4, <1>5

\* The recalculation reads the row as it is, and then prices.
LEMMA RecalcReadsKeep ==
  ASSUME Chooses, NEW r \in Requests, RecalcRow(r) \/ RecalcBase(r) \/ RecalcAddons(r)
  PROVE  Chooses'
<1> DEFINE q == req[r]
<1>1. UNCHANGED <<subscription, chosen>> /\ Shaped
  BY DEF RecalcRow, RecalcBase, RecalcAddons, Chooses
<1>2. IsRequest(q) /\ IsChoice(q.row)
      /\ (q.at \in Reading /\ "row" \notin q.late => q.row = ChoiceOf(subscription))
  BY DEF Chooses, Shaped, RowIsFresh, IsRequest
<1>3. PICK new : /\ IsRequest(new) /\ req' = [req EXCEPT ![r] = new]
                 /\ new.at \in Reading /\ "row" \notin new.late
                      => new.row = ChoiceOf(subscription)
  <2>1. CASE RecalcRow(r)
    <3> DEFINE new == Fields(q.op, "base", q.arg, ChoiceOf(subscription), q.base, q.addons, {})
    <3>1. req' = [req EXCEPT ![r] = new]
      BY <1>1, <2>1, ReadFields
    <3>2. IsRequest(new) /\ new.row = ChoiceOf(subscription)
      BY DEF IsRequest, IsChoice, ChoiceOf, Fields
    <3> QED
      BY <3>1, <3>2
  <2>2. CASE RecalcBase(r)
    <3> DEFINE new == Fields(q.op, "addons", q.arg, q.row, BasePrice(q.row.plan), q.addons,
                             q.late)
    <3>1. req' = [req EXCEPT ![r] = new]
      BY <1>1, <2>2, ReadFields
    <3>2. IsRequest(new) /\ new.row = q.row /\ new.late = q.late /\ q.at \in Reading
      BY <1>2, <2>2 DEF IsRequest, Fields, RecalcBase, Reading
    <3> QED
      BY <1>2, <3>1, <3>2
  <2>3. CASE RecalcAddons(r) /\ q.row.plan # NoPlan
    <3> DEFINE new == Fields(q.op, "total", q.arg, q.row, q.base, AddonsFor(q.row.plan), q.late)
    <3>1. req' = [req EXCEPT ![r] = new]
      BY <1>1, <2>3, ReadFields
    <3>2. IsRequest(new) /\ new.row = q.row /\ new.late = q.late /\ q.at \in Reading
      BY <1>2, <2>3 DEF IsRequest, Fields, RecalcAddons, Reading
    <3> QED
      BY <1>2, <3>1, <3>2
  <2>4. CASE RecalcAddons(r) /\ q.row.plan = NoPlan
    BY <2>4, IdleShape DEF RecalcAddons
  <2> QED
    BY <2>1, <2>2, <2>3, <2>4
<1>4. Shaped' /\ RowIsFresh'
  BY <1>1, <1>3, AloneKeeps DEF Chooses
<1> QED
  BY <1>1, <1>4 DEF Chooses, PlanIsKept

\* The recalculation writes back what it has read: what there is, unless it is late.
LEMMA RecalcWriteKeeps == ASSUME Chooses, NEW r \in Requests, RecalcWrite(r) PROVE Chooses'
<1> DEFINE row == req[r].row
           what == IF ChoiceOf(subscription) = row THEN {} ELSE {"row", "amount"}
<1>1. /\ subscription' = [plan |-> row.plan, status |-> row.status, base |-> req[r].base,
                          addons |-> req[r].addons, amount |-> req[r].base + req[r].addons]
      /\ chosen' = IF "row" \in req[r].late THEN row ELSE chosen
      /\ req' = [Late(what) EXCEPT ![r] = Idle]
      /\ req[r].at \in Reading
  BY DEF RecalcWrite, Reading
<1>2. IsChoice(row)
  BY DEF Chooses, Shaped, IsRequest
<1>3. ChoiceOf(subscription') = row
  BY <1>1, <1>2 DEF IsChoice, ChoiceOf
<1>4. PlanIsKept'
  BY <1>1, <1>3 DEF Chooses, RowIsFresh, PlanIsKept, ChoiceOf
<1>5. subscription' = [plan |-> subscription'.plan, status |-> subscription'.status,
                       base |-> subscription'.base, addons |-> subscription'.addons,
                       amount |-> subscription'.amount]
  BY <1>1
<1>6. ChoiceOf(subscription') = ChoiceOf(subscription) \/ "row" \in what
  BY <1>3
<1>7. Shaped' /\ RowIsFresh'
  BY <1>1, <1>5, <1>6, IdleShape, GoesOnKeeps DEF Chooses
<1> QED
  BY <1>4, <1>7 DEF Chooses

\* A request ends, having written invoices or payments or nothing.
LEMMA EndsKeep ==
  ASSUME Chooses, NEW r \in Requests, RequestFails(r) \/ GenerateWrite(r) \/ RejectWrite(r)
  PROVE  Chooses'
<1>1. UNCHANGED <<subscription, chosen>> /\ req' = [req EXCEPT ![r] = Idle]
  BY DEF RequestFails, GenerateWrite, RejectWrite
<1>2. Shaped' /\ RowIsFresh'
  BY <1>1, IdleShape, AloneKeeps DEF Chooses
<1> QED
  BY <1>1, <1>2 DEF Chooses, PlanIsKept

\* An approval makes the subscription active, and chooses so.
LEMMA ApproveWriteKeeps == ASSUME Chooses, NEW r \in Requests, ApproveWrite(r) PROVE Chooses'
<1> DEFINE active == [subscription EXCEPT !.status = "active"]
           what == IF active = subscription THEN {} ELSE {"row"}
<1>1. /\ subscription' = active
      /\ chosen' = [chosen EXCEPT !.status = "active"]
      /\ req' = [Late(what) EXCEPT ![r] = Idle]
  BY DEF ApproveWrite
<1>2. subscription' = [plan |-> subscription.plan, status |-> "active",
                       base |-> subscription.base, addons |-> subscription.addons,
                       amount |-> subscription.amount]
  BY <1>1 DEF Chooses, Shaped
<1>3. PlanIsKept'
  BY <1>1, <1>2 DEF Chooses, PlanIsKept, ChoiceOf
<1>4. subscription' = [plan |-> subscription'.plan, status |-> subscription'.status,
                       base |-> subscription'.base, addons |-> subscription'.addons,
                       amount |-> subscription'.amount]
  BY <1>2
<1>5. UNCHANGED subscription \/ "row" \in what
  BY <1>1
<1>6. Shaped' /\ RowIsFresh'
  BY <1>1, <1>4, <1>5, IdleShape, GoesOnKeeps DEF Chooses
<1> QED
  BY <1>3, <1>6 DEF Chooses

\* Nothing of the subscription changes.
LEMMA OthersKeep == ASSUME Chooses, UNCHANGED subVars PROVE Chooses'
BY DEF Chooses, subVars, Shaped, RowIsFresh, PlanIsKept

\* Every step keeps the invariant.
LEMMA NextChooses == Chooses /\ [Next]_vars => Chooses'
<1> SUFFICES ASSUME Chooses, [Next]_vars PROVE Chooses'
  OBVIOUS
<1>1. CASE Reseed \/ MatrixSave \/ PlanSave \/ CatalogEdit
  BY <1>1, OffersKeep
<1>2. ASSUME NEW r \in Requests, SaveBegin(r) \/ ModuleBegin(r) \/ PriceBegin(r) PROVE Chooses'
  BY <1>2, BeginKeeps
<1>3. ASSUME NEW r \in Requests, SaveWrite(r) \/ ModuleWrite(r) \/ PriceWrite(r) PROVE Chooses'
  BY <1>3, SaveWriteKeeps, ModuleWritesKeep
<1>4. ASSUME NEW r \in Requests, RecalcRow(r) \/ RecalcBase(r) \/ RecalcAddons(r) PROVE Chooses'
  BY <1>4, RecalcReadsKeep
<1>5. ASSUME NEW r \in Requests, RecalcWrite(r) PROVE Chooses'
  BY <1>5, RecalcWriteKeeps
<1>6. ASSUME NEW r \in Requests, RequestFails(r) \/ GenerateWrite(r) \/ RejectWrite(r)
      PROVE  Chooses'
  BY <1>6, EndsKeep
<1>7. ASSUME NEW r \in Requests, GenerateBegin(r) \/ DecideBegin(r) PROVE Chooses'
  BY <1>7, StartKeeps
<1>8. ASSUME NEW r \in Requests, ApproveWrite(r) PROVE Chooses'
  BY <1>8, ApproveWriteKeeps
<1>9. CASE (\E n \in Numbers : Cancel(n)) \/ (\E t \in Transactions : LogManual(t))
  <2>1. UNCHANGED subVars
    BY <1>9 DEF Cancel, LogManual
  <2> QED
    BY <2>1, OthersKeep
<1>10. CASE UNCHANGED vars
  BY <1>10, OthersKeep DEF vars
<1> QED
  BY <1>1, <1>2, <1>3, <1>4, <1>5, <1>6, <1>7, <1>8, <1>9, <1>10 DEF Next, SubNext

-----------------------------------------------------------------------------
(***************************************************************************)
(* Sums over finite sets.                                                  *)
(***************************************************************************)

\* A set of numbers that is not empty has a least one.
LEMMA Least ==
  ASSUME NEW T \in SUBSET Nat, T # {}
  PROVE  \E n \in T : \A k \in T : n <= k
<1> DEFINE Less == OpToRel(<, Nat)
<1>1. IsWellFoundedOn(Less, Nat)
  BY NatLessThanWellFounded
<1>2. \A x, y \in Nat : <<x, y>> \in Less <=> x < y
  BY DEF OpToRel
<1> HIDE DEF Less
<1>3. PICK n \in T : \A k \in T : ~(<<k, n>> \in Less)
  BY <1>1, WFMin
<1>4. \A k \in T : ~(k < n)
  BY <1>2, <1>3
<1>5. QED
  BY <1>4

\* The element a fold takes first.
First(s) == CHOOSE x \in s : TRUE

\* g adds up f over every subset of S.
Sums(g, f, S) ==
  g = [s \in SUBSET S |-> IF s = {} THEN 0 ELSE f[First(s)] + g[s \ {First(s)}]]

\* It is an element.
LEMMA FirstIsIn == ASSUME NEW s, s # {} PROVE First(s) \in s
BY DEF First

\* What holds of a subset when it holds of all smaller ones holds of all of them.
LEMMA SubsetInduction ==
  ASSUME NEW S, IsFiniteSet(S), NEW C,
         \A s \in SUBSET S : (\A x \in s : s \ {x} \in C) => s \in C
  PROVE  SUBSET S \subseteq C
<1> SUFFICES ASSUME NEW bad \in SUBSET S, bad \notin C PROVE FALSE
  OBVIOUS
<1> DEFINE T == {n \in Nat : \E s \in SUBSET S : s \notin C /\ n = Cardinality(s)}
<1>1. \A s \in SUBSET S : IsFiniteSet(s) /\ Cardinality(s) \in Nat
  BY FS_Subset, FS_CardinalityType
<1>2. T \in SUBSET Nat /\ T # {}
  BY <1>1
<1>3. PICK n \in T : \A k \in T : n <= k
  BY <1>2, Least
<1>4. PICK s \in SUBSET S : s \notin C /\ n = Cardinality(s)
  OBVIOUS
<1>5. PICK x \in s : s \ {x} \notin C
  BY <1>4
<1>6. Cardinality(s \ {x}) = n - 1
  BY <1>1, <1>4, FS_RemoveElement
<1>7. Cardinality(s \ {x}) \in T
  BY <1>1, <1>5
<1>8. n \in Nat /\ n <= n - 1
  <2> HIDE DEF T
  <2> QED
    BY <1>2, <1>3, <1>6, <1>7
<1> QED
  BY <1>8

\* There is such a g.
LEMMA SumsExist ==
  ASSUME NEW S, IsFiniteSet(S), NEW f
  PROVE  \E g : Sums(g, f, S)
<1> DEFINE Step(g) == [s \in SUBSET S |-> IF s = {} THEN 0 ELSE f[First(s)] + g[s \ {First(s)}]]
           Upto(n) == {s \in SUBSET S : Cardinality(s) <= n}
           Bad == {n \in Nat : ~\E g : \A s \in Upto(n) : g[s] = Step(g)[s]}
<1>1. \A s \in SUBSET S : IsFiniteSet(s) /\ Cardinality(s) \in Nat
  BY FS_Subset, FS_CardinalityType
<1>2. Bad = {}
  <2> SUFFICES ASSUME Bad # {} PROVE FALSE
    OBVIOUS
  <2>1. PICK n \in Bad : \A k \in Bad : n <= k
    <3>1. Bad \in SUBSET Nat
      OBVIOUS
    <3> HIDE DEF Bad
    <3> QED
      BY <3>1, Least
  <2>2. n \in Nat /\ ~\E g : \A s \in Upto(n) : g[s] = Step(g)[s]
    OBVIOUS
  <2>3. CASE n = 0
    <3> DEFINE g == [s \in SUBSET S |-> 0]
    <3>1. \A s \in Upto(0) : s = {}
      BY <1>1, FS_EmptySet
    <3>2. \A s \in Upto(0) : g[s] = Step(g)[s]
      BY <3>1
    <3> QED
      BY <2>2, <2>3, <3>2
  <2>4. CASE n # 0
    <3>1. n - 1 \in Nat /\ n - 1 \notin Bad
      <4>1. n - 1 \in Nat /\ ~(n <= n - 1)
        BY <2>2, <2>4
      <4> HIDE DEF Bad
      <4> QED
        BY <2>1, <4>1
    <3>2. PICK g : \A s \in Upto(n - 1) : g[s] = Step(g)[s]
      BY <3>1
    <3> DEFINE h == Step(g)
    <3>3. ASSUME NEW s \in Upto(n) PROVE h[s] = Step(h)[s]
      <4>1. CASE s = {}
        BY <4>1
      <4>2. CASE s # {}
        <5> DEFINE t == s \ {First(s)}
        <5>1. First(s) \in s
          BY <4>2, FirstIsIn
        <5>2. t \in SUBSET S /\ Cardinality(t) = Cardinality(s) - 1
          BY <1>1, <5>1, FS_RemoveElement
        <5>3. t \in Upto(n - 1)
          BY <1>1, <2>2, <5>2
        <5>4. g[t] = h[t]
          BY <3>2, <5>3
        <5>5. h[s] = f[First(s)] + g[t]
          BY <4>2
        <5>6. Step(h)[s] = f[First(s)] + h[t]
          BY <4>2
        <5> QED
          BY <5>4, <5>5, <5>6
      <4> QED
        BY <4>1, <4>2
    <3> QED
      BY <2>2, <3>3
  <2> QED
    BY <2>3, <2>4
<1>3. PICK g : \A s \in Upto(Cardinality(S)) : g[s] = Step(g)[s]
  BY <1>1, <1>2
<1>4. \A s \in SUBSET S : s \in Upto(Cardinality(S))
  BY <1>1, FS_Subset
<1> DEFINE h == Step(g)
<1>5. \A s \in SUBSET S : h[s] = g[s]
  BY <1>3, <1>4
<1>6. h = Step(h)
  <2>1. \A s \in SUBSET S : s # {} => s \ {First(s)} \in SUBSET S
    OBVIOUS
  <2>2. \A s \in SUBSET S : h[s] = Step(h)[s]
    BY <1>5, <2>1
  <2> QED
    BY <2>2
<1> QED
  BY <1>6 DEF Sums

\* It takes natural numbers.
LEMMA SumsAreNat ==
  ASSUME NEW S, NEW f, NEW g, Sums(g, f, S), IsFiniteSet(S), \A x \in S : f[x] \in Nat
  PROVE  \A s \in SUBSET S : g[s] \in Nat
<1> DEFINE C == {s \in SUBSET S : g[s] \in Nat}
<1>1. ASSUME NEW s \in SUBSET S, \A x \in s : s \ {x} \in C PROVE s \in C
  <2>1. CASE s = {}
    BY <2>1 DEF Sums
  <2>2. CASE s # {}
    <3>1. First(s) \in s
      BY <2>2, FirstIsIn
    <3>2. g[s] = f[First(s)] + g[s \ {First(s)}]
      BY <2>2 DEF Sums
    <3>3. f[First(s)] \in Nat /\ g[s \ {First(s)}] \in Nat
      BY <1>1, <3>1
    <3> QED
      BY <3>2, <3>3
  <2> QED
    BY <2>1, <2>2
<1> HIDE DEF C
<1>2. SUBSET S \subseteq C
  BY <1>1, SubsetInduction
<1> QED
  BY <1>2 DEF C

\* An element more adds what f has for it, whichever it is and whenever it was taken.
Adds(g, f, S) == \A s \in SUBSET S : \A y \in s : g[s] = f[y] + g[s \ {y}]

\* Sums do not depend on the order in which elements are taken.
LEMMA SumsAdd ==
  ASSUME NEW S, NEW f, NEW g, Sums(g, f, S), IsFiniteSet(S), \A x \in S : f[x] \in Nat
  PROVE  Adds(g, f, S)
<1> DEFINE C == {s \in SUBSET S : \A y \in s : g[s] = f[y] + g[s \ {y}]}
<1>1. ASSUME NEW s \in SUBSET S, \A x \in s : s \ {x} \in C PROVE s \in C
  <2> SUFFICES ASSUME NEW y \in s PROVE g[s] = f[y] + g[s \ {y}]
    OBVIOUS
  <2> DEFINE x == First(s)
             t == s \ {x}
             u == s \ {y}
             v == s \ {x, y}
  <2>1. x \in s /\ g[s] = f[x] + g[t]
    BY FirstIsIn DEF Sums
  <2>2. CASE y = x
    BY <2>1, <2>2
  <2>3. CASE y # x
    <3>1. t \in C /\ u \in C
      BY <1>1, <2>1
    <3>2. y \in t /\ t \ {y} = v /\ x \in u /\ u \ {x} = v
      BY <2>1, <2>3
    <3>3. g[t] = f[y] + g[v] /\ g[u] = f[x] + g[v]
      BY <3>1, <3>2
    <3>4. f[x] \in Nat /\ f[y] \in Nat /\ g[v] \in Nat
      BY <2>1, SumsAreNat
    <3> HIDE DEF x, t, u, v
    <3>5. g[s] = f[y] + g[u]
      BY <2>1, <3>3, <3>4
    <3> QED
      BY <3>5 DEF u
  <2> QED
    BY <2>2, <2>3
<1> HIDE DEF C
<1>2. SUBSET S \subseteq C
  BY <1>1, SubsetInduction
<1> QED
  BY <1>2 DEF C, Adds

\* Nor on elements that have nothing: the sum over a part of the set that has everything is
\* the sum over the set.
LEMMA SumsAgree ==
  ASSUME NEW S, NEW f, NEW g, NEW T, NEW e, NEW h, Sums(g, f, S), Sums(h, e, T),
         IsFiniteSet(S), T \subseteq S, \A x \in S : f[x] \in Nat,
         \A x \in T : e[x] = f[x], \A x \in S \ T : f[x] = 0
  PROVE  g[S] = h[T]
<1>1. IsFiniteSet(T) /\ \A x \in T : e[x] \in Nat
  BY FS_Subset
<1>5. Adds(h, e, T)
  BY <1>1, SumsAdd
<1> DEFINE C == {s \in SUBSET S : g[s] = h[s \cap T]}
<1>2. ASSUME NEW s \in SUBSET S, \A x \in s : s \ {x} \in C PROVE s \in C
  <2>1. CASE s = {}
    BY <2>1 DEF Sums
  <2>2. CASE s # {}
    <3> DEFINE x == First(s)
               t == s \ {x}
    <3>1. x \in s /\ g[s] = f[x] + g[t]
      BY <2>2, FirstIsIn DEF Sums
    <3>2. g[t] = h[t \cap T] /\ f[x] \in Nat /\ g[t] \in Nat
      BY <1>2, <3>1, SumsAreNat
    <3>3. CASE x \in T
      <4>1. x \in s \cap T /\ (s \cap T) \ {x} = t \cap T
        BY <3>1, <3>3
      <4>2. h[s \cap T] = e[x] + h[t \cap T]
        <5>1. s \cap T \in SUBSET T
          OBVIOUS
        <5> HIDE DEF x, t
        <5>3. h[s \cap T] = e[x] + h[(s \cap T) \ {x}]
          BY <1>5, <4>1, <5>1 DEF Adds
        <5> QED
          BY <4>1, <5>3
      <4>3. e[x] = f[x]
        BY <3>3
      <4> HIDE DEF x, t
      <4>4. g[s] = h[s \cap T]
        BY <3>1, <3>2, <4>2, <4>3
      <4> QED
        BY <4>4
    <3>4. CASE x \notin T
      <4>1. s \cap T = t \cap T /\ f[x] = 0
        BY <3>1, <3>4
      <4> HIDE DEF x, t
      <4>2. g[s] = g[t]
        BY <3>1, <3>2, <4>1
      <4> QED
        BY <3>2, <4>1, <4>2
    <3> QED
      BY <3>3, <3>4
  <2> QED
    BY <2>1, <2>2
<1> HIDE DEF C
<1>3. SUBSET S \subseteq C
  BY <1>2, SubsetInduction
<1>4. S \in C /\ S \cap T = T
  BY <1>3
<1> QED
  BY <1>4 DEF C

\* The two sums of the code: the recalculation's over the add-ons, and what is owed over all
\* modules.
Addons(plan) == {m \in Modules : IsAddon(m, plan)}
Prices == [m \in Modules |-> AddonPrice(m)]
Owing == [m \in Modules |-> Owed(m)]

\* The recalculation's is a sum.
LEMMA AddonsAreSums ==
  ASSUME NEW plan
  PROVE  \E h : Sums(h, Prices, Addons(plan)) /\ AddonsFor(plan) = h[Addons(plan)]
<1> DEFINE S == Addons(plan)
           Body(g) == [s \in SUBSET S |-> IF s = {} THEN 0
                                          ELSE AddonPrice(First(s)) + g[s \ {First(s)}]]
           sum == CHOOSE g : g = Body(g)
<1>1. AddonsFor(plan) = sum[S]
  BY DEF AddonsFor, MapThenSumSet, MapThenFoldSet, First, Addons
<1>2. \A s \in SUBSET S : s # {} => First(s) \in Modules
  BY FirstIsIn DEF Addons
<1>3. ASSUME NEW g PROVE Sums(g, Prices, S) <=> g = Body(g)
  <2>1. \A s \in SUBSET S : s # {} => Prices[First(s)] = AddonPrice(First(s))
    BY <1>2 DEF Prices
  <2> QED
    BY <2>1 DEF Sums
<1>4. IsFiniteSet(S)
  BY SubscriptionsAssumption, FS_Subset DEF Addons
<1>5. \E g : g = Body(g)
  BY <1>3, <1>4, SumsExist
<1>6. sum = Body(sum)
  BY <1>5
<1> QED
  BY <1>1, <1>3, <1>6

\* What is owed is one.
LEMMA OwedAreSums ==
  \E h : Sums(h, Owing, Modules) /\ MapThenSumSet(Owed, Modules) = h[Modules]
<1> DEFINE S == Modules
           Body(g) == [s \in SUBSET S |-> IF s = {} THEN 0
                                          ELSE Owed(First(s)) + g[s \ {First(s)}]]
           sum == CHOOSE g : g = Body(g)
<1>1. MapThenSumSet(Owed, Modules) = sum[S]
  BY DEF MapThenSumSet, MapThenFoldSet, First
<1>2. \A s \in SUBSET S : s # {} => First(s) \in Modules
  BY FirstIsIn
<1>3. ASSUME NEW g PROVE Sums(g, Owing, S) <=> g = Body(g)
  <2>1. \A s \in SUBSET S : s # {} => Owing[First(s)] = Owed(First(s))
    BY <1>2 DEF Owing
  <2> QED
    BY <2>1 DEF Sums
<1>5. \E g : g = Body(g)
  BY <1>3, SumsExist, SubscriptionsAssumption
<1>6. sum = Body(sum)
  BY <1>5
<1> QED
  BY <1>1, <1>3, <1>6

-----------------------------------------------------------------------------
(***************************************************************************)
(* The amount: what the actions share.                                     *)
(***************************************************************************)

\* Marking leaves the other fields, and marks the recalculations.
LEMMA MarkedFields ==
  ASSUME Shaped, NEW what, NEW r \in Requests
  PROVE  LET q == Late(what)[r]
         IN  /\ q.op = req[r].op /\ q.at = req[r].at /\ q.arg = req[r].arg
             /\ q.row = req[r].row /\ q.base = req[r].base /\ q.addons = req[r].addons
             /\ q.late = IF req[r].at \in Reading THEN req[r].late \cup what ELSE req[r].late
<1>1. IsRequest(req[r])
  BY DEF Shaped
<1>2. CASE Recalculating(r)
  <2>1. Late(what)[r] = [req[r] EXCEPT !.late = req[r].late \cup what]
    BY <1>2 DEF Late
  <2>2. Late(what)[r] =
          [op |-> req[r].op, at |-> req[r].at, arg |-> req[r].arg, row |-> req[r].row,
           base |-> req[r].base, addons |-> req[r].addons, late |-> req[r].late \cup what]
    BY <1>1, <2>1 DEF IsRequest
  <2> QED
    BY <1>2, <2>2 DEF Recalculating, Reading
<1>3. CASE ~Recalculating(r)
  <2>1. Late(what)[r] = req[r]
    BY <1>3 DEF Late
  <2> QED
    BY <1>3, <2>1 DEF Recalculating, Reading
<1> QED
  BY <1>2, <1>3

\* Prices and sums depend on the modules, the matrix, the plans and the catalog only.
LEMMA SumsStand ==
  UNCHANGED <<owned, matrix, plans, catalog>> =>
    \A p : BasePrice(p)' = BasePrice(p) /\ AddonsFor(p)' = AddonsFor(p)
BY DEF BasePrice, Offered, AddonsFor, MapThenSumSet, MapThenFoldSet, IsAddon, AddonPrice

\* A request that was fresh stays so when it is told of what changes.
LEMMA MarkedStayFresh ==
  ASSUME Shaped, NEW r \in Requests, IsTyped(req[r]), IsFresh(req[r]), NEW what,
         "amount" \in what \/ UNCHANGED <<owned, matrix, plans, catalog>>,
         req'[r] = Late(what)[r]
  PROVE  IsTyped(req'[r]) /\ IsFresh(req[r])'
<1> DEFINE q == Late(what)[r]
<1>1. /\ q.op = req[r].op /\ q.at = req[r].at /\ q.arg = req[r].arg
      /\ q.row = req[r].row /\ q.base = req[r].base /\ q.addons = req[r].addons
      /\ q.late = IF req[r].at \in Reading THEN req[r].late \cup what ELSE req[r].late
  BY MarkedFields
<1> HIDE DEF q
<1>2. req'[r] = q
  BY DEF q
<1>3. IsTyped(req'[r])
  BY <1>1, <1>2 DEF IsTyped, Asked
<1>4. IsFresh(req[r])'
  <2>1. CASE "amount" \in what
    BY <1>1, <1>2, <2>1 DEF IsFresh, Reading
  <2>2. CASE UNCHANGED <<owned, matrix, plans, catalog>>
    BY <1>1, <1>2, <2>2, SumsStand DEF IsFresh, Reading
  <2> QED
    BY <2>1, <2>2
<1> QED
  BY <1>3, <1>4
\* Everyone's requests keep their types and stay fresh when one goes on and the others are
\* told of what changes.
LEMMA RequestsStay ==
  ASSUME Shaped, Owes, NEW what, NEW r \in Requests, NEW new,
         req' = [Late(what) EXCEPT ![r] = new],
         "amount" \in what \/ UNCHANGED <<owned, matrix, plans, catalog>>,
         IsTyped(new), IsFresh(new)'
  PROVE  \A u \in Requests : IsTyped(req'[u]) /\ IsFresh(req[u])'
<1>1. req'[r] = new /\ \A u \in Requests \ {r} : req'[u] = Late(what)[u]
  BY LateFacts
<1>2. ASSUME NEW u \in Requests, u # r PROVE IsTyped(req'[u]) /\ IsFresh(req[u])'
  <2>1. req'[u] = Late(what)[u] /\ IsTyped(req[u]) /\ IsFresh(req[u])
    BY <1>1, <1>2 DEF Owes
  <2> QED
    BY <2>1, MarkedStayFresh
<1>3. IsTyped(req'[r]) /\ IsFresh(req[r])'
  BY <1>1
<1> QED
  BY <1>2, <1>3

\* And when nobody is told and the prices stay.
LEMMA OthersStay ==
  ASSUME Shaped, Owes, NEW r \in Requests, NEW new, req' = [req EXCEPT ![r] = new],
         UNCHANGED <<owned, matrix, plans, catalog>>, IsTyped(new), IsFresh(new)
  PROVE  \A u \in Requests : IsTyped(req'[u]) /\ IsFresh(req[u])'
<1>1. req'[r] = new /\ \A u \in Requests \ {r} : req'[u] = req[u]
  BY DEF Shaped
<1>2. ASSUME NEW u \in Requests PROVE IsTyped(req'[u]) /\ IsFresh(req[u])'
  <2>1. IsTyped(req'[u]) /\ IsFresh(req'[u])
    BY <1>1 DEF Owes
  <2> QED
    BY <2>1, SumsStand DEF IsFresh
<1> QED
  BY <1>2

\* And when everyone is told.
LEMMA AllMarkedStay ==
  ASSUME Shaped, Owes, req' = Late({"amount"})
  PROVE  \A u \in Requests : IsTyped(req'[u]) /\ IsFresh(req[u])'
<1>1. ASSUME NEW u \in Requests PROVE IsTyped(req'[u]) /\ IsFresh(req[u])'
  <2>1. req'[u] = Late({"amount"})[u] /\ IsTyped(req[u]) /\ IsFresh(req[u])
    BY DEF Owes
  <2> QED
    BY <2>1, MarkedStayFresh
<1> QED
  BY <1>1

\* Requests that wait for their first statement have read nothing.
LEMMA NothingRead ==
  /\ NoChoice \in Choice
  /\ IsTyped(Idle) /\ IsFresh(Idle) /\ IsTyped(Recalculate) /\ IsFresh(Recalculate)
  /\ Idle.late = {} /\ Idle.at = "idle" /\ Recalculate.at = "row"
<1>1. NoChoice \in Choice
  BY SubscriptionsAssumption DEF NoChoice, Choice
<1>2. Idle = Fields("none", "idle", NoChoice, NoChoice, 0, 0, {})
  BY IdleFields
<1>3. Recalculate = Fields("none", "row", NoChoice, NoChoice, 0, 0, {})
  <2>1. [Fields("none", "idle", NoChoice, NoChoice, 0, 0, {}) EXCEPT !.at = "row"] =
          Fields("none", "row", NoChoice, NoChoice, 0, 0, {})
    BY DEF Fields
  <2>2. Recalculate = [Fields("none", "idle", NoChoice, NoChoice, 0, 0, {}) EXCEPT !.at = "row"]
    BY IdleFields, Zenon DEF Recalculate
  <2> QED
    BY <2>1, <2>2, Zenon
<1> QED
  BY <1>1, <1>2, <1>3 DEF Fields, IsTyped, IsFresh, Asked

\* The amount owed by a row with the same plan stays while modules and prices do.
LEMMA OwedStands ==
  UNCHANGED <<owned, matrix, plans, catalog>> /\ subscription'.plan = subscription.plan
    => MapThenSumSet(Owed, Modules)' = MapThenSumSet(Owed, Modules)
BY DEF Owed, MapThenSumSet, MapThenFoldSet

\* So does what the property says.
LEMMA AmountStands ==
  ASSUME AmountIsOwed, UNCHANGED <<owned, matrix, plans, catalog, outdated>>,
         subscription'.plan = subscription.plan, subscription'.base = subscription.base,
         subscription'.amount = subscription.amount,
         subscription = NoSubscription => subscription' = NoSubscription
  PROVE  AmountIsOwed'
BY OwedStands, SumsStand DEF AmountIsOwed

\* It says nothing while the amounts are out of date.
LEMMA OutdatedOwesNothing == outdated' => AmountIsOwed'
BY DEF AmountIsOwed

\* Prices are natural numbers, and so are their sums.
LEMMA PricesAreNat ==
  SubscriptionTypeOK =>
    /\ \A m \in Modules : AddonPrice(m) \in Nat /\ Owed(m) \in Nat
    /\ \A p \in Plans \cup {NoPlan} : BasePrice(p) \in Nat
<1> SUFFICES ASSUME SubscriptionTypeOK
             PROVE  /\ \A m \in Modules : AddonPrice(m) \in Nat /\ Owed(m) \in Nat
                    /\ \A p \in Plans \cup {NoPlan} : BasePrice(p) \in Nat
  OBVIOUS
<1>1. ASSUME NEW m \in Modules PROVE AddonPrice(m) \in Nat /\ Owed(m) \in Nat
  <2>1. owned[m].price \in Nat /\ catalog[m].price \in Nat
    BY SubscriptionsAssumption DEF SubscriptionTypeOK
  <2> QED
    BY <2>1 DEF AddonPrice, Owed
<1>2. ASSUME NEW p \in Plans \cup {NoPlan} PROVE BasePrice(p) \in Nat
  <2>1. CASE p = NoPlan
    BY <2>1 DEF BasePrice
  <2>2. CASE p # NoPlan
    <3>1. matrix[p].price \in Nat /\ plans[p].price \in Nat
      BY <2>2, SubscriptionsAssumption DEF SubscriptionTypeOK
    <3> QED
      BY <2>2, <3>1 DEF BasePrice
  <2> QED
    BY <2>1, <2>2
<1> QED
  BY <1>1, <1>2

\* The recalculation's sum is a natural number.
LEMMA AddonsAreNat ==
  SubscriptionTypeOK => \A p \in Plans \cup {NoPlan} : AddonsFor(p) \in Nat
<1> SUFFICES ASSUME SubscriptionTypeOK, NEW p \in Plans \cup {NoPlan}
             PROVE  AddonsFor(p) \in Nat
  OBVIOUS
<1>1. PICK h : Sums(h, Prices, Addons(p)) /\ AddonsFor(p) = h[Addons(p)]
  BY AddonsAreSums
<1>2. IsFiniteSet(Addons(p)) /\ \A m \in Addons(p) : Prices[m] \in Nat
  BY SubscriptionsAssumption, FS_Subset, PricesAreNat DEF Addons, Prices
<1>3. \A s \in SUBSET Addons(p) : h[s] \in Nat
  BY <1>1, <1>2, SumsAreNat
<1> QED
  BY <1>1, <1>3

\* With a plan, the add-ons of the recalculation are what the tenant owes for modules.
LEMMA OwedIsAddons ==
  SubscriptionTypeOK /\ subscription.plan \in Plans
    => MapThenSumSet(Owed, Modules) = AddonsFor(subscription.plan)
<1> SUFFICES ASSUME SubscriptionTypeOK, subscription.plan \in Plans
             PROVE  MapThenSumSet(Owed, Modules) = AddonsFor(subscription.plan)
  OBVIOUS
<1> DEFINE p == subscription.plan
<1>1. PICK h : Sums(h, Prices, Addons(p)) /\ AddonsFor(p) = h[Addons(p)]
  BY AddonsAreSums
<1>2. PICK g : Sums(g, Owing, Modules) /\ MapThenSumSet(Owed, Modules) = g[Modules]
  BY OwedAreSums
<1>3. IsFiniteSet(Modules) /\ Addons(p) \subseteq Modules
  BY SubscriptionsAssumption DEF Addons
<1>4. \A m \in Modules : Owing[m] \in Nat
  BY PricesAreNat DEF Owing
<1>5. p # NoPlan
  BY SubscriptionsAssumption
<1>6. \A m \in Addons(p) : Prices[m] = Owing[m]
  BY <1>5 DEF Addons, IsAddon, Prices, Owing, AddonPrice, Owed
<1>7. \A m \in Modules \ Addons(p) : Owing[m] = 0
  BY <1>5 DEF Addons, IsAddon, Owing, Owed
<1>8. g[Modules] = h[Addons(p)]
  BY <1>1, <1>2, <1>3, <1>4, <1>6, <1>7, SumsAgree
<1> QED
  BY <1>1, <1>2, <1>8

\* The three parts of Owes: the columns and payments, the requests, the amount.
LEMMA OwesFrom ==
  ASSUME Owes, Columns', UNCHANGED payVars \/ Payments', AmountIsOwed',
         \A u \in Requests : IsTyped(req'[u]) /\ IsFresh(req[u])'
  PROVE  Owes'
<1>1. SubscriptionTypeOK'
  BY DEF Columns, SubscriptionTypeOK, IsTyped
<1>2. BillingTypeOK'
  BY <1>1 DEF Owes, BillingTypeOK, Payments, payVars
<1> QED
  BY <1>2 DEF Owes

\* And what it gives.
LEMMA OwesGives ==
  Owes => Columns /\ Payments /\ SubscriptionTypeOK /\ AmountIsOwed
          /\ \A u \in Requests : IsTyped(req[u]) /\ IsFresh(req[u])
BY DEF Owes, BillingTypeOK, SubscriptionTypeOK, Columns, Payments

\* Seeding the catalog keeps its type.
LEMMA SeedTypes ==
  Columns => Reseeded \in [Modules -> [price: ListPrices, active: BOOLEAN]]
<1> SUFFICES ASSUME Columns, NEW m \in Modules
             PROVE  (IF m \in SeededModules THEN [price |-> SeedPrice, active |-> TRUE]
                     ELSE catalog[m]) \in [price: ListPrices, active: BOOLEAN]
  BY DEF Reseeded
<1> QED
  BY SubscriptionsAssumption DEF Columns

-----------------------------------------------------------------------------
(***************************************************************************)
(* Every action keeps the amount.                                          *)
(***************************************************************************)

\* At the start there is nothing to owe.
LEMMA InitOwes == Init => Owes
<1> SUFFICES ASSUME Init PROVE Owes
  OBVIOUS
<1>1. NoRow \in [there: BOOLEAN, enabled: BOOLEAN, source: {"plan", "manual"},
                 price: Nat, agreed: BOOLEAN]
  BY DEF NoRow
<1>2. /\ FirstOffers \in [Plans -> [price: Nat, active: BOOLEAN, modules: SUBSET Modules]]
      /\ FirstPlanRows \in [Plans -> PlanRows]
  BY SubscriptionsAssumption
<1>3. NoSubscription \in Subscription
  BY SubscriptionsAssumption DEF NoSubscription, Subscription
<1>4. Columns
  <2>1. /\ subscription = NoSubscription /\ owned = [m \in Modules |-> NoRow]
        /\ matrix = FirstOffers /\ plans = FirstPlanRows /\ begun = 0
        /\ chosen = NoChoice /\ outdated = FALSE
        /\ catalog = [m \in Modules |-> [price |-> SeedPrice, active |-> TRUE]]
    BY DEF Init, SubInit
  <2>2. [price |-> SeedPrice, active |-> TRUE] \in [price: ListPrices, active: BOOLEAN]
    BY SubscriptionsAssumption
  <2>3. 0 \in 0..MaxRequests
    BY SubscriptionsAssumption
  <2> QED
    BY <1>1, <1>2, <1>3, <2>1, <2>2, <2>3, NothingRead DEF Columns
<1>5. \A u \in Requests : IsTyped(req[u]) /\ IsFresh(req[u])
  BY NothingRead DEF Init, SubInit
<1>6. SubscriptionTypeOK
  BY <1>4, <1>5 DEF Columns, SubscriptionTypeOK, IsTyped
<1>7. BillingTypeOK
  BY <1>6 DEF Init, BillingTypeOK, NotMade, NotLogged
<1>8. AmountIsOwed
  BY DEF Init, SubInit, AmountIsOwed
<1> QED
  BY <1>5, <1>7, <1>8 DEF Owes

\* What only changes prices and offers.
LEMMA OffersOwe ==
  ASSUME Shaped, Owes, Reseed \/ MatrixSave \/ PlanSave \/ CatalogEdit, UNCHANGED payVars
  PROVE  Owes'
<1>1. req' = Late({"amount"}) /\ outdated' = TRUE /\ UNCHANGED <<subscription, owned, chosen>>
  BY DEF Reseed, MatrixSave, PlanSave, CatalogEdit
<1>2. Columns
  BY OwesGives
<1>3. begun' \in 0..MaxRequests
  BY <1>2, SubscriptionsAssumption DEF Columns, Reseed, MatrixSave, PlanSave, CatalogEdit,
                                            OneMore
<1>4. /\ matrix' \in [Plans -> [price: Nat, active: BOOLEAN, modules: SUBSET Modules]]
      /\ plans' \in [Plans -> PlanRows]
      /\ catalog' \in [Modules -> [price: ListPrices, active: BOOLEAN]]
  <2>1. CASE Reseed
    BY <1>2, <2>1, SeedTypes DEF Reseed, Columns
  <2>2. CASE MatrixSave
    <3>1. PICK plan \in Plans, offer \in Offers :
            matrix' = [matrix EXCEPT ![plan] =
                         [offer EXCEPT !.modules = {m \in offer.modules : catalog[m].active}]]
      BY <2>2 DEF MatrixSave
    <3>2. offer \in [price: Nat, active: BOOLEAN, modules: SUBSET Modules]
      BY SubscriptionsAssumption
    <3>3. [offer EXCEPT !.modules = {m \in offer.modules : catalog[m].active}]
            \in [price: Nat, active: BOOLEAN, modules: SUBSET Modules]
      BY <3>2
    <3> QED
      BY <1>2, <2>2, <3>1, <3>3 DEF MatrixSave, Columns
  <2>3. CASE CatalogEdit
    BY <1>2, <2>3, SeedTypes DEF CatalogEdit, Columns
  <2>4. CASE PlanSave
    BY <1>2, <2>4, SeedTypes DEF PlanSave, Columns
  <2> QED
    BY <2>1, <2>2, <2>3, <2>4
<1>5. Columns'
  BY <1>1, <1>2, <1>3, <1>4 DEF Columns
<1> QED
  BY <1>1, <1>5, OwesFrom, AllMarkedStay, OutdatedOwesNothing

\* A request begins.
LEMMA BeginOwes ==
  ASSUME Shaped, Owes, NEW r \in Requests, SaveBegin(r) \/ ModuleBegin(r) \/ PriceBegin(r),
         UNCHANGED payVars
  PROVE  Owes'
<1> DEFINE what == IF Reseeded = catalog THEN {} ELSE {"amount"}
<1>1. /\ catalog' = Reseeded /\ outdated' = (outdated \/ catalog # Reseeded)
      /\ UNCHANGED <<subscription, owned, matrix, plans, chosen>> /\ OneMore
  BY DEF SaveBegin, ModuleBegin, PriceBegin
<1>2. Columns /\ AmountIsOwed
  BY OwesGives
<1>3. Columns'
  BY <1>1, <1>2, SeedTypes, SubscriptionsAssumption DEF Columns, OneMore
<1>4. AmountIsOwed'
  <2>1. CASE catalog = Reseeded /\ outdated = FALSE
    BY <1>1, <1>2, <2>1, AmountStands
  <2>2. CASE ~(catalog = Reseeded /\ outdated = FALSE)
    BY <1>1, <1>2, <2>2, OutdatedOwesNothing DEF Columns
  <2> QED
    BY <2>1, <2>2
<1>5. PICK op, arg, base :
        /\ op = "save" => arg \in [plan: Plans, status: Statuses]
        /\ op = "module" => arg \in [module: Modules, enabled: BOOLEAN,
                                     source: {"plan", "manual"}]
        /\ op = "price" => arg \in [module: Modules, price: Overrides]
        /\ op \in {"save", "module", "price"} /\ base \in Nat
        /\ Begin(r, op, arg, base)
  <2>1. CASE SaveBegin(r)
    <3>1. PICK choice \in [plan: Plans, status: Statuses] :
            Begin(r, "save", choice, BasePrice(choice.plan))
      BY <2>1 DEF SaveBegin
    <3>2. BasePrice(choice.plan) \in Nat
      BY PricesAreNat, OwesGives
    <3> QED
      BY <3>1, <3>2
  <2>2. CASE ModuleBegin(r)
    BY <2>2 DEF ModuleBegin
  <2>3. CASE PriceBegin(r)
    BY <2>3 DEF PriceBegin
  <2> QED
    BY <2>1, <2>2, <2>3
<1>6. PICK new : new = Fields(op, "write", arg, NoChoice, base, 0, {})
  OBVIOUS
<1>7. req' = [Late(what) EXCEPT ![r] = new]
  BY <1>5, <1>6, BeginFields DEF Begin
<1>8. IsTyped(new) /\ IsFresh(new)'
  BY <1>5, <1>6, NothingRead DEF Fields, IsTyped, IsFresh, Asked
<1>9. "amount" \in what \/ UNCHANGED <<owned, matrix, plans, catalog>>
  BY <1>1
<1>10. \A u \in Requests : IsTyped(req'[u]) /\ IsFresh(req[u])'
  <2> HIDE DEF what
  <2> QED
    BY <1>7, <1>8, <1>9, RequestsStay
<1> QED
  BY <1>3, <1>4, <1>10, OwesFrom

\* What a save, a module or a price writes.
LEMMA WritesOwe ==
  ASSUME Shaped, Owes, NEW r \in Requests, SaveWrite(r) \/ ModuleWrite(r) \/ PriceWrite(r),
         UNCHANGED payVars
  PROVE  Owes'
<1> DEFINE Row == [there: BOOLEAN, enabled: BOOLEAN, source: {"plan", "manual"},
                   price: Nat, agreed: BOOLEAN]
<1>1. /\ outdated' = TRUE /\ UNCHANGED <<matrix, plans, catalog, begun>>
      /\ \E what : "amount" \in what /\ req' = [Late(what) EXCEPT ![r] = Recalculate]
  BY DEF SaveWrite, ModuleWrite, PriceWrite
<1>2. Columns /\ IsTyped(req[r])
  BY OwesGives
<1>3. owned \in [Modules -> Row] /\ \A m \in Modules : catalog[m].price \in Nat
  BY <1>2, SubscriptionsAssumption DEF Columns
<1>4. subscription' \in Subscription /\ chosen' \in Choice /\ owned' \in [Modules -> Row]
  <2>1. CASE SaveWrite(r)
    <3> DEFINE choice == req[r].arg
    <3>1. choice \in [plan: Plans, status: Statuses]
      BY <1>2, <2>1 DEF SaveWrite, IsTyped, Asked
    <3>2. subscription.addons \in Nat /\ req[r].base \in Nat
      BY <1>2 DEF Columns, Subscription, IsTyped
    <3>3. subscription' \in Subscription
      BY <2>1, <3>1, <3>2 DEF SaveWrite, Subscription
    <3>4. chosen' \in Choice
      BY <2>1, <3>1 DEF SaveWrite, Choice
    <3>5. ASSUME NEW m \in Modules PROVE PlanModules(choice.plan)[m] \in Row
      <4>1. owned[m] \in Row
        BY <1>3
      <4>2. CASE m \in matrix[choice.plan].modules /\ catalog[m].active
        BY <1>3, <4>1, <4>2 DEF PlanModules
      <4>3. CASE ~(m \in matrix[choice.plan].modules /\ catalog[m].active)
        <5>1. PlanModules(choice.plan)[m] =
                [owned[m] EXCEPT !.enabled = owned[m].enabled /\ owned[m].source # "plan"]
          BY <4>3 DEF PlanModules
        <5>2. (owned[m].enabled /\ owned[m].source # "plan") \in BOOLEAN
          OBVIOUS
        <5> QED
          BY <4>1, <5>1, <5>2
      <4> QED
        BY <4>2, <4>3
    <3>6. owned' \in [Modules -> Row]
      <4> HIDE DEF Row
      <4>1. owned' = PlanModules(choice.plan)
        BY <2>1 DEF SaveWrite
      <4>2. PlanModules(choice.plan)
              = [m \in Modules |-> PlanModules(choice.plan)[m]]
        BY DEF PlanModules
      <4> QED
        BY <3>5, <4>1, <4>2
    <3> QED
      BY <3>3, <3>4, <3>6
  <2>2. CASE ModuleWrite(r)
    <3> DEFINE change == req[r].arg
               m == change.module
    <3>1. change \in [module: Modules, enabled: BOOLEAN, source: {"plan", "manual"}]
      BY <1>2, <2>2 DEF ModuleWrite, IsTyped, Asked
    <3>2. owned' = [owned EXCEPT ![m] =
                      [there |-> TRUE, enabled |-> change.enabled, source |-> change.source,
                       price |-> IF owned[m].agreed THEN owned[m].price ELSE catalog[m].price,
                       agreed |-> owned[m].agreed]]
      BY <1>3, <2>2, <3>1 DEF ModuleWrite
    <3>3. owned[m] \in Row /\ catalog[m].price \in Nat
      BY <1>3, <3>1
    <3>4. owned' \in [Modules -> Row]
      BY <1>3, <3>1, <3>2, <3>3
    <3> QED
      BY <1>2, <2>2, <3>4 DEF ModuleWrite, Columns
  <2>3. CASE PriceWrite(r)
    <3> DEFINE deal == req[r].arg
               m == deal.module
    <3>1. deal \in [module: Modules, price: Overrides]
      BY <1>2, <2>3 DEF PriceWrite, IsTyped, Asked
    <3>2. owned' = [owned EXCEPT ![m] = [owned[m] EXCEPT !.there = TRUE, !.price = deal.price,
                                                         !.agreed = TRUE]]
      BY <1>3, <2>3, <3>1 DEF PriceWrite
    <3>3. owned[m] \in Row /\ deal.price \in Nat
      BY <1>3, <3>1, SubscriptionsAssumption
    <3>4. [owned[m] EXCEPT !.there = TRUE, !.price = deal.price, !.agreed = TRUE] \in Row
      BY <3>3
    <3>5. owned' \in [Modules -> Row]
      <4> HIDE DEF Row
      <4> QED
        BY <1>3, <3>1, <3>2, <3>4
    <3> QED
      BY <1>2, <2>3, <3>5 DEF PriceWrite, Columns
  <2> QED
    BY <2>1, <2>2, <2>3
<1>5. Columns'
  BY <1>1, <1>2, <1>4 DEF Columns
<1>6. \A u \in Requests : IsTyped(req'[u]) /\ IsFresh(req[u])'
  <2>1. IsFresh(Recalculate)'
    BY NothingRead DEF IsFresh
  <2> QED
    BY <1>1, <2>1, NothingRead, RequestsStay
<1> QED
  BY <1>1, <1>5, <1>6, OwesFrom, OutdatedOwesNothing

\* A request that goes on alone, with nothing written.
LEMMA AloneOwes ==
  ASSUME Shaped, Owes, NEW r \in Requests, NEW new, req' = [req EXCEPT ![r] = new],
         IsTyped(new), IsFresh(new), begun' \in 0..MaxRequests,
         UNCHANGED <<subscription, owned, matrix, plans, catalog, chosen, outdated>>,
         UNCHANGED payVars \/ Payments'
  PROVE  Owes'
<1>1. Columns /\ AmountIsOwed
  BY OwesGives
<1>2. Columns' /\ AmountIsOwed'
  BY <1>1, AmountStands DEF Columns
<1>3. \A u \in Requests : IsTyped(req'[u]) /\ IsFresh(req[u])'
  BY OthersStay
<1> QED
  BY <1>2, <1>3, OwesFrom

\* The recalculation reads the row, the price and the add-ons.
LEMMA ReadsOwe ==
  ASSUME Shaped, Owes, NEW r \in Requests, RecalcRow(r) \/ RecalcBase(r) \/ RecalcAddons(r),
         UNCHANGED payVars
  PROVE  Owes'
<1> DEFINE q == req[r]
<1>1. UNCHANGED <<subscription, owned, matrix, plans, catalog, begun, chosen, outdated>>
  BY DEF RecalcRow, RecalcBase, RecalcAddons
<1>2. Columns /\ SubscriptionTypeOK /\ IsTyped(q) /\ IsFresh(q)
  BY OwesGives
<1>3. q.row \in Choice /\ q.row.plan \in Plans \cup {NoPlan} /\ q.base \in Nat
      /\ q.addons \in Nat
  BY <1>2 DEF IsTyped, Choice
<1>4. PICK new : IsTyped(new) /\ IsFresh(new) /\ req' = [req EXCEPT ![r] = new]
  <2>1. CASE RecalcRow(r)
    <3> DEFINE new == Fields(q.op, "base", q.arg, ChoiceOf(subscription), q.base, q.addons, {})
    <3>1. ChoiceOf(subscription) \in Choice
      BY <1>2 DEF Columns, Subscription, ChoiceOf, Choice
    <3>2. IsTyped(new) /\ IsFresh(new)
      BY <1>3, <3>1 DEF Fields, IsTyped, IsFresh, Asked
    <3> QED
      BY <2>1, <3>2, ReadFields
  <2>2. CASE RecalcBase(r)
    <3> DEFINE new == Fields(q.op, "addons", q.arg, q.row, BasePrice(q.row.plan), q.addons,
                             q.late)
    <3>1. BasePrice(q.row.plan) \in Nat
      BY <1>2, <1>3, PricesAreNat
    <3>2. IsTyped(new) /\ IsFresh(new)
      BY <1>3, <3>1 DEF Fields, IsTyped, IsFresh, Asked
    <3> QED
      BY <2>2, <3>2, ReadFields
  <2>3. CASE RecalcAddons(r) /\ q.row.plan # NoPlan
    <3> DEFINE new == Fields(q.op, "total", q.arg, q.row, q.base, AddonsFor(q.row.plan), q.late)
    <3>1. AddonsFor(q.row.plan) \in Nat /\ q.at = "addons"
      BY <1>2, <1>3, <2>3, AddonsAreNat DEF RecalcAddons
    <3>2. IsTyped(new) /\ IsFresh(new)
      BY <1>2, <1>3, <2>3, <3>1 DEF Fields, IsTyped, IsFresh, Asked
    <3> QED
      BY <2>3, <3>2, ReadFields
  <2>4. CASE RecalcAddons(r) /\ q.row.plan = NoPlan
    BY <2>4, NothingRead DEF RecalcAddons
  <2> QED
    BY <2>1, <2>2, <2>3, <2>4
<1>5. begun' \in 0..MaxRequests
  BY <1>1, <1>2 DEF Columns
<1> QED
  BY <1>1, <1>4, <1>5, AloneOwes

\* The recalculation writes the row: what it owes, unless it is late.
LEMMA RecalcOwes ==
  ASSUME Shaped, Owes, NEW r \in Requests, RecalcWrite(r), UNCHANGED payVars PROVE Owes'
<1> DEFINE row == req[r].row
           what == IF ChoiceOf(subscription) = row THEN {} ELSE {"row", "amount"}
<1>1. /\ subscription' = [plan |-> row.plan, status |-> row.status, base |-> req[r].base,
                          addons |-> req[r].addons, amount |-> req[r].base + req[r].addons]
      /\ chosen' = IF "row" \in req[r].late THEN row ELSE chosen
      /\ outdated' = (req[r].late # {})
      /\ req' = [Late(what) EXCEPT ![r] = Idle]
      /\ UNCHANGED <<owned, matrix, plans, catalog, begun>> /\ req[r].at = "total"
  BY DEF RecalcWrite
<1>2. Columns /\ IsTyped(req[r]) /\ IsFresh(req[r])
  BY OwesGives
<1>3. /\ row \in Choice /\ row.plan \in Plans /\ req[r].base \in Nat
      /\ req[r].addons \in Nat
  BY <1>1, <1>2 DEF IsTyped, Choice
<1>4. Columns'
  BY <1>1, <1>2, <1>3 DEF Columns, Subscription, Choice
<1>5. \A u \in Requests : IsTyped(req'[u]) /\ IsFresh(req[u])'
  <2>1. IsFresh(Idle)'
    BY NothingRead DEF IsFresh
  <2> HIDE DEF what
  <2> QED
    BY <1>1, <2>1, NothingRead, RequestsStay
<1>6. AmountIsOwed'
  <2>1. CASE req[r].late # {}
    BY <1>1, <2>1, OutdatedOwesNothing
  <2>2. CASE req[r].late = {}
    <3>1. req[r].base = BasePrice(row.plan) /\ req[r].addons = AddonsFor(row.plan)
      BY <1>1, <1>2, <2>2 DEF IsFresh
    <3>2. /\ subscription'.plan = row.plan /\ subscription'.base = req[r].base
          /\ subscription'.amount = req[r].base + req[r].addons
      BY <1>1
    <3>3. SubscriptionTypeOK'
      BY <1>4, <1>5 DEF Columns, SubscriptionTypeOK, IsTyped
    <3>4. (SubscriptionTypeOK /\ subscription.plan \in Plans
            => MapThenSumSet(Owed, Modules) = AddonsFor(subscription.plan))'
      BY OwedIsAddons, PTL
    <3>5. MapThenSumSet(Owed, Modules)' = AddonsFor(subscription.plan)'
      BY <1>3, <3>2, <3>3, <3>4
    <3>6. \A p : BasePrice(p)' = BasePrice(p) /\ AddonsFor(p)' = AddonsFor(p)
      BY <1>1, SumsStand
    <3>7. BasePrice(subscription.plan)' = req[r].base
      BY <3>1, <3>2, <3>6
    <3>8. MapThenSumSet(Owed, Modules)' = req[r].addons
      BY <3>1, <3>2, <3>5, <3>6
    <3> QED
      BY <3>2, <3>7, <3>8 DEF AmountIsOwed
  <2> QED
    BY <2>1, <2>2
<1> QED
  BY <1>4, <1>5, <1>6, OwesFrom

\* An error ends a request.
LEMMA FailsOwes ==
  ASSUME Shaped, Owes, NEW r \in Requests, RequestFails(r), UNCHANGED payVars PROVE Owes'
<1>1. begun' \in 0..MaxRequests
  BY OwesGives DEF RequestFails, Columns
<1> QED
  BY <1>1, NothingRead, AloneOwes DEF RequestFails

\* The invoices there are leave a number, and the next request has it.
LEMMA CountIsNumber == Count < MaxInvoices => Count + 1 \in Numbers
<1>1. IsFiniteSet(Numbers)
  BY BillingAssumption, FS_Interval DEF Numbers
<1>2. Count \in Nat
  <2>1. IsFiniteSet({n \in Numbers : invoice[n].status # "none"})
    BY <1>1, FS_Subset
  <2> QED
    BY <2>1, FS_CardinalityType DEF Count
<1> QED
  BY <1>2, BillingAssumption DEF Numbers

\* An invoice or a decision begins.
LEMMA StartOwes ==
  ASSUME Shaped, Owes, NEW r \in Requests, GenerateBegin(r) \/ DecideBegin(r) PROVE Owes'
<1>1. /\ UNCHANGED <<subscription, owned, matrix, plans, catalog, chosen, outdated>>
      /\ UNCHANGED payVars
  BY DEF GenerateBegin, DecideBegin, payVars
<1>2. Columns
  BY OwesGives
<1>3. begun' \in 0..MaxRequests
  BY <1>2, SubscriptionsAssumption DEF GenerateBegin, DecideBegin, OneMore, Columns
<1>4. PICK op, arg, base :
        /\ \/ op = "generate" /\ arg \in Numbers
           \/ op \in {"approve", "reject"} /\ arg \in Transactions
        /\ base \in Nat
        /\ Start(r, op, arg, base)
  <2>1. CASE GenerateBegin(r)
    <3>1. subscription.base \in Nat
      BY <1>2 DEF Columns, Subscription
    <3> QED
      <4>1. Count + 1 \in Numbers /\ Start(r, "generate", Count + 1, subscription.base)
        BY <2>1, CountIsNumber DEF GenerateBegin
      <4> QED
        BY <3>1, <4>1
  <2>2. CASE DecideBegin(r)
    BY <2>2 DEF DecideBegin
  <2> QED
    BY <2>1, <2>2
<1>5. PICK new : new = Fields(op, "write", arg, NoChoice, base, 0, {})
  OBVIOUS
<1>6. req' = [req EXCEPT ![r] = new]
  BY <1>4, <1>5, BeginFields DEF Start
<1>7. IsTyped(new) /\ IsFresh(new)
  BY <1>4, <1>5, NothingRead DEF Fields, IsTyped, IsFresh, Asked
<1> QED
  BY <1>1, <1>3, <1>6, <1>7, AloneOwes

\* An invoice is made, or a payment rejected.
LEMMA PaymentWritesOwe ==
  ASSUME Shaped, Owes, NEW r \in Requests, GenerateWrite(r) \/ RejectWrite(r) PROVE Owes'
<1>1. /\ UNCHANGED <<subscription, owned, matrix, plans, catalog, begun, chosen, outdated>>
      /\ req' = [req EXCEPT ![r] = Idle]
  BY DEF GenerateWrite, RejectWrite
<1>2. Columns /\ Payments /\ IsTyped(req[r])
  BY OwesGives
<1>3. Payments'
  <2>1. CASE GenerateWrite(r)
    <3> DEFINE n == req[r].arg
    <3>1. n \in Numbers /\ req[r].base \in Nat
      BY <1>2, <2>1 DEF GenerateWrite, IsTyped, Asked
    <3>2. UNCHANGED <<transaction, disputed>>
      BY <2>1 DEF GenerateWrite
    <3>3. invoice' = invoice \/ invoice' = [invoice EXCEPT ![n] = Unpaid(req[r].base)]
      BY <2>1 DEF GenerateWrite
    <3>4. invoice' \in [Numbers -> [status: {"none", "pending", "paid", "cancelled"},
                                    total: Nat, paid: Nat, due: Nat]]
      BY <1>2, <3>1, <3>3 DEF Payments, Unpaid
    <3>5. \A k \in Numbers : invoice[k].status # "none" => invoice'[k].status # "none"
      BY <1>2, <3>1, <3>3 DEF Payments, Unpaid
    <3> QED
      BY <1>2, <3>2, <3>4, <3>5 DEF Payments
  <2>2. CASE RejectWrite(r)
    <3> DEFINE t == req[r].arg
    <3>1. t \in Transactions
      BY <1>2, <2>2 DEF RejectWrite, IsTyped, Asked
    <3>2. /\ UNCHANGED invoice /\ transaction' = [transaction EXCEPT ![t].status = "failed"]
          /\ disputed' \subseteq disputed \cup {t}
      BY <2>2 DEF RejectWrite, Decide
    <3> QED
      BY <1>2, <3>1, <3>2 DEF Payments
  <2> QED
    BY <2>1, <2>2
<1>4. begun' \in 0..MaxRequests
  BY <1>1, <1>2 DEF Columns
<1> QED
  BY <1>1, <1>3, <1>4, NothingRead, AloneOwes

\* The invoice an approval leaves.
LEMMA PaidInvoice ==
  ASSUME Payments, NEW n \in Numbers
  PROVE  [invoice EXCEPT ![n].status = "paid", ![n].paid = invoice[n].due, ![n].due = 0]
           = [invoice EXCEPT ![n] = [status |-> "paid", total |-> invoice[n].total,
                                     paid |-> invoice[n].due, due |-> 0]]
<1> DEFINE total == invoice[n].total
           due == invoice[n].due
           Inv(s, p, d) == [status |-> s, total |-> total, paid |-> p, due |-> d]
           With(f) == [invoice EXCEPT ![n] = f]
           i1 == [invoice EXCEPT ![n].status = "paid"]
           i2 == [i1 EXCEPT ![n].paid = due]
           i3 == [i2 EXCEPT ![n].due = 0]
<1>1. /\ invoice = [k \in Numbers |-> invoice[k]]
      /\ invoice[n] = Inv(invoice[n].status, invoice[n].paid, due)
  BY DEF Payments
<1>2. \A f, g : With(f)[n] = f /\ [With(f) EXCEPT ![n] = g] = With(g)
  BY <1>1
<1>3. /\ \A s, p, d : [Inv(s, p, d) EXCEPT !.status = "paid"] = Inv("paid", p, d)
      /\ \A s, p, d, v : [Inv(s, p, d) EXCEPT !.paid = v] = Inv(s, v, d)
      /\ \A s, p, d, v : [Inv(s, p, d) EXCEPT !.due = v] = Inv(s, p, v)
  OBVIOUS
<1> HIDE DEF Inv
<1>4. i1 = With(Inv("paid", invoice[n].paid, due))
  <2>1. i1 = With([invoice[n] EXCEPT !.status = "paid"])
    OBVIOUS
  <2>2. [invoice[n] EXCEPT !.status = "paid"]
          = [Inv(invoice[n].status, invoice[n].paid, due) EXCEPT !.status = "paid"]
    BY <1>1, Zenon
  <2>3. [Inv(invoice[n].status, invoice[n].paid, due) EXCEPT !.status = "paid"]
          = Inv("paid", invoice[n].paid, due)
    BY <1>3
  <2>4. [invoice[n] EXCEPT !.status = "paid"] = Inv("paid", invoice[n].paid, due)
    BY <2>2, <2>3, Zenon
  <2> QED
    BY <2>1, <2>4, Zenon
<1>5. i2 = With(Inv("paid", due, due))
  <2> HIDE DEF i1
  <2>1. i2 = [i1 EXCEPT ![n] = [i1[n] EXCEPT !.paid = due]]
    OBVIOUS
  <2>2. i1[n] = Inv("paid", invoice[n].paid, due)
    BY <1>2, <1>4
  <2>3. [i1[n] EXCEPT !.paid = due] = Inv("paid", due, due)
    <3>1. [Inv("paid", invoice[n].paid, due) EXCEPT !.paid = due] = Inv("paid", due, due)
      BY <1>3
    <3>2. [i1[n] EXCEPT !.paid = due]
            = [Inv("paid", invoice[n].paid, due) EXCEPT !.paid = due]
      BY <2>2, Zenon
    <3> QED
      BY <3>1, <3>2, Zenon
  <2> HIDE DEF With
  <2> QED
    BY <1>2, <1>4, <2>1, <2>3, Zenon
<1>6. i3 = With(Inv("paid", due, 0))
  <2> HIDE DEF i2
  <2>1. i3 = [i2 EXCEPT ![n] = [i2[n] EXCEPT !.due = 0]]
    OBVIOUS
  <2>2. i2[n] = Inv("paid", due, due)
    BY <1>2, <1>5
  <2>3. [i2[n] EXCEPT !.due = 0] = Inv("paid", due, 0)
    <3>1. [Inv("paid", due, due) EXCEPT !.due = 0] = Inv("paid", due, 0)
      BY <1>3
    <3>2. [i2[n] EXCEPT !.due = 0] = [Inv("paid", due, due) EXCEPT !.due = 0]
      BY <2>2, Zenon
    <3> QED
      BY <3>1, <3>2, Zenon
  <2> HIDE DEF With
  <2> QED
    BY <1>2, <1>5, <2>1, <2>3, Zenon
<1> QED
  BY <1>6 DEF Inv

\* An approval pays its invoice and makes the subscription active.
LEMMA ApproveOwes ==
  ASSUME Shaped, Owes, NEW r \in Requests, ApproveWrite(r) PROVE Owes'
<1> DEFINE t == req[r].arg
           n == transaction[t].invoice
           active == [subscription EXCEPT !.status = "active"]
           what == IF active = subscription THEN {} ELSE {"row"}
<1>1. /\ subscription' = active /\ chosen' = [chosen EXCEPT !.status = "active"]
      /\ req' = [Late(what) EXCEPT ![r] = Idle]
      /\ UNCHANGED <<owned, matrix, plans, catalog, begun, outdated>>
  BY DEF ApproveWrite
<1>2. Columns /\ Payments /\ AmountIsOwed /\ IsTyped(req[r])
  BY OwesGives
<1>3. active = [plan |-> subscription.plan, status |-> "active", base |-> subscription.base,
                addons |-> subscription.addons, amount |-> subscription.amount]
  BY DEF Shaped
<1>4. Columns'
  <2>1. subscription' \in Subscription
    BY <1>1, <1>2, <1>3, SubscriptionsAssumption DEF Columns, Subscription
  <2>2. chosen' \in Choice
    BY <1>1, <1>2, SubscriptionsAssumption DEF Columns, Choice
  <2> QED
    BY <1>1, <1>2, <2>1, <2>2 DEF Columns
<1>5. AmountIsOwed'
  <2>1. subscription = NoSubscription => subscription' = NoSubscription
    BY <1>1, <1>3 DEF NoSubscription
  <2> QED
    BY <1>1, <1>2, <1>3, <2>1, AmountStands
<1>6. \A u \in Requests : IsTyped(req'[u]) /\ IsFresh(req[u])'
  <2>1. IsFresh(Idle)'
    BY NothingRead DEF IsFresh
  <2> HIDE DEF what
  <2> QED
    BY <1>1, <2>1, NothingRead, RequestsStay
<1>7. Payments'
  <2>1. t \in Transactions
    BY <1>2 DEF ApproveWrite, IsTyped, Asked
  <2>2. /\ transaction' = [transaction EXCEPT ![t].status = "completed"]
        /\ disputed' \subseteq disputed \cup {t}
    BY DEF ApproveWrite, Decide
  <2>3. CASE n = NoInvoice
    <3>1. UNCHANGED invoice
      BY <2>3 DEF ApproveWrite
    <3> QED
      BY <1>2, <2>1, <2>2, <3>1 DEF Payments
  <2>4. CASE n # NoInvoice
    <3>1. n \in Numbers
      BY <1>2, <2>1, <2>4 DEF Payments
    <3>2. invoice' = [invoice EXCEPT ![n].status = "paid", ![n].paid = invoice[n].due,
                                     ![n].due = 0]
      BY <2>4 DEF ApproveWrite
    <3>3. invoice' = [invoice EXCEPT ![n] = [status |-> "paid", total |-> invoice[n].total,
                                             paid |-> invoice[n].due, due |-> 0]]
      BY <1>2, <3>1, <3>2, PaidInvoice
    <3>4. invoice[n].total \in Nat /\ invoice[n].due \in Nat
      BY <1>2, <3>1 DEF Payments
    <3>5. invoice' \in [Numbers -> [status: {"none", "pending", "paid", "cancelled"},
                                    total: Nat, paid: Nat, due: Nat]]
      BY <1>2, <3>1, <3>3, <3>4 DEF Payments
    <3>6. \A k \in Numbers : invoice[k].status # "none" => invoice'[k].status # "none"
      BY <1>2, <3>1, <3>3 DEF Payments
    <3> QED
      BY <1>2, <2>1, <2>2, <3>5, <3>6 DEF Payments
  <2> QED
    BY <2>3, <2>4
<1> QED
  BY <1>4, <1>5, <1>6, <1>7, OwesFrom

\* An invoice is cancelled, or a payment logged.
LEMMA LogsOwe ==
  ASSUME Owes, UNCHANGED subVars,
         (\E n \in Numbers : Cancel(n)) \/ (\E t \in Transactions : LogManual(t))
  PROVE  Owes'
<1>1. Columns /\ Payments /\ AmountIsOwed /\ \A u \in Requests : IsTyped(req[u]) /\ IsFresh(req[u])
  BY OwesGives
<1>2. UNCHANGED <<subscription, owned, matrix, plans, catalog, req, begun, chosen, outdated>>
  BY DEF subVars
<1>3. Columns' /\ AmountIsOwed'
  BY <1>1, <1>2, AmountStands DEF Columns
<1>4. \A u \in Requests : IsTyped(req'[u]) /\ IsFresh(req[u])'
  BY <1>1, <1>2, SumsStand DEF IsFresh
<1>5. Payments'
  <2>1. ASSUME NEW n \in Numbers, Cancel(n) PROVE Payments'
    <3>1. invoice' = [invoice EXCEPT ![n].status = "cancelled"] /\ UNCHANGED transaction
          /\ UNCHANGED disputed
      BY <2>1 DEF Cancel
    <3>2. \A k \in Numbers : invoice[k].status # "none" => invoice'[k].status # "none"
      BY <1>1, <3>1 DEF Payments
    <3>3. invoice' \in [Numbers -> [status: {"none", "pending", "paid", "cancelled"},
                                    total: Nat, paid: Nat, due: Nat]]
      <4>1. [invoice[n] EXCEPT !.status = "cancelled"]
              \in [status: {"none", "pending", "paid", "cancelled"},
                   total: Nat, paid: Nat, due: Nat]
        BY <1>1 DEF Payments
      <4> QED
        BY <1>1, <3>1, <4>1 DEF Payments
    <3> QED
      BY <1>1, <3>1, <3>2, <3>3 DEF Payments
  <2>2. ASSUME NEW t \in Transactions, LogManual(t) PROVE Payments'
    <3>1. PICK n \in {k \in Numbers : invoice[k].status # "none"} \cup {NoInvoice} :
            transaction' = [transaction EXCEPT ![t] = [status |-> "pending_approval",
                                                       invoice |-> n]]
      BY <2>2 DEF LogManual
    <3>2. UNCHANGED invoice /\ UNCHANGED disputed
      BY <2>2 DEF LogManual
    <3> QED
      BY <1>1, <3>1, <3>2 DEF Payments
  <2> QED
    BY <2>1, <2>2
<1> QED
  BY <1>3, <1>4, <1>5, OwesFrom

\* Nothing happens.
LEMMA StutterOwes == Owes /\ UNCHANGED vars => Owes'
<1> SUFFICES ASSUME Owes, UNCHANGED vars PROVE Owes'
  OBVIOUS
<1>1. Columns /\ AmountIsOwed /\ \A u \in Requests : IsTyped(req[u]) /\ IsFresh(req[u])
  BY OwesGives
<1>2. /\ UNCHANGED <<subscription, owned, matrix, plans, catalog, req, begun, chosen, outdated>>
      /\ UNCHANGED payVars
  BY DEF vars, subVars
<1>3. Columns' /\ AmountIsOwed'
  BY <1>1, <1>2, AmountStands DEF Columns
<1>4. \A u \in Requests : IsTyped(req'[u]) /\ IsFresh(req[u])'
  BY <1>1, <1>2, SumsStand DEF IsFresh
<1> QED
  BY <1>2, <1>3, <1>4, OwesFrom

\* Every step keeps the amount.
LEMMA NextOwes == Shaped /\ Owes /\ [Next]_vars => Owes'
<1> SUFFICES ASSUME Shaped, Owes, [Next]_vars PROVE Owes'
  OBVIOUS
<1>1. CASE SubNext /\ UNCHANGED payVars
  <2>1. CASE Reseed \/ MatrixSave \/ PlanSave \/ CatalogEdit
    BY <1>1, <2>1, OffersOwe
  <2>2. ASSUME NEW r \in Requests, SaveBegin(r) \/ ModuleBegin(r) \/ PriceBegin(r) PROVE Owes'
    BY <1>1, <2>2, BeginOwes
  <2>3. ASSUME NEW r \in Requests, SaveWrite(r) \/ ModuleWrite(r) \/ PriceWrite(r) PROVE Owes'
    BY <1>1, <2>3, WritesOwe
  <2>4. ASSUME NEW r \in Requests, RecalcRow(r) \/ RecalcBase(r) \/ RecalcAddons(r) PROVE Owes'
    BY <1>1, <2>4, ReadsOwe
  <2>5. ASSUME NEW r \in Requests, RecalcWrite(r) PROVE Owes'
    BY <1>1, <2>5, RecalcOwes
  <2>6. ASSUME NEW r \in Requests, RequestFails(r) PROVE Owes'
    BY <1>1, <2>6, FailsOwes
  <2> QED
    BY <1>1, <2>1, <2>2, <2>3, <2>4, <2>5, <2>6 DEF SubNext
<1>2. ASSUME NEW r \in Requests, GenerateBegin(r) \/ DecideBegin(r) PROVE Owes'
  BY <1>2, StartOwes
<1>3. ASSUME NEW r \in Requests, GenerateWrite(r) \/ RejectWrite(r) PROVE Owes'
  BY <1>3, PaymentWritesOwe
<1>4. ASSUME NEW r \in Requests, ApproveWrite(r) PROVE Owes'
  BY <1>4, ApproveOwes
<1>5. CASE (\E n \in Numbers : Cancel(n)) \/ (\E t \in Transactions : LogManual(t))
  <2>1. UNCHANGED subVars
    BY <1>5 DEF Cancel, LogManual
  <2> QED
    BY <1>5, <2>1, LogsOwe
<1>6. CASE UNCHANGED vars
  BY <1>6, StutterOwes
<1> QED
  BY <1>1, <1>2, <1>3, <1>4, <1>5, <1>6 DEF Next

-----------------------------------------------------------------------------
(***************************************************************************)
(* Every action keeps invoices covered.                                    *)
(***************************************************************************)

\* What does not touch an invoice, the decided payments of it, or a dispute, leaves it
\* covered.
LEMMA CoveredStands ==
  ASSUME NEW n \in Numbers, Covered(n), invoice'[n] = invoice[n], Completed(n)' = Completed(n),
         (\A t \in disputed' : transaction'[t].invoice # n)
           => \A t \in disputed : transaction[t].invoice # n
  PROVE  Covered(n)'
BY DEF Covered

\* At the start there is no invoice and no payment.
LEMMA InitPaid == Init => Paid
<1> SUFFICES ASSUME Init PROVE Paid
  OBVIOUS
<1>1. /\ invoice = [n \in Numbers |-> NotMade]
      /\ transaction = [t \in Transactions |-> NotLogged]
  BY DEF Init
<1>2. Blank
  BY <1>1 DEF Blank, NotLogged
<1>3. ASSUME NEW n \in Numbers PROVE Covered(n)
  <2>1. Completed(n) = {}
    BY <1>1 DEF Completed, NotLogged
  <2>2. Cardinality(Completed(n)) = 0
    BY <2>1, FS_EmptySet
  <2>3. invoice[n] = NotMade
    BY <1>1
  <2> QED
    BY <2>1, <2>2, <2>3 DEF Covered, NotMade
<1> QED
  BY <1>2, <1>3 DEF Paid

\* Payments that stay as they are.
LEMMA PaymentsStayPaid ==
  ASSUME Paid, UNCHANGED <<transaction, disputed>>, NEW n \in Numbers, invoice'[n] = invoice[n]
  PROVE  Covered(n)'
<1>1. Completed(n)' = Completed(n)
  BY DEF Completed
<1> QED
  BY <1>1, CoveredStands DEF Paid

\* An invoice is made: no payment names it yet.
LEMMA GeneratePaid ==
  ASSUME Owes, Paid, NEW r \in Requests, GenerateWrite(r) PROVE Paid'
<1> DEFINE k == req[r].arg
<1>1. Payments /\ k \in Numbers
  BY OwesGives DEF GenerateWrite, IsTyped, Asked
<1>2. UNCHANGED <<transaction, disputed>>
  BY DEF GenerateWrite
<1>3. invoice' = invoice \/ (/\ invoice[k].status = "none"
                            /\ invoice' = [invoice EXCEPT ![k] = Unpaid(req[r].base)])
  BY DEF GenerateWrite
<1>4. ASSUME NEW n \in Numbers PROVE Covered(n)'
  <2>1. CASE invoice'[n] = invoice[n]
    BY <1>2, <2>1, PaymentsStayPaid
  <2>2. CASE invoice'[n] # invoice[n]
    <3>1. n = k /\ invoice[n].status = "none" /\ invoice'[n] = Unpaid(req[r].base)
      BY <1>1, <1>3, <2>2 DEF Payments
    <3>2. Completed(n)' = {}
      BY <1>1, <1>2, <3>1, BillingAssumption DEF Completed, Payments, Numbers
    <3>3. Cardinality(Completed(n)') = 0
      BY <3>2, FS_EmptySet
    <3> QED
      BY <3>1, <3>2, <3>3 DEF Covered, Unpaid
  <2> QED
    BY <2>1, <2>2
<1> QED
  BY <1>2, <1>4 DEF Paid, Blank

\* An invoice is cancelled, paid or not.
LEMMA CancelPaid ==
  ASSUME Owes, Paid, NEW k \in Numbers, Cancel(k) PROVE Paid'
<1>1. Payments
  BY OwesGives
<1>2. /\ UNCHANGED <<transaction, disputed>>
      /\ invoice' = [invoice EXCEPT ![k].status = "cancelled"]
  BY DEF Cancel
<1>3. ASSUME NEW n \in Numbers PROVE Covered(n)'
  <2>1. CASE n # k
    <3>1. invoice'[n] = invoice[n]
      BY <1>1, <1>2, <2>1 DEF Payments
    <3> QED
      BY <1>2, <3>1, PaymentsStayPaid
  <2>2. CASE n = k
    <3>1. /\ invoice'[n].status = "cancelled" /\ invoice'[n].paid = invoice[n].paid
          /\ invoice'[n].total = invoice[n].total /\ invoice'[n].due = invoice[n].due
      BY <1>1, <1>2, <2>2 DEF Payments
    <3>2. Completed(n)' = Completed(n)
      BY <1>2 DEF Completed
    <3>3. Covered(n)
      BY DEF Paid
    <3> QED
      BY <1>2, <3>1, <3>2, <3>3 DEF Covered
  <2> QED
    BY <2>1, <2>2
<1> QED
  BY <1>2, <1>3 DEF Paid, Blank

\* A payment is logged, for an invoice or for none: it is not completed yet.
LEMMA LogPaid ==
  ASSUME Owes, Paid, NEW t \in Transactions, LogManual(t) PROVE Paid'
<1>1. Payments
  BY OwesGives
<1>2. PICK k \in {j \in Numbers : invoice[j].status # "none"} \cup {NoInvoice} :
        transaction' = [transaction EXCEPT ![t] = [status |-> "pending_approval",
                                                   invoice |-> k]]
  BY DEF LogManual
<1>3. UNCHANGED <<invoice, disputed>> /\ transaction[t].invoice = NoInvoice
      /\ transaction[t].status = "none"
  BY DEF LogManual, Paid, Blank
<1>4. ASSUME NEW n \in Numbers PROVE Covered(n)'
  <2>1. n # NoInvoice
    BY BillingAssumption DEF Numbers
  <2>2. Completed(n)' = Completed(n)
    BY <1>1, <1>2, <1>3 DEF Completed, Payments
  <2>3. \A u \in disputed : transaction'[u].invoice # n => transaction[u].invoice # n
    BY <1>1, <1>2, <1>3, <2>1 DEF Payments
  <2> QED
    BY <1>3, <2>2, <2>3, CoveredStands DEF Paid
<1>5. Blank'
  BY <1>1, <1>2 DEF Paid, Blank, Payments
<1> QED
  BY <1>4, <1>5 DEF Paid

\* A decision on a payment of another invoice, or on one that has been decided before.
LEMMA DecidedPaid ==
  ASSUME Owes, Paid, NEW t \in Transactions, NEW status \in {"completed", "failed"},
         Decide(t, status), NEW n \in Numbers, invoice'[n] = invoice[n],
         status = "failed" \/ transaction[t].invoice # n
  PROVE  Covered(n)'
<1>1. Payments
  BY OwesGives
<1>2. /\ transaction' = [transaction EXCEPT ![t].status = status]
      /\ disputed' = IF transaction[t].status = "pending_approval" THEN disputed
                     ELSE disputed \cup {t}
  BY DEF Decide
<1>3. \A u \in Transactions : transaction'[u].invoice = transaction[u].invoice
  BY <1>1, <1>2 DEF Payments
<1>4. \A u \in Transactions \ {t} : transaction'[u].status = transaction[u].status
  BY <1>1, <1>2 DEF Payments
<1>5. transaction'[t].status = status
  BY <1>1, <1>2 DEF Payments
<1>6. disputed \subseteq Transactions /\ disputed \subseteq disputed'
  BY <1>1, <1>2 DEF Payments
<1>7. CASE transaction[t].invoice # n \/ transaction[t].status = "pending_approval"
  <2>1. Completed(n)' = Completed(n)
    BY <1>3, <1>4, <1>5, <1>7 DEF Completed
  <2> QED
    BY <1>3, <1>6, <2>1, CoveredStands DEF Paid
<1>8. CASE transaction[t].invoice = n /\ transaction[t].status # "pending_approval"
  <2>1. t \in disputed' /\ transaction'[t].invoice = n
    BY <1>2, <1>3, <1>8
  <2> QED
    BY <2>1 DEF Covered
<1> QED
  BY <1>7, <1>8

\* A rejection pays nothing; one of an approved payment is disputed.
LEMMA RejectPaid ==
  ASSUME Owes, Paid, NEW r \in Requests, RejectWrite(r) PROVE Paid'
<1> DEFINE t == req[r].arg
<1>1. Payments /\ t \in Transactions
  BY OwesGives DEF RejectWrite, IsTyped, Asked
<1>2. Decide(t, "failed") /\ UNCHANGED invoice
  BY DEF RejectWrite
<1>3. \A n \in Numbers : Covered(n)'
  BY <1>1, <1>2, DecidedPaid
<1>4. Blank'
  BY <1>1, <1>2 DEF Paid, Blank, Decide, Payments
<1> QED
  BY <1>3, <1>4 DEF Paid

\* An approval pays its invoice in full, if it is the first one of it.
LEMMA ApprovePaid ==
  ASSUME Owes, Paid, NEW r \in Requests, ApproveWrite(r) PROVE Paid'
<1> DEFINE t == req[r].arg
           k == transaction[t].invoice
<1>1. Payments /\ t \in Transactions
  BY OwesGives DEF ApproveWrite, IsTyped, Asked
<1>2. /\ Decide(t, "completed")
      /\ invoice' = IF k = NoInvoice THEN invoice
                    ELSE [invoice EXCEPT ![k].status = "paid", ![k].paid = invoice[k].due,
                                         ![k].due = 0]
  BY DEF ApproveWrite
<1>3. ASSUME NEW n \in Numbers, n # k PROVE Covered(n)'
  <2>1. invoice'[n] = invoice[n]
    BY <1>1, <1>2, <1>3 DEF Payments
  <2> QED
    BY <1>1, <1>2, <1>3, <2>1, DecidedPaid
<1>4. ASSUME NEW n \in Numbers, n = k PROVE Covered(n)'
  <2>1. n # NoInvoice
    BY BillingAssumption DEF Numbers
  <2>2. transaction' = [transaction EXCEPT ![t].status = "completed"]
    BY <1>2 DEF Decide
  <2>3. transaction'[t].status = "completed" /\ transaction'[t].invoice = n
    BY <1>1, <1>4, <2>2 DEF Payments
  <2>4. CASE transaction[t].status # "pending_approval"
    <3>1. t \in disputed'
      BY <1>2, <2>4 DEF Decide
    <3> QED
      BY <2>3, <3>1 DEF Covered
  <2>5. CASE transaction[t].status = "pending_approval"
    <3>1. Completed(n)' = Completed(n) \cup {t} /\ t \notin Completed(n)
      BY <1>1, <1>4, <2>2, <2>3, <2>5 DEF Completed, Payments
    <3>2. /\ invoice'[n].status = "paid" /\ invoice'[n].paid = invoice[n].due
          /\ invoice'[n].total = invoice[n].total
      <4>1. invoice' = [invoice EXCEPT ![n] = [status |-> "paid", total |-> invoice[n].total,
                                               paid |-> invoice[n].due, due |-> 0]]
        BY <1>1, <1>2, <1>4, <2>1, PaidInvoice
      <4> QED
        BY <1>1, <4>1 DEF Payments
    <3>3. \A u \in disputed : transaction'[u].invoice # n => transaction[u].invoice # n
      BY <1>1, <2>2 DEF Payments
    <3>4. disputed' = disputed
      BY <1>2, <2>5 DEF Decide
    <3>5. IsFiniteSet(Completed(n))
      BY BillingAssumption, FS_Subset DEF Completed
    <3>6. Cardinality(Completed(n)') = Cardinality(Completed(n)) + 1
      BY <3>1, <3>5, FS_AddElement
    <3>7. Cardinality(Completed(n)') = 1 => Completed(n) = {}
      BY <3>5, <3>6, FS_EmptySet, FS_CardinalityType
    <3>8. Covered(n)
      BY DEF Paid
    <3> QED
      BY <3>1, <3>2, <3>3, <3>4, <3>7, <3>8 DEF Covered
  <2> QED
    BY <2>4, <2>5
<1>5. Blank'
  BY <1>1, <1>2 DEF Paid, Blank, Decide, Payments
<1> QED
  BY <1>3, <1>4, <1>5 DEF Paid

\* What has nothing to do with payments.
LEMMA OthersPaid == Paid /\ UNCHANGED payVars => Paid'
<1> SUFFICES ASSUME Paid, UNCHANGED payVars PROVE Paid'
  OBVIOUS
<1>1. UNCHANGED <<invoice, transaction, disputed>>
  BY DEF payVars
<1>2. \A n \in Numbers : Covered(n)'
  BY <1>1, PaymentsStayPaid
<1> QED
  BY <1>1, <1>2 DEF Paid, Blank

\* Every step keeps invoices covered.
LEMMA NextPaid == Owes /\ Paid /\ [Next]_vars => Paid'
<1> SUFFICES ASSUME Owes, Paid, [Next]_vars PROVE Paid'
  OBVIOUS
<1>1. CASE UNCHANGED payVars
  BY <1>1, OthersPaid
<1>2. ASSUME NEW r \in Requests, GenerateBegin(r) \/ DecideBegin(r) PROVE Paid'
  <2>1. UNCHANGED payVars
    BY <1>2 DEF GenerateBegin, DecideBegin
  <2> QED
    BY <2>1, OthersPaid
<1>3. ASSUME NEW r \in Requests, GenerateWrite(r) \/ ApproveWrite(r) \/ RejectWrite(r)
      PROVE  Paid'
  BY <1>3, GeneratePaid, ApprovePaid, RejectPaid
<1>4. CASE (\E n \in Numbers : Cancel(n)) \/ (\E t \in Transactions : LogManual(t))
  BY <1>4, CancelPaid, LogPaid
<1>5. CASE UNCHANGED vars
  <2>1. UNCHANGED payVars
    BY <1>5 DEF vars
  <2> QED
    BY <2>1, OthersPaid
<1> QED
  BY <1>1, <1>2, <1>3, <1>4, <1>5 DEF Next

-----------------------------------------------------------------------------
(***************************************************************************)
(* Theorems.                                                               *)
(***************************************************************************)

\* The inductive invariant holds in every reachable state.
THEOREM InvariantHolds == Spec => []IInv
<1>1. Init => IInv
  BY InitChooses, InitOwes, InitPaid DEF IInv
<1>2. IInv /\ [Next]_vars => IInv'
  BY NextChooses, NextOwes, NextPaid DEF IInv, Chooses
<1> QED
  BY <1>1, <1>2, PTL DEF Spec

\* The variables have their types, and a payment names an invoice there is.
THEOREM TypesHold == Spec => []BillingTypeOK
<1>1. IInv => BillingTypeOK
  BY DEF IInv, Owes
<1> QED
  BY <1>1, InvariantHolds, PTL

\* The plan and status of the tenant are those of the last save or approved payment, unless
\* a recalculation that had read the row before took them back.
THEOREM ChoiceStands == Spec => []PlanIsKept
<1>1. IInv => PlanIsKept
  BY DEF IInv, Chooses
<1> QED
  BY <1>1, InvariantHolds, PTL

\* The amount in the row is the price of the plan and of each enabled module that the plan
\* does not bring, whenever nothing has changed since the last recalculation began.
THEOREM AmountStaysOwed == Spec => []AmountIsOwed
<1>1. IInv => AmountIsOwed
  BY DEF IInv, Owes
<1> QED
  BY <1>1, InvariantHolds, PTL

\* An invoice is paid by approved payments only, in full by the first of them, unless a
\* payment of it was decided twice.
THEOREM ApprovalsCoverInvoices == Spec => []PaidIsCovered
<1>1. IInv => PaidIsCovered
  BY DEF IInv, Paid, Covered, PaidIsCovered
<1> QED
  BY <1>1, InvariantHolds, PTL
=============================================================================
