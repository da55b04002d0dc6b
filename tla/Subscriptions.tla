---------------------------- MODULE Subscriptions ----------------------------
(***************************************************************************)
(* What one tenant is subscribed to and what it owes for it: its row of    *)
(* tenant_subscriptions, its modules (tenant_modules), the plans offered   *)
(* to its line of business (business_plan_matrix), the plans in general    *)
(* (plans) and the module catalog (modules).  A plan here is one of the    *)
(* four that may be offered, with its billing cycle.                       *)
(*                                                                         *)
(* A superadmin request checks, writes in one statement or transaction,    *)
(* and then recalculates the amount with four statements of its own and no *)
(* transaction: it reads the row, the plan's price and the add-ons, and    *)
(* writes all columns of the row back.                                     *)
(***************************************************************************)
EXTENDS Naturals, FiniteSets, FiniteSetsExt

CONSTANTS Plans, Modules,
          SeededModules,   \* those the code seeds again at every request
          Offers,          \* what the superadmin may offer as a plan: the matrix rows
          FirstOffers,     \* the matrix as it was set up
          ListPrices,      \* catalog prices the superadmin may ask for
          SeedPrice,       \* price_monthly of a module as it was created
          PlanRows,        \* what the superadmin may save of a plan itself
          FirstPlanRows,   \* the plans as they were seeded
          Overrides,       \* the prices agreed with a tenant
          Statuses,        \* of a subscription
          Requests,        \* requests that may be in flight at once
          NoPlan,
          MaxRequests      \* requests in all, those that make an invoice aside, a bound

ASSUME SubscriptionsAssumption ==
  /\ IsFiniteSet(Modules) /\ SeededModules \subseteq Modules
  /\ Offers \subseteq [price: Nat, active: BOOLEAN, modules: SUBSET Modules]
  /\ FirstOffers \in [Plans -> Offers]
  /\ ListPrices \subseteq Nat /\ Overrides \subseteq Nat
  /\ SeedPrice \in ListPrices
  /\ PlanRows \subseteq [price: Nat, active: BOOLEAN]
  /\ FirstPlanRows \in [Plans -> PlanRows]
  /\ NoPlan \notin Plans
  /\ "active" \in Statuses
  /\ MaxRequests \in Nat

VARIABLES subscription,  \* the tenant's row of tenant_subscriptions
          owned,         \* its rows of tenant_modules
          matrix,        \* business_plan_matrix and business_plan_modules
          plans,         \* plans, whatever the business
          catalog,       \* modules
          req,           \* what each request has read and has still to do
          begun,         \* requests begun so far
          chosen,        \* history: the plan and status last chosen, see PlanIsKept
          outdated       \* history: the amounts are out of date, see AmountIsOwed

subVars == <<subscription, owned, matrix, plans, catalog, req, begun, chosen, outdated>>

Choice == [plan: Plans \cup {NoPlan}, status: Statuses]
Subscription == [plan: Plans \cup {NoPlan}, status: Statuses,
                 base: Nat, addons: Nat, amount: Nat]
NoSubscription == [plan |-> NoPlan, status |-> "active", base |-> 0, addons |-> 0, amount |-> 0]
ChoiceOf(sub) == [plan |-> sub.plan, status |-> sub.status]
NoChoice == [plan |-> NoPlan, status |-> "active"]
NoRow == [there |-> FALSE, enabled |-> FALSE, source |-> "manual", price |-> 0, agreed |-> FALSE]

\* at: the statement that comes next.  arg: the request's body.  row, base, addons: what
\* it has read.  late: what has changed since, the row or what the amount depends on.
Idle == [op |-> "none", at |-> "idle", arg |-> NoChoice, row |-> NoChoice,
         base |-> 0, addons |-> 0, late |-> {}]

SubscriptionTypeOK ==
  /\ subscription \in Subscription
  /\ owned \in [Modules -> [there: BOOLEAN, enabled: BOOLEAN, source: {"plan", "manual"},
                            price: Nat, agreed: BOOLEAN]]
  /\ matrix \in [Plans -> [price: Nat, active: BOOLEAN, modules: SUBSET Modules]]
  /\ plans \in [Plans -> PlanRows]
  /\ catalog \in [Modules -> [price: ListPrices, active: BOOLEAN]]
  /\ chosen \in Choice
  /\ outdated \in BOOLEAN
  /\ begun \in 0..MaxRequests
  /\ \A r \in Requests :
       /\ req[r].row \in Choice /\ req[r].base \in Nat /\ req[r].addons \in Nat
       /\ req[r].at = "total" => req[r].row.plan # NoPlan

SubInit ==
  /\ subscription = NoSubscription
  /\ owned = [m \in Modules |-> NoRow]
  /\ matrix = FirstOffers
  /\ plans = FirstPlanRows
  /\ catalog = [m \in Modules |-> [price |-> SeedPrice, active |-> TRUE]]
  /\ req = [r \in Requests |-> Idle]
  /\ begun = 0
  /\ chosen = NoChoice
  /\ outdated = FALSE

-----------------------------------------------------------------------------
\* ensureModuleEntitlementSchema runs at the start of every request about modules.
Reseeded == [m \in Modules |-> IF m \in SeededModules
                               THEN [price |-> SeedPrice, active |-> TRUE] ELSE catalog[m]]

\* Since request r has read the row or summed the add-ons, `what` has changed.
Recalculating(r) == req[r].at \in {"base", "addons", "total"}
Late(what) == [r \in Requests |-> IF Recalculating(r)
                                  THEN [req[r] EXCEPT !.late = @ \cup what] ELSE req[r]]

OneMore == begun < MaxRequests /\ begun' = begun + 1
Begin(r, op, arg, base) ==
  req' = [Late(IF Reseeded = catalog THEN {} ELSE {"amount"})
            EXCEPT ![r] = [Idle EXCEPT !.op = op, !.at = "write", !.arg = arg, !.base = base]]

\* A request that has written goes on with the recalculation, which reads for itself.
Recalculate == [Idle EXCEPT !.at = "row"]

\* scsBusinessPlanPrice: only for a plan that is offered.
Offered(plan) == plan # NoPlan /\ matrix[plan].active

\* The price of a plan that is not offered is the one in plans, and 0 if it is not active
\* there either.
BasePrice(plan) ==
  IF plan = NoPlan THEN 0
  ELSE IF Offered(plan) THEN matrix[plan].price
  ELSE IF plans[plan].active THEN plans[plan].price ELSE 0

\* The recalculation's sum: a price of 0 falls back to the list price.
IsAddon(m, plan) ==
  /\ owned[m].enabled /\ owned[m].source # "plan"
  /\ plan = NoPlan \/ m \notin matrix[plan].modules
AddonPrice(m) == IF owned[m].price # 0 THEN owned[m].price ELSE catalog[m].price

\* Faulty: without the conditions on the source and on the plan's own modules.
AddonsForAll(plan) == MapThenSumSet(AddonPrice, {m \in Modules : owned[m].enabled})

AddonsFor(plan) == MapThenSumSet(AddonPrice, {m \in Modules : IsAddon(m, plan)})

-----------------------------------------------------------------------------
(***************************************************************************)
(* The requests.                                                           *)
(***************************************************************************)
\* Any request about modules, those that only read included, seeds the catalog.
Reseed ==
  /\ catalog # Reseeded
  /\ catalog' = Reseeded
  /\ outdated' = TRUE
  /\ req' = Late({"amount"})
  /\ UNCHANGED <<subscription, owned, matrix, plans, begun, chosen>>

\* handleSuperadminSubscriptionSave, up to its transaction.
SaveBegin(r) ==
  /\ req[r] = Idle /\ OneMore
  /\ \E choice \in [plan: Plans, status: Statuses] :
       /\ Offered(choice.plan)
       /\ Begin(r, "save", choice, BasePrice(choice.plan))
  /\ catalog' = Reseeded
  /\ outdated' = (outdated \/ catalog # Reseeded)
  /\ UNCHANGED <<subscription, owned, matrix, plans, chosen>>

\* The plan's modules: those of the old plan are disabled, those of the new one enabled.
PlanModules(plan) ==
  [m \in Modules |->
     IF m \in matrix[plan].modules /\ catalog[m].active
     THEN [there |-> TRUE, enabled |-> TRUE,
           source |-> IF owned[m].there THEN owned[m].source ELSE "plan",
           price |-> IF owned[m].agreed THEN owned[m].price ELSE catalog[m].price,
           agreed |-> owned[m].agreed]
     ELSE [owned[m] EXCEPT !.enabled = @ /\ owned[m].source # "plan"]]

\* The transaction.  The add-ons of a row that was there are left to the recalculation.
SaveWrite(r) ==
  /\ req[r].at = "write" /\ req[r].op = "save"
  /\ LET choice == req[r].arg IN
       /\ subscription' = [plan |-> choice.plan, status |-> choice.status,
                           base |-> req[r].base, addons |-> subscription.addons,
                           amount |-> req[r].base]
       /\ owned' = PlanModules(choice.plan)
       /\ chosen' = choice
  /\ outdated' = TRUE
  /\ req' = [Late({"row", "amount"}) EXCEPT ![r] = Recalculate]
  /\ UNCHANGED <<matrix, plans, catalog, begun>>

\* handleSuperadminTenantModulesUpdate.
ModuleBegin(r) ==
  /\ req[r] = Idle /\ OneMore
  /\ \E change \in [module: Modules, enabled: BOOLEAN, source: {"plan", "manual"}] :
       /\ Reseeded[change.module].active
       /\ Begin(r, "module", change, 0)
  /\ catalog' = Reseeded
  /\ outdated' = (outdated \/ catalog # Reseeded)
  /\ UNCHANGED <<subscription, owned, matrix, plans, chosen>>

ModuleWrite(r) ==
  /\ req[r].at = "write" /\ req[r].op = "module"
  /\ LET change == req[r].arg
         m == change.module
     IN owned' = [owned EXCEPT ![m] =
                    [there |-> TRUE, enabled |-> change.enabled, source |-> change.source,
                     price |-> IF @.agreed THEN @.price ELSE catalog[m].price,
                     agreed |-> @.agreed]]
  /\ outdated' = TRUE
  /\ req' = [Late({"amount"}) EXCEPT ![r] = Recalculate]
  /\ UNCHANGED <<subscription, matrix, plans, catalog, begun, chosen>>

\* handleSuperadminTenantModulePriceUpdate: a module the tenant has no row of stays off.
PriceBegin(r) ==
  /\ req[r] = Idle /\ OneMore
  /\ \E deal \in [module: Modules, price: Overrides] :
       /\ Reseeded[deal.module].active
       /\ Begin(r, "price", deal, 0)
  /\ catalog' = Reseeded
  /\ outdated' = (outdated \/ catalog # Reseeded)
  /\ UNCHANGED <<subscription, owned, matrix, plans, chosen>>

PriceWrite(r) ==
  /\ req[r].at = "write" /\ req[r].op = "price"
  /\ owned' = [owned EXCEPT ![req[r].arg.module] =
                 [@ EXCEPT !.there = TRUE, !.price = req[r].arg.price, !.agreed = TRUE]]
  /\ outdated' = TRUE
  /\ req' = [Late({"amount"}) EXCEPT ![r] = Recalculate]
  /\ UNCHANGED <<subscription, matrix, plans, catalog, begun, chosen>>

\* handleSuperadminBusinessPlanMatrixSave: modules that are not active are left out.
MatrixSave ==
  /\ OneMore
  /\ \E plan \in Plans, offer \in Offers :
       LET kept == [offer EXCEPT !.modules = {m \in @ : catalog[m].active}]
       IN kept # matrix[plan] /\ matrix' = [matrix EXCEPT ![plan] = kept]
  /\ outdated' = TRUE
  /\ req' = Late({"amount"})
  /\ UNCHANGED <<subscription, owned, plans, catalog, chosen>>

\* handleSuperadminPlanSave, after the seeding, which keeps what is saved of these plans.
\* Its list of modules is not the one the recalculation asks.
PlanSave ==
  /\ OneMore
  /\ \E plan \in Plans, row \in PlanRows :
       row # plans[plan] /\ plans' = [plans EXCEPT ![plan] = row]
  /\ catalog' = Reseeded
  /\ outdated' = TRUE
  /\ req' = Late({"amount"})
  /\ UNCHANGED <<subscription, owned, matrix, chosen>>

\* handleSuperadminModuleUpdate, after the seeding.
CatalogEdit ==
  /\ OneMore
  /\ \E m \in Modules, price \in ListPrices, active \in BOOLEAN :
       catalog' = [Reseeded EXCEPT ![m] = [price |-> price, active |-> active]]
  /\ outdated' = TRUE
  /\ req' = Late({"amount"})
  /\ UNCHANGED <<subscription, owned, matrix, plans, chosen>>

-----------------------------------------------------------------------------
(***************************************************************************)
(* recalculateTenantSubscriptionAmount, which ends each of these requests. *)
(***************************************************************************)
\* Faulty: takes the status of a new row.
RecalcRowActive(r) ==
  /\ req[r].at = "row"
  /\ req' = [req EXCEPT ![r].at = "base", ![r].late = {},
                        ![r].row = [plan |-> subscription.plan, status |-> "active"]]
  /\ UNCHANGED <<subscription, owned, matrix, plans, catalog, begun, chosen, outdated>>

\* The row is read first, outside any transaction.
RecalcRow(r) ==
  /\ req[r].at = "row"
  /\ req' = [req EXCEPT ![r].at = "base", ![r].late = {},
                        ![r].row = ChoiceOf(subscription)]
  /\ UNCHANGED <<subscription, owned, matrix, plans, catalog, begun, chosen, outdated>>

\* The price of the plan that was read, at the matrix of this moment.
RecalcBase(r) ==
  /\ req[r].at = "base"
  /\ req' = [req EXCEPT ![r].at = "addons", ![r].base = BasePrice(req[r].row.plan)]
  /\ UNCHANGED <<subscription, owned, matrix, plans, catalog, begun, chosen, outdated>>

\* Faulty: goes on without a plan.
RecalcAddonsNoPlan(r) ==
  /\ req[r].at = "addons"
  /\ req' = [req EXCEPT ![r].at = "total", ![r].addons = AddonsFor(req[r].row.plan)]
  /\ UNCHANGED <<subscription, owned, matrix, plans, catalog, begun, chosen, outdated>>

\* Without a row there is no plan: the write that would follow violates the reference to
\* plans, and the request answers with a warning or an error.
RecalcAddons(r) ==
  /\ req[r].at = "addons"
  /\ req' = IF req[r].row.plan = NoPlan THEN [req EXCEPT ![r] = Idle]
            ELSE [req EXCEPT ![r].at = "total", ![r].addons = AddonsFor(req[r].row.plan)]
  /\ UNCHANGED <<subscription, owned, matrix, plans, catalog, begun, chosen, outdated>>

\* All columns are written, the plan and status as they were read included.
RecalcWrite(r) ==
  /\ req[r].at = "total"
  /\ LET row == req[r].row
         base == req[r].base
         addons == req[r].addons
     IN /\ subscription' = [plan |-> row.plan, status |-> row.status, base |-> base,
                            addons |-> addons, amount |-> base + addons]
        /\ chosen' = IF "row" \in req[r].late THEN row ELSE chosen
  /\ outdated' = (req[r].late # {})
  /\ req' = [Late(IF ChoiceOf(subscription) = req[r].row THEN {} ELSE {"row", "amount"})
               EXCEPT ![r] = Idle]
  /\ UNCHANGED <<owned, matrix, plans, catalog, begun>>

\* An error or a time-out ends a request at any statement; what it wrote stays.
RequestFails(r) ==
  /\ req[r] # Idle
  /\ req' = [req EXCEPT ![r] = Idle]
  /\ UNCHANGED <<subscription, owned, matrix, plans, catalog, begun, chosen, outdated>>

SubNext ==
  \/ Reseed \/ MatrixSave \/ PlanSave \/ CatalogEdit
  \/ \E r \in Requests :
       \/ SaveBegin(r) \/ SaveWrite(r)
       \/ ModuleBegin(r) \/ ModuleWrite(r)
       \/ PriceBegin(r) \/ PriceWrite(r)
       \/ RecalcRow(r) \/ RecalcBase(r) \/ RecalcAddons(r) \/ RecalcWrite(r)
       \/ RequestFails(r)

-----------------------------------------------------------------------------
(***************************************************************************)
(* Properties.                                                             *)
(***************************************************************************)
\* What the tenant has agreed to for module m: the agreed price, or else the list price
\* when it was switched on; nothing if the plan brings the module.
Owed(m) ==
  IF ~owned[m].enabled \/ owned[m].source = "plan" \/ m \in matrix[subscription.plan].modules
  THEN 0
  ELSE IF owned[m].price = 0 THEN catalog[m].price ELSE owned[m].price

\* When nothing has changed since the last recalculation read its first row, the row says
\* what the tenant owes: the price of its plan and of each enabled module the plan does not
\* bring.  Requests that overlap leave `outdated` up until one recalculates alone.
\* (recalculateTenantSubscriptionAmount reads with three statements and no transaction.)
AmountIsOwed ==
  ~outdated /\ subscription # NoSubscription =>
    /\ subscription.base = BasePrice(subscription.plan)
    /\ subscription.amount = subscription.base + MapThenSumSet(Owed, Modules)

\* A tenant has a row only after a plan was saved for it, and the row's plan and status are
\* those of the last save or approved payment.  Only a recalculation that had read the row
\* before another request committed takes that one's choice back ("Viewing a client must
\* never create a phantom subscription row for them", web_business_subscription_api.go:99).
PlanIsKept == ChoiceOf(subscription) = chosen
=============================================================================
