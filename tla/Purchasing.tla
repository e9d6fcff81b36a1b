----------------------------- MODULE Purchasing -----------------------------
(***************************************************************************)
(* A host built on the engine: the purchasing application of               *)
(* examples/contextual-ui.  An order is the host's own record; each step   *)
(* of its life is a task, and a relay sink moves the order on as tasks     *)
(* complete.                                                               *)
(*                                                                         *)
(* What runs side by side: people working on tasks, the purchase order     *)
(* forms, the suppliers' passes, the relay's deliveries, which repeat and  *)
(* overtake each other, and the order pages.  Every database write is a    *)
(* step of its own, except where the host opens a transaction.             *)
(*                                                                         *)
(* The engine is what this host uses of it: a task identifier is created   *)
(* once, a completion is conditional on the version the caller read, and a *)
(* completion leaves an event that is delivered at least once.  Who may    *)
(* complete which task is TaskService's business.                          *)
(***************************************************************************)
EXTENDS Naturals, FiniteSets

CONSTANTS Orders,        \* the orders placed or seeded
          Couriers,      \* deliveries that may overlap
          Suppliers,     \* passes over the invoices due that may overlap
          Forms,         \* purchase order forms being submitted
          Pages,         \* order pages being read
          MaxFailures    \* bound: how many deliveries fail

VARIABLES
    orders,          \* the orders table
    invoices,        \* the orders that have an invoice row
    documents,       \* the document of each order
    tasks,           \* the engine's tasks, by order and activity
    events,          \* the completions in the outbox, as the workflow sink stands
    deliveries,      \* where each delivery to the sink is
    supplierPasses,  \* the orders each supplier pass has yet to look at
    forms,           \* what each submitted form has checked
    pages,           \* what each order page has read
    failures         \* how many deliveries have failed

orderVars == <<orders, invoices, documents, tasks, events>>
purchasingVars == <<orderVars, deliveries, supplierPasses, forms, pages, failures>>

(* The domain ***********************************************************)

Stages == {"pending-approval", "awaiting-purchase-order", "awaiting-invoice",
           "invoice-review", "invoice-approval"}

TaskTypes == {"approve-order", "send-order", "upload-order", "review-invoice", "approve-invoice"}

\* Sending and uploading are the same activity, done two ways.
ActivityOf(type) ==
    IF type \in {"send-order", "upload-order"} THEN "purchase-order" ELSE type

Activities == {ActivityOf(type) : type \in TaskTypes}

\* expected stands for invoice_expected_at: not set, ahead, or passed.
NoOrder == [status |-> "none", registered |-> FALSE, invoiced |-> FALSE, expected |-> "none"]

\* A task's status is open until it is COMPLETED or ended some other way; its
\* output is the answer the workflow reads.
NoTask == [type |-> "none", status |-> "none", output |-> FALSE]

\* The identifier of an order's task for an activity is derived from both.
TaskID(activity, o) == <<o, activity>>

PurchaseOrderType(row) == IF row.registered THEN "send-order" ELSE "upload-order"

\* The task an order waits on at a stage, if it waits on one.
StageType(row) ==
    CASE row.status = "pending-approval" -> "approve-order"
      [] row.status = "awaiting-purchase-order" -> PurchaseOrderType(row)
      [] row.status = "invoice-review" -> "review-invoice"
      [] row.status = "invoice-approval" -> "approve-invoice"
      [] OTHER -> "none"

(* The store ************************************************************)

SaveOrder(o, row) == orders[o].status = "none" /\ orders' = [orders EXCEPT ![o] = row]

SaveInvoice(os) == invoices \cap os = {} /\ invoices' = invoices \cup os

\* A document's identifier is its order's number, so an order has at most one.
SaveDocument(o, method) ==
    IF method = "none" THEN UNCHANGED documents
    ELSE documents[o] = "none" /\ documents' = [documents EXCEPT ![o] = method]

\* Mutant: the order moves whatever its status is now.
AdvanceAnyOrder(o, from, to) == orders' = [orders EXCEPT ![o].status = to]

\* The conditional updates: an order no longer in the status expected is left alone.
AdvanceOrder(o, from, to) ==
    orders' = IF orders[o].status = from THEN [orders EXCEPT ![o].status = to] ELSE orders

AwaitInvoice(o) ==
    orders' = IF orders[o].status = "awaiting-purchase-order"
              THEN [orders EXCEPT ![o].status = "awaiting-invoice", ![o].expected = "ahead"]
              ELSE orders

ReceiveInvoice(o) ==
    /\ orders[o].status = "awaiting-invoice"
    /\ orders' = [orders EXCEPT ![o].status = "invoice-review", ![o].invoiced = TRUE]

InvoicesDue == {o \in Orders : orders[o].status = "awaiting-invoice" /\ orders[o].expected = "passed"}

(* The engine, as this host uses it *************************************)

CreateTask(id, type) ==
    /\ tasks[id].status = "none"
    /\ tasks' = [tasks EXCEPT ![id] = [type |-> type, status |-> "open", output |-> FALSE]]

CompleteTask(id, output) ==
    /\ tasks[id].status = "open"
    /\ tasks' = [tasks EXCEPT ![id].status = "COMPLETED", ![id].output = output]
    /\ events' = [events EXCEPT ![id] = "pending"]

(* Opening orders *******************************************************)

\* One transaction: the order, what its stage presupposes, and the task its
\* stage waits on.  A failure leaves none of them.
OpenOrder(o, stage, registered) ==
    LET row == [status |-> stage, registered |-> registered,
                invoiced |-> stage \in {"invoice-review", "invoice-approval"},
                expected |-> IF stage = "awaiting-invoice" THEN "ahead" ELSE "none"]
        sent == row.invoiced \/ row.expected # "none"
        type == StageType(row) IN
    /\ SaveOrder(o, row)
    /\ SaveDocument(o, IF sent THEN "sent" ELSE "none")
    /\ SaveInvoice(IF row.invoiced THEN {o} ELSE {})
    /\ IF type = "none" THEN UNCHANGED tasks
       ELSE CreateTask(TaskID(ActivityOf(type), o), type)
    /\ UNCHANGED events

Others == <<deliveries, supplierPasses, forms, pages, failures>>

PlaceOrder(o) ==
    /\ \E registered \in BOOLEAN : OpenOrder(o, "pending-approval", registered)
    /\ UNCHANGED Others

\* The orders the server starts with are at every stage; one past its purchase
\* order is a registered supplier's.
Seed(o) ==
    /\ \E stage \in Stages, registered \in BOOLEAN :
           /\ registered \/ stage \in {"pending-approval", "awaiting-purchase-order"}
           /\ OpenOrder(o, stage, registered)
    /\ UNCHANGED Others

(* People and their tasks ***********************************************)

\* Claims, starts, releases and progress saves: the version moves on, and a
\* form opened before holds one that is no longer current.
WorkOn(id) ==
    /\ tasks[id].status = "open"
    /\ \E f \in Forms : forms[f].at # "idle" /\ forms[f].id = id /\ forms[f].current
    /\ forms' = [f \in Forms |->
                    IF forms[f].id = id THEN [forms[f] EXCEPT !.current = FALSE] ELSE forms[f]]
    /\ UNCHANGED <<orderVars, deliveries, supplierPasses, pages, failures>>

\* A completion through the task API, which accepts purchase order tasks too.
CompleteByUser(id) ==
    /\ \E output \in BOOLEAN : CompleteTask(id, output)
    /\ UNCHANGED <<orders, invoices, documents, Others>>

\* Failed, cancelled or made obsolete: no completion, and the order stays.
End(id) ==
    /\ tasks[id].status = "open"
    /\ tasks' = [tasks EXCEPT ![id].status = "ended"]
    /\ UNCHANGED <<orders, invoices, documents, events, Others>>

(* The purchase order forms *********************************************)

NoForm == [at |-> "idle", id |-> CHOOSE id \in Orders \X Activities : TRUE, current |-> FALSE]

\* The order and the task are read, and checked to be issued this way.
PurchaseOrderOf(f, o, type) ==
    LET id == TaskID("purchase-order", o) IN
    /\ forms[f].at = "idle"
    /\ orders[o].status # "none"
    /\ tasks[id].type = type
    /\ forms' = [forms EXCEPT ![f] = [at |-> type, id |-> id, current |-> TRUE]]
    /\ UNCHANGED <<orderVars, deliveries, supplierPasses, pages, failures>>

\* One transaction: the task is completed at the version the form was opened
\* with, and the document stored.
Issue(f, method) ==
    LET o == forms[f].id[1] IN
    /\ forms[f].current
    /\ CompleteTask(forms[f].id, TRUE)
    /\ SaveDocument(o, method)

FormDone(f) ==
    /\ forms' = [forms EXCEPT ![f] = NoForm]
    /\ UNCHANGED <<orders, invoices, deliveries, supplierPasses, pages, failures>>

SendPurchaseOrder(f) == forms[f].at = "send-order" /\ Issue(f, "sent") /\ FormDone(f)

UploadPurchaseOrder(f) == forms[f].at = "upload-order" /\ Issue(f, "uploaded") /\ FormDone(f)

\* The engine answers a conflict, a refusal or an error: nothing is stored.
FormRefused(f) ==
    /\ forms[f].at # "idle"
    /\ UNCHANGED <<documents, tasks, events>>
    /\ FormDone(f)

(* The suppliers ********************************************************)

InvoiceFallsDue(o) ==
    /\ orders[o].expected = "ahead"
    /\ orders' = [orders EXCEPT ![o].expected = "passed"]
    /\ UNCHANGED <<invoices, documents, tasks, events, Others>>

ReceiveDueInvoices(s) ==
    /\ supplierPasses[s] = {}
    /\ InvoicesDue # {}
    /\ supplierPasses' = [supplierPasses EXCEPT ![s] = InvoicesDue]
    /\ UNCHANGED <<orderVars, deliveries, forms, pages, failures>>

\* One transaction; an order that has moved on receives nothing.
ReceiveOne(o) ==
    \/ /\ ReceiveInvoice(o)
       /\ SaveInvoice({o})
       /\ CreateTask(TaskID("review-invoice", o), "review-invoice")
    \/ orders[o].status # "awaiting-invoice" /\ UNCHANGED <<orders, invoices, tasks>>

\* A transaction that fails leaves the invoice due for a later pass.
ReceiveNext(s, o) ==
    /\ o \in supplierPasses[s]
    /\ supplierPasses' = [supplierPasses EXCEPT ![s] = @ \ {o}]
    /\ UNCHANGED <<documents, events, deliveries, forms, pages>>
    /\ \/ ReceiveOne(o) /\ UNCHANGED failures
       \/ /\ failures < MaxFailures
          /\ failures' = failures + 1
          /\ UNCHANGED <<orders, invoices, tasks>>

(* The workflow sink ****************************************************)

\* Where a completion moves its order: the statuses before and after, and
\* whether the new status waits on a task.
Step(task) ==
    CASE task.type = "approve-order" ->
             IF task.output THEN [from |-> "pending-approval", to |-> "awaiting-purchase-order",
                                  requests |-> TRUE]
             ELSE [from |-> "pending-approval", to |-> "declined", requests |-> FALSE]
      [] task.type \in {"send-order", "upload-order"} ->
             [from |-> "awaiting-purchase-order", to |-> "awaiting-invoice", requests |-> FALSE]
      [] task.type = "review-invoice" ->
             IF task.output THEN [from |-> "invoice-review", to |-> "invoice-approval",
                                  requests |-> TRUE]
             ELSE [from |-> "invoice-review", to |-> "disputed", requests |-> FALSE]
      [] OTHER ->
             [from |-> "invoice-approval",
              to |-> IF task.output THEN "approved" ELSE "rejected", requests |-> FALSE]

NoDelivery == [at |-> "idle", id |-> CHOOSE id \in Orders \X Activities : TRUE]

DeliverCompletion(r, id) ==
    /\ deliveries[r].at = "idle"
    /\ events[id] = "pending"
    /\ deliveries' = [deliveries EXCEPT ![r] = [at |-> "advance", id |-> id]]
    /\ UNCHANGED <<orderVars, supplierPasses, forms, pages, failures>>

\* The update of the order, the first write of every step.
Advance(o, step) ==
    IF step.to = "awaiting-invoice" THEN AwaitInvoice(o)
    ELSE AdvanceOrder(o, step.from, step.to)

\* The task the order's new status waits on; one that exists is already done.
RequestedType(o, step) ==
    IF step.to = "awaiting-purchase-order" THEN PurchaseOrderType(orders[o])
    ELSE "approve-invoice"

Request(o, type) ==
    LET id == TaskID(ActivityOf(type), o) IN
    IF tasks[id].status = "none" THEN CreateTask(id, type) ELSE UNCHANGED tasks

\* Mutant: the task is created before the order moves.
AdvanceAndRequestReversed(r) ==
    LET o == deliveries[r].id[1]
        step == Step(tasks[deliveries[r].id]) IN
    \/ /\ deliveries[r].at = "advance"
       /\ IF step.requests THEN Request(o, RequestedType(o, step)) ELSE UNCHANGED tasks
       /\ deliveries' = [deliveries EXCEPT ![r].at = "request"]
       /\ UNCHANGED orders
    \/ /\ deliveries[r].at = "request"
       /\ Advance(o, step)
       /\ deliveries' = [deliveries EXCEPT ![r].at = "settle"]
       /\ UNCHANGED tasks

\* The order moves before the task exists, so that a completion of the task
\* always finds the order waiting on it.
AdvanceAndRequest(r) ==
    LET o == deliveries[r].id[1]
        step == Step(tasks[deliveries[r].id]) IN
    \/ /\ deliveries[r].at = "advance"
       /\ Advance(o, step)
       /\ deliveries' = [deliveries EXCEPT ![r].at = IF step.requests THEN "request" ELSE "settle"]
       /\ UNCHANGED tasks
    \/ /\ deliveries[r].at = "request"
       /\ Request(o, RequestedType(o, step))
       /\ deliveries' = [deliveries EXCEPT ![r].at = "settle"]
       /\ UNCHANGED orders

WorkflowStep(r) ==
    /\ AdvanceAndRequest(r)
    /\ UNCHANGED <<invoices, documents, events, supplierPasses, forms, pages, failures>>

\* A failed write is retryable: the event stays, for a later attempt.  So does
\* one whose acceptance could not be recorded.
DeliveryFails(r) ==
    /\ deliveries[r].at # "idle"
    /\ failures < MaxFailures
    /\ failures' = failures + 1
    /\ deliveries' = [deliveries EXCEPT ![r] = NoDelivery]
    /\ UNCHANGED <<orderVars, supplierPasses, forms, pages>>

MarkTaken(r) ==
    /\ deliveries[r].at = "settle"
    /\ events' = [events EXCEPT ![deliveries[r].id] = "accepted"]
    /\ deliveries' = [deliveries EXCEPT ![r] = NoDelivery]
    /\ UNCHANGED <<orders, invoices, documents, tasks, supplierPasses, forms, pages, failures>>

(* The order page *******************************************************)

NoPage ==
    [at |-> "idle", order |-> CHOOSE o \in Orders : TRUE, status |-> "none", invoice |-> FALSE]

\* Mutant: the invoice is looked up before the order.
PageReadsReversed(p, o) ==
    \/ /\ pages[p].at = "idle"
       /\ orders[o].status # "none"
       /\ pages' = [pages EXCEPT ![p] = [at |-> "invoice", order |-> o, status |-> "none",
                                         invoice |-> o \in invoices]]
    \/ /\ pages[p].at = "invoice"
       /\ pages[p].order = o
       /\ pages' = [pages EXCEPT ![p].at = "tasks", ![p].status = orders[o].status]
    \/ pages[p].at = "tasks" /\ pages[p].order = o /\ pages' = [pages EXCEPT ![p] = NoPage]

\* The order, then its invoice, then its documents and tasks, each read on its
\* own; the page is answered with the last.
PageReads(p, o) ==
    \/ /\ pages[p].at = "idle"
       /\ orders[o].status # "none"
       /\ pages' = [pages EXCEPT ![p] = [at |-> "invoice", order |-> o,
                                         status |-> orders[o].status, invoice |-> FALSE]]
    \/ /\ pages[p].at = "invoice"
       /\ pages[p].order = o
       /\ pages' = [pages EXCEPT ![p].at = "tasks", ![p].invoice = o \in invoices]
    \/ pages[p].at = "tasks" /\ pages[p].order = o /\ pages' = [pages EXCEPT ![p] = NoPage]

OrderRecord(p, o) ==
    PageReads(p, o) /\ UNCHANGED <<orderVars, deliveries, supplierPasses, forms, failures>>

(* The specification ****************************************************)

PurchasingInit ==
    /\ orders = [o \in Orders |-> NoOrder]
    /\ invoices = {}
    /\ documents = [o \in Orders |-> "none"]
    /\ tasks = [id \in Orders \X Activities |-> NoTask]
    /\ events = [id \in Orders \X Activities |-> "none"]
    /\ deliveries = [r \in Couriers |-> NoDelivery]
    /\ supplierPasses = [s \in Suppliers |-> {}]
    /\ forms = [f \in Forms |-> NoForm]
    /\ pages = [p \in Pages |-> NoPage]
    /\ failures = 0

CourierStep(r) ==
    \/ \E id \in Orders \X Activities : DeliverCompletion(r, id)
    \/ WorkflowStep(r) \/ MarkTaken(r)

SupplierStep(s) == ReceiveDueInvoices(s) \/ \E o \in Orders : ReceiveNext(s, o)

PurchasingNext ==
    \/ \E o \in Orders : PlaceOrder(o) \/ Seed(o) \/ InvoiceFallsDue(o)
    \/ \E id \in Orders \X Activities : WorkOn(id) \/ CompleteByUser(id) \/ End(id)
    \/ \E f \in Forms :
           \/ \E o \in Orders, type \in {"send-order", "upload-order"} : PurchaseOrderOf(f, o, type)
           \/ SendPurchaseOrder(f) \/ UploadPurchaseOrder(f) \/ FormRefused(f)
    \/ \E s \in Suppliers : SupplierStep(s)
    \/ \E r \in Couriers : CourierStep(r) \/ DeliveryFails(r)
    \/ \E p \in Pages, o \in Orders : OrderRecord(p, o)

PurchasingSpec == PurchasingInit /\ [][PurchasingNext]_purchasingVars

(* What the application relies on ***************************************)

Open(o, activity) == tasks[TaskID(activity, o)].status = "open"
Abandoned(o, activity) == tasks[TaskID(activity, o)].status = "ended"
Undelivered(o, activity) == events[TaskID(activity, o)] = "pending"

\* The activity whose completion leads an order to wait on this one.
Precursor(activity) ==
    CASE activity = "purchase-order" -> "approve-order"
      [] activity = "approve-invoice" -> "review-invoice"
      [] OTHER -> "none"

\* An order is never stranded.  Whatever deliveries fail, repeat or overlap, an
\* order that waits on a task has that task open, or its completion still to
\* be delivered, or the delivery that creates it still to be done; an order
\* that waits for its invoice has an expected time, so a pass will find it.
NoOrderStranded ==
    \A o \in Orders :
        LET type == StageType(orders[o])
            activity == ActivityOf(type) IN
        /\ type # "none" =>
               \/ Open(o, activity) \/ Abandoned(o, activity) \/ Undelivered(o, activity)
               \/ /\ Precursor(activity) # "none"
                  /\ tasks[TaskID(activity, o)].status = "none"
                  /\ Undelivered(o, Precursor(activity))
        /\ orders[o].status = "awaiting-invoice" => orders[o].expected # "none"

\* Whether an order's task for an activity was answered so.
Answered(o, activity, output) ==
    LET t == tasks[TaskID(activity, o)] IN t.status = "COMPLETED" /\ t.output = output

Billed == {"invoice-review", "invoice-approval", "disputed", "approved", "rejected"}

\* An order is where its people's answers put it, however often and however
\* late their completions are delivered.  Nothing is ordered, reviewed or
\* decided that a completed task did not ask for, a final status is the answer
\* that was given, and an order never falls back behind a task that exists.
\* (An order seeded past a task has no such task.)
OrderFollowsDecisions ==
    \A o \in Orders :
        LET status == orders[o].status
            exists(activity) == tasks[TaskID(activity, o)].status # "none"
            said(activity, output) == ~exists(activity) \/ Answered(o, activity, output) IN
        /\ status \notin {"none", "pending-approval", "declined"} => said("approve-order", TRUE)
        /\ status \in {"invoice-approval", "approved", "rejected"} => said("review-invoice", TRUE)
        /\ status = "declined" => Answered(o, "approve-order", FALSE)
        /\ status = "disputed" => Answered(o, "review-invoice", FALSE)
        /\ status \in {"approved", "rejected"} =>
               Answered(o, "approve-invoice", status = "approved")
        /\ exists("purchase-order") => status \notin {"pending-approval", "declined"}
        /\ exists("review-invoice") => status \in Billed
        /\ exists("approve-invoice") => status \in {"invoice-approval", "approved", "rejected"}

\* What a page shows is never behind the status it shows: the records that came
\* with a status, or before it, are there.
PageNeverBehind ==
    [][\A p \in Pages :
           LET page == pages[p]
               shows(activity) == tasks[TaskID(activity, page.order)].status # "none" IN
           page.at = "tasks" /\ pages'[p].at = "idle" =>
               /\ page.status \in Billed => page.invoice
               /\ page.status = "pending-approval" => shows("approve-order")
               /\ page.status \in {"invoice-review", "disputed"} => shows("review-invoice")
               /\ page.status \in {"approved", "rejected"} => shows("approve-invoice")
      ]_purchasingVars

\* A record is there exactly with the change it was written with: the invoice
\* with the order's move to review, the document with the completion of its
\* purchase order task.
RecordsMatchOrder ==
    \A o \in Orders :
        /\ o \in invoices <=> orders[o].invoiced
        /\ orders[o].invoiced => tasks[TaskID("purchase-order", o)].status \in {"none", "COMPLETED"}
        /\ tasks[TaskID("review-invoice", o)].status # "none" => o \in invoices
        /\ documents[o] = "uploaded" => ~orders[o].registered
        /\ documents[o] # "none" =>
               tasks[TaskID("purchase-order", o)].status \in {"none", "COMPLETED"}

\* An order and everything recorded for it follow what its people decided.
OrdersFollowDecisions == OrderFollowsDecisions /\ RecordsMatchOrder
=============================================================================
