------------------------------ MODULE Shipping ------------------------------
(* One order's shipping task and its books: _create_shipping_task,
   purchase_label, update_tracking and reconcile_order of MarketplaceService
   (src/goliath/marketplace/service.py), and the confirmation of a shipment in
   src/goliath/api.py.  A call through the gateway is one action with the
   outcomes that Gateway models. *)
EXTENDS Naturals

CONSTANTS Shippers,          \* jobs and requests
          MaxTaskVersion,    \* bound: versions of the task
          MaxShippingFaults  \* bound: outcomes lost or made up, deaths, changes of the mode

VARIABLES paid,           \* the order is PAID or READY_TO_SHIP
          parcel,         \* what is known of the item's package
          shipment,           \* the ShippingTask row
          shipper,        \* what each caller does
          realWrites,     \* the account's writes are executed; else shadowed
          labels,         \* marketplace: labels bought for the order
          quote,          \* marketplace: what a label costs
          tracking,       \* marketplace: whose tracking number the order has
          keys,           \* keys with a succeeded attempt row
          raised,         \* types of the ExceptionTasks opened
          books,          \* the latest ReconciliationRecord
          shippingFaults, \* faults so far
          owed            \* history: why a label may be bought and not recorded

vars == <<paid, parcel, shipment, shipper, realWrites, labels, quote, tracking, keys,
          raised, books, shippingFaults, owed>>

\* Weight and dimensions: incomplete; complete; or too heavy for an estimate.
Parcel == {"incomplete", "light", "heavy"}
TaskStatus == {"none", "pending", "ready", "label_purchased", "shipped"}
Cost == {"none", "zero", "fair", "over"}

\* label: label_reference, tracking_number and carrier are set; cost: label_cost.
Task == [status : TaskStatus, label : BOOLEAN, cost : Cost, version : Nat]

\* expense: the cost of a label is booked.
Books == [status : {"none", "preliminary", "final", "discrepancy"}, expense : BOOLEAN]

\* Types of ExceptionTask.
Raised == {"shipping_data_incomplete", "label_cost_exceeded", "reconciliation_discrepancy"}

Idle == [phase |-> "idle", op |-> "none", version |-> 0, ok |-> FALSE, label |-> FALSE,
         shipped |-> FALSE]

Init ==
    /\ paid = FALSE /\ parcel = "incomplete" /\ realWrites = TRUE
    /\ shipment = [status |-> "none", label |-> FALSE, cost |-> "none", version |-> 0]
    /\ shipper = [c \in Shippers |-> Idle]
    /\ labels = 0 /\ quote = "fair" /\ tracking = "none" /\ keys = {}
    /\ raised = {} /\ books = [status |-> "none", expense |-> FALSE]
    /\ shippingFaults = 0 /\ owed = {}

At(c, phase, op) == shipper[c].phase = phase /\ shipper[c].op = op
Done(c) == shipper' = [shipper EXCEPT ![c] = Idle]
Fault == shippingFaults < MaxShippingFaults /\ shippingFaults' = shippingFaults + 1

\* ExceptionTaskRepository.create: a task of this type is open from now on.
Raise(type) == raised' = raised \cup {type}

world == <<parcel, realWrites, quote>>
accounts == <<raised, books>>

SetMode ==
    /\ realWrites' = ~realWrites /\ Fault
    /\ UNCHANGED <<paid, parcel, shipment, shipper, labels, quote, tracking, keys, accounts, owed>>

OrderPaid ==
    /\ ~paid /\ paid' = TRUE
    /\ UNCHANGED <<world, shipment, shipper, labels, tracking, keys, accounts, shippingFaults, owed>>

\* create_for_order returns the order's task when there is one; the package's
\* data and the price of a label are settled here.
CreateShippingTask ==
    /\ shipment.status = "none"
    /\ parcel' \in Parcel /\ quote' \in Cost \ {"none"}
    /\ shipment' = [shipment EXCEPT !.status = IF parcel' = "incomplete" THEN "pending" ELSE "ready",
                            !.version = 1]
    /\ UNCHANGED <<paid, shipper, realWrites, labels, tracking, keys, accounts,
                   shippingFaults, owed>>

-----------------------------------------------------------------------------
(* Labels *)

\* purchase_label loads the task, in whatever status, and goes on when it has
\* no label, the order is paid and the package is known.
LoadPurchase(c) ==
    /\ shipper[c].phase = "idle" /\ shipment.status # "none"
    /\ ~shipment.label /\ paid /\ parcel = "light" /\ shipment.version < MaxTaskVersion
    /\ shipper' = [shipper EXCEPT ![c] =
         [Idle EXCEPT !.phase = "loaded", !.op = "label", !.version = shipment.version,
                      !.shipped = shipment.status = "shipped"]]
    /\ UNCHANGED <<paid, world, shipment, labels, tracking, keys, accounts, shippingFaults, owed>>

\* _shipping_block
BlockPurchase ==
    /\ shipment.status # "none" /\ ~shipment.label /\ paid /\ parcel = "incomplete"
    /\ Raise("shipping_data_incomplete")
    /\ UNCHANGED <<paid, world, shipment, shipper, labels, tracking, keys, books,
                   shippingFaults, owed>>

Answered(c, ok, label) ==
    shipper' = [shipper EXCEPT ![c].phase = "sent", ![c].ok = ok, ![c].label = label]

\* The gateway's replay check; a shadowed purchase is ok and has no data.
CheckPurchase(c) ==
    /\ At(c, "loaded", "label")
    /\ \/ "label" \in keys /\ Answered(c, TRUE, TRUE)
       \/ "label" \notin keys /\ ~realWrites /\ Answered(c, TRUE, FALSE)
       \/ /\ "label" \notin keys /\ realWrites
          /\ shipper' = [shipper EXCEPT ![c].phase = "buying"]
    /\ UNCHANGED <<paid, world, shipment, labels, tracking, keys, accounts, shippingFaults, owed>>

\* Another purchase of this task has passed its replay check.
Crowded(c) == \E o \in Shippers \ {c} : At(o, "buying", "label")

\* Bought and known of; bought, with the outcome lost; made up by the adapter of
\* an account in simulation (Simulate in Gateway), at the same price; refused.
Buy(c) ==
    /\ At(c, "buying", "label")
    /\ \/ /\ labels' = labels + 1 /\ keys' = keys \cup {"label"}
          /\ owed' = IF Crowded(c) THEN owed \cup {"crowded"} ELSE owed
          /\ Answered(c, TRUE, TRUE) /\ UNCHANGED shippingFaults
       \/ /\ Fault /\ labels' = labels + 1
          /\ owed' = owed \cup {"lost"}
          /\ Answered(c, FALSE, FALSE) /\ UNCHANGED keys
       \/ /\ Fault /\ keys' = keys \cup {"label"}
          /\ owed' = owed \cup {"simulated"}
          /\ Answered(c, TRUE, TRUE) /\ UNCHANGED labels
       \/ /\ Answered(c, FALSE, FALSE)
          /\ UNCHANGED <<labels, keys, owed, shippingFaults>>
    /\ UNCHANGED <<paid, world, shipment, tracking, accounts>>

\* Seeded fault: the row is written whatever its version is by now.
StoreLabelAnyVersion(c) ==
    LET s == shipper[c] IN
    /\ At(c, "sent", "label")
    /\ IF s.ok
       THEN /\ shipment' = [shipment EXCEPT !.status = "label_purchased", !.label = s.label,
                                    !.cost = IF s.label THEN quote ELSE "zero",
                                    !.version = @ + 1]
            /\ owed' = IF shipment.status = "shipped" /\ ~s.shipped
                       THEN owed \cup {"unshipped"} ELSE owed
       ELSE UNCHANGED <<shipment, owed>>
    /\ Done(c)
    /\ UNCHANGED <<paid, world, labels, tracking, keys, raised, books, shippingFaults>>

\* A label over the ceiling has been bought all the same: it is not recorded,
\* and a task for a human is opened.  Otherwise the row is written if it has
\* not changed since it was loaded; a shadowed purchase has no label and costs 0.
StoreLabel(c) ==
    LET s == shipper[c] IN
    /\ At(c, "sent", "label")
    /\ \/ ~s.ok /\ UNCHANGED <<shipment, raised, owed>>
       \/ /\ s.ok /\ s.label /\ quote = "over"
          /\ Raise("label_cost_exceeded")
          /\ UNCHANGED <<shipment, owed>>
       \/ /\ s.ok /\ (s.label => quote # "over") /\ s.version = shipment.version
          /\ shipment' = [shipment EXCEPT !.status = "label_purchased", !.label = s.label,
                                  !.cost = IF s.label THEN quote ELSE "zero",
                                  !.version = @ + 1]
          /\ owed' = IF shipment.status = "shipped" /\ ~s.shipped
                     THEN owed \cup {"unshipped"} ELSE owed
          /\ UNCHANGED raised
       \/ /\ s.ok /\ (s.label => quote # "over") /\ s.version # shipment.version
          /\ owed' = owed \cup (IF s.label THEN {"conflict"} ELSE {})
          /\ UNCHANGED <<shipment, raised>>
    /\ Done(c)
    /\ UNCHANGED <<paid, world, labels, tracking, keys, books, shippingFaults>>

-----------------------------------------------------------------------------
(* Tracking *)

\* The tracking job sends the label's number, a confirmation the seller's.
LoadTracking(c) ==
    /\ shipper[c].phase = "idle" /\ shipment.status # "none"
    /\ \/ /\ shipment.label
          /\ shipper' = [shipper EXCEPT ![c] = [Idle EXCEPT !.phase = "loaded", !.op = "sync"]]
       \/ /\ shipment.version < MaxTaskVersion
          /\ shipper' = [shipper EXCEPT ![c] =
               [Idle EXCEPT !.phase = "loaded", !.op = "confirm", !.version = shipment.version]]
    /\ UNCHANGED <<paid, world, shipment, labels, tracking, keys, accounts, shippingFaults, owed>>

UpdateTracking(c) ==
    LET op == shipper[c].op IN
    /\ shipper[c].phase = "loaded" /\ op \in {"sync", "confirm"}
    /\ \/ /\ op \in keys \/ ~realWrites
          /\ Answered(c, TRUE, FALSE) /\ UNCHANGED <<tracking, keys>>
       \/ /\ op \notin keys /\ realWrites
          /\ tracking' = op /\ keys' = keys \cup {op} /\ Answered(c, TRUE, FALSE)
       \/ /\ op \notin keys /\ realWrites
          /\ Answered(c, FALSE, FALSE) /\ UNCHANGED <<tracking, keys>>
    /\ UNCHANGED <<paid, world, shipment, labels, accounts, shippingFaults, owed>>

EndTracking(c) ==
    /\ At(c, "sent", "sync") \/ (At(c, "sent", "confirm") /\ ~shipper[c].ok)
    /\ Done(c)
    /\ UNCHANGED <<paid, world, shipment, labels, tracking, keys, accounts, shippingFaults, owed>>

\* confirm_shipment; a task that changed meanwhile answers with a conflict.
ConfirmShipment(c) ==
    /\ At(c, "sent", "confirm") /\ shipper[c].ok
    /\ shipment' = IF shipper[c].version = shipment.version
               THEN [shipment EXCEPT !.status = "shipped", !.version = @ + 1] ELSE shipment
    /\ Done(c)
    /\ UNCHANGED <<paid, world, labels, tracking, keys, accounts, shippingFaults, owed>>

ShipperDies(c) ==
    /\ shipper[c].phase = "sent" /\ Fault
    /\ owed' = IF shipper[c].label THEN owed \cup {"lost"} ELSE owed
    /\ Done(c)
    /\ UNCHANGED <<paid, world, shipment, labels, tracking, keys, accounts>>

-----------------------------------------------------------------------------
(* Books *)

\* reconcile_order adds a record of what the rows say now.  The marketplace's
\* fees may be missing from the order, which is a discrepancy too.
Reconcile ==
    /\ \E feesMissing, final \in BOOLEAN :
         LET wrong == feesMissing \/ (shipment.label /\ shipment.cost \notin {"fair", "over"}) IN
         /\ books' = [status |-> IF wrong THEN "discrepancy" ELSE
                                 IF final THEN "final" ELSE "preliminary",
                      expense |-> shipment.cost \in {"fair", "over"}]
         /\ IF wrong THEN Raise("reconciliation_discrepancy") ELSE UNCHANGED raised
    /\ UNCHANGED <<paid, world, shipment, shipper, labels, tracking, keys, shippingFaults, owed>>

Next ==
    \/ SetMode \/ OrderPaid \/ CreateShippingTask \/ BlockPurchase \/ Reconcile
    \/ \E c \in Shippers :
         \/ LoadPurchase(c) \/ CheckPurchase(c) \/ Buy(c) \/ StoreLabel(c)
         \/ LoadTracking(c) \/ UpdateTracking(c) \/ EndTracking(c)
         \/ ConfirmShipment(c) \/ ShipperDies(c)

Spec == Init /\ [][Next]_vars

-----------------------------------------------------------------------------
(* Properties *)

\* The task, the books and the callers have their types.
TypeOK ==
    /\ parcel \in Parcel /\ shipment \in Task /\ quote \in Cost
    /\ {paid, realWrites} \subseteq BOOLEAN /\ labels \in Nat
    /\ shipper \in [Shippers -> [phase : {"idle", "loaded", "buying", "sent"},
                                 op : {"none", "label", "sync", "confirm"}, version : Nat,
                                 ok : BOOLEAN, label : BOOLEAN, shipped : BOOLEAN]]
    /\ tracking \in {"none", "sync", "confirm"} /\ keys \subseteq {"label", "sync", "confirm"}
    /\ raised \subseteq Raised /\ books \in Books
    /\ shippingFaults \in 0..MaxShippingFaults
    /\ owed \subseteq {"crowded", "lost", "simulated", "conflict", "unshipped"}

Purchasing == \E c \in Shippers : shipper[c].op = "label"

\* One label is bought for an order, unless the outcome of a purchase was lost
\* or two ran at once.  A label that was bought is in the task, or a human has
\* been told that it cost too much, unless its outcome was lost or the task
\* changed under the purchase.  The books have no expense for a label nobody
\* bought, unless the adapter made one up.  A purchase never takes back a shipment confirmed since it loaded
\* the task.
LabelsAccounted ==
    /\ labels > 1 => owed \cap {"crowded", "lost"} # {}
    /\ (labels > 0 /\ ~Purchasing /\ owed \cap {"lost", "conflict"} = {}) =>
         shipment.label \/ "label_cost_exceeded" \in raised
    /\ shipment.label \/ books.expense => labels > 0 \/ "simulated" \in owed
    /\ "unshipped" \notin owed
=============================================================================
