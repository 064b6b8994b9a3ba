------------------------------- MODULE Sales --------------------------------
(* Publishing one item on several marketplace accounts, detecting its sale
   and taking it down everywhere: publish_item, sync_orders, _process_sales,
   _on_sale, _end_listing, read_listing and refresh_listing of
   src/goliath/marketplace/service.py, run by publish requests and by the
   scheduled workflows of src/goliath/marketplace/worker.py.

   Every action is one committed transaction, or one call of the gateway: the
   marketplace changes and the receipt is returned. The outcomes of a gateway
   call are those the module Gateway has: ok after a verified effect, a
   replay, a shadowed write, an unverified write (with its exception task), a
   failure that may hide an effect, a refusal. An end that the adapter of an
   account in simulation takes (Simulate in Gateway) is one of the shadowed
   ones; a publish never meets that adapter here.

   An item has one remote listing per account, because the idempotency key of
   a publish is made of the item and the account, and its quantity is one. *)
EXTENDS FiniteSets, Naturals, Sequences, SequencesExt

CONSTANTS Accounts,     \* marketplace accounts
          Publishers,   \* runs of publish_item, one each
          Detectors,    \* processes that sync orders and handle sales
          Orders,       \* orders buyers may place
          Limits        \* bounds: how many publish runs and how many detectors
                        \* overlap, and how many deaths, listing refreshes,
                        \* expiries and cooldowns there are

ASSUME LimitsAssumption ==
    Limits \subseteq [publishing : Nat, handling : Nat, events : Nat]

VARIABLES
    item,       \* InventoryItem.status
    reserved,   \* an InventoryReservation of the item is not released
    blocked,    \* the item's circuit breaker is open
    excepted,   \* a duplicate_sale_risk task has been opened
    row,        \* RemoteListing: the row each publish run made for an account
    remote,     \* the listing at the marketplace (external)
    saved,      \* the publish is recorded as succeeded (OperationAttempt)
    order,      \* MarketplaceOrder, and the order at the marketplace
    pub, det,   \* the publish runs and the detectors
    touch,      \* a refresh or a reconciliation of a listing under way
    gap,        \* history: why a listing may be live and not known as such
    unseen,     \* history: accounts a publish was under way for when a sale began
    events,     \* how many of the bounded events there were
    limits      \* the bounds of this behaviour, a member of Limits

budget == <<events, limits>>
tables == <<item, reserved, blocked, excepted>>
market == <<remote, saved, gap>>
vars == <<tables, row, market, order, pub, det, touch, unseen, budget>>

ItemStatus == {"ready", "listed", "reserved", "sold"}

\* A row has a remote id from its first publish result on.
Linked == {"active", "ended"}
RowStatus == {"none", "publishing", "failed"} \cup Linked

\* What a listing that is live but not tracked owes it to.
Gap == {"unconfirmed", "shadowed"}

Payment == {"none", "pending", "paid"}

NoAccount == "none"
ASSUME AccountsAssumption == NoAccount \notin Accounts

Listing == Publishers \X Accounts
NoListing == <<NoAccount, NoAccount>>

IdlePub == [phase |-> "idle", left |-> {}, at |-> NoAccount, ok |-> FALSE, any |-> FALSE]
DonePub == [IdlePub EXCEPT !.phase = "done"]
IdleDet == [phase |-> "idle", queue |-> {}, seen |-> [o \in Orders |-> "none"],
            todo |-> {}, failed |-> <<>>, next |-> 1,
            at |-> NoListing, ok |-> FALSE]
IdleTouch == [at |-> NoListing, to |-> "none"]

Init ==
    /\ item = "ready" /\ reserved = FALSE /\ blocked = FALSE /\ excepted = FALSE
    /\ row = [p \in Publishers |-> [a \in Accounts |-> "none"]]
    /\ remote = [a \in Accounts |-> "none"]
    /\ saved = [a \in Accounts |-> FALSE]
    /\ gap = [a \in Accounts |-> {}]
    /\ order = [o \in Orders |-> [account |-> NoAccount, payment |-> "none",
                                  stored |-> "none", tied |-> FALSE]]
    /\ pub = [p \in Publishers |-> IdlePub]
    /\ det = [d \in Detectors |-> IdleDet]
    /\ touch = IdleTouch
    /\ unseen = {} /\ events = 0 /\ limits \in Limits

TypeOK ==
    /\ item \in ItemStatus
    /\ {reserved, blocked, excepted} \subseteq BOOLEAN
    /\ row \in [Publishers -> [Accounts -> RowStatus]]
    /\ remote \in [Accounts -> {"none", "live", "ended", "sold"}]
    /\ saved \in [Accounts -> BOOLEAN]
    /\ gap \in [Accounts -> SUBSET Gap]
    /\ order \in [Orders -> [account : Accounts \cup {NoAccount}, payment : Payment,
                             stored : Payment, tied : BOOLEAN]]
    /\ pub \in [Publishers ->
         [phase : {"idle", "accounts", "allowed", "created", "answered", "done"},
          left : SUBSET Accounts, at : Accounts \cup {NoAccount}, ok : BOOLEAN, any : BOOLEAN]]
    /\ \A d \in Detectors :
          /\ det[d].phase \in {"idle", "orders", "stored", "ending", "ended",
                               "retrying", "retried"}
          /\ det[d].queue \subseteq Orders
          /\ det[d].seen \in [Orders -> Payment]
          /\ det[d].todo \cup ToSet(det[d].failed) \subseteq Listing
          /\ det[d].at \in Listing \cup {NoListing}
          /\ det[d].ok \in BOOLEAN
    /\ touch \in [at : Listing \cup {NoListing}, to : RowStatus]
    /\ unseen \subseteq Accounts
    /\ limits \in Limits /\ events \in 0 .. limits.events

StatusOf(l) == row[l[1]][l[2]]
SetRow(l, status) == row' = [row EXCEPT ![l[1]][l[2]] = status]
PubAt(p, phase) == pub[p].phase = phase
DetAt(d, phase) == det[d].phase = phase

\* The detector d may begin a job.
Free(d) ==
    /\ DetAt(d, "idle")
    /\ Cardinality({e \in Detectors : ~DetAt(e, "idle")}) < limits.handling

Event == events < limits.events /\ events' = events + 1 /\ UNCHANGED limits

-----------------------------------------------------------------------------
(* Publishing: publish_item visits the accounts one after the other *)

Publish(p) ==
    /\ PubAt(p, "idle")
    /\ Cardinality({q \in Publishers : pub[q].phase \notin {"idle", "done"}}) < limits.publishing
    /\ pub' = [pub EXCEPT ![p].phase = "accounts", ![p].left = Accounts]
    /\ UNCHANGED <<tables, row, market, order, det, touch, unseen, budget>>

\* RemoteListingRepository.find_active_on_account
ActiveOn(a) == \E p \in Publishers : row[p][a] \in {"publishing", "active"}

\* Seeded fault: the item is the one publish_item loaded when it began.
EligibleAtStart(a) == ~ActiveOn(a) /\ ~blocked

\* _publishing_eligibility, of what other requests can change meanwhile.
Eligible(a) == item = "ready" /\ ~ActiveOn(a) /\ ~reserved /\ ~blocked

CheckEligibility(p, a) ==
    /\ PubAt(p, "accounts") /\ a \in pub[p].left
    /\ pub' = [pub EXCEPT ![p].left = @ \ {a},
                          ![p].phase = IF Eligible(a) THEN "allowed" ELSE "accounts",
                          ![p].at = IF Eligible(a) THEN a ELSE NoAccount]
    /\ UNCHANGED <<tables, row, market, order, det, touch, unseen, budget>>

CreateRow(p) ==
    /\ PubAt(p, "allowed")
    /\ SetRow(<<p, pub[p].at>>, "publishing")
    /\ pub' = [pub EXCEPT ![p].phase = "created"]
    /\ UNCHANGED <<tables, market, order, det, touch, unseen, budget>>

Answer(p, ok) == pub' = [pub EXCEPT ![p].phase = "answered", ![p].ok = ok]

\* The listing goes up, unless one with its key is there (create_listing).
GoesUp(a) == remote' = [remote EXCEPT ![a] = IF @ = "none" THEN "live" ELSE @]

\* The gateway's create_listing call, verified by _verify_listing_active. A
\* refused or shadowed one has no remote id and counts as a failure.
SendPublish(p, outcome) ==
    /\ PubAt(p, "created")
    /\ LET a == pub[p].at IN
       \/ /\ saved[a] /\ outcome = "replayed"
          /\ Answer(p, TRUE) /\ UNCHANGED market
       \/ /\ ~saved[a] /\ outcome = "verified"
          /\ GoesUp(a) /\ remote'[a] = "live"
          /\ saved' = [saved EXCEPT ![a] = TRUE]
          /\ Answer(p, TRUE) /\ UNCHANGED gap
       \/ /\ ~saved[a] /\ outcome = "unverified"
          /\ GoesUp(a)
          /\ saved' = [saved EXCEPT ![a] = TRUE]
          /\ gap' = [gap EXCEPT ![a] = @ \cup {"unconfirmed"}]
          /\ Answer(p, FALSE)
       \/ /\ ~saved[a] /\ outcome = "hidden"
          /\ GoesUp(a)
          /\ gap' = [gap EXCEPT ![a] = @ \cup {"unconfirmed"}]
          /\ Answer(p, FALSE) /\ UNCHANGED saved
       \/ /\ outcome = "refused"
          /\ Answer(p, FALSE) /\ UNCHANGED market
    /\ UNCHANGED <<tables, row, order, det, touch, unseen, budget>>

\* Another row of the account has the remote id already: apply_publish_result
\* raises, and so does publish_item (remote_listing_identity is unique).
TakenIdentity(p, a) == \E q \in Publishers \ {p} : row[q][a] \in Linked

\* The run goes on to the next account.
Visiting(p) == [pub[p] EXCEPT !.phase = "accounts", !.at = NoAccount, !.ok = FALSE]

ApplyPublish(p) ==
    /\ PubAt(p, "answered")
    /\ LET a == pub[p].at IN
       \/ /\ pub[p].ok /\ ~TakenIdentity(p, a)
          /\ SetRow(<<p, a>>, "active")
          /\ pub' = [pub EXCEPT ![p] = [Visiting(p) EXCEPT !.any = TRUE]]
       \/ /\ pub[p].ok /\ TakenIdentity(p, a)
          /\ pub' = [pub EXCEPT ![p] = DonePub]
          /\ UNCHANGED row
       \/ /\ ~pub[p].ok
          /\ SetRow(<<p, a>>, "failed")
          /\ pub' = [pub EXCEPT ![p] = Visiting(p)]
    /\ UNCHANGED <<tables, market, order, det, touch, unseen, budget>>

\* Seeded fault: the status of a remote listing is given to the item.
FinishAsActive(p) ==
    /\ PubAt(p, "accounts") /\ pub[p].left = {}
    /\ item' = IF pub[p].any THEN "active" ELSE item
    /\ pub' = [pub EXCEPT ![p].phase = "done"]
    /\ UNCHANGED <<reserved, blocked, excepted, row, market, order, det, touch, unseen, budget>>

\* The last transaction does not look at what became of the item meanwhile.
FinishPublish(p) ==
    /\ PubAt(p, "accounts") /\ pub[p].left = {}
    /\ item' = IF pub[p].any THEN "listed" ELSE item
    /\ pub' = [pub EXCEPT ![p] = DonePub]
    /\ UNCHANGED <<reserved, blocked, excepted, row, market, order, det, touch, unseen, budget>>

\* Seeded fault: a handler marks the row of a publish that raised as failed.
PublisherFailsRow(p) ==
    /\ pub[p].phase \notin {"idle", "done"}
    /\ Event
    /\ pub' = [pub EXCEPT ![p] = DonePub]
    /\ IF pub[p].phase \in {"created", "answered"}
       THEN SetRow(<<p, pub[p].at>>, "failed") ELSE UNCHANGED row
    /\ UNCHANGED <<tables, market, order, det, touch, unseen>>

\* The process dies, or a statement raises.
PublisherDies(p) ==
    /\ pub[p].phase \notin {"idle", "done"}
    /\ Event
    /\ pub' = [pub EXCEPT ![p] = DonePub]
    /\ UNCHANGED <<tables, row, market, order, det, touch, unseen>>

-----------------------------------------------------------------------------
(* Buyers, and what time and people do (external) *)

Buy(o, a, payment) ==
    /\ remote[a] = "live" /\ order[o].payment = "none"
    /\ remote' = [remote EXCEPT ![a] = "sold"]
    /\ order' = [order EXCEPT ![o].account = a, ![o].payment = payment]
    /\ UNCHANGED <<tables, row, saved, gap, pub, det, touch, unseen, budget>>

Pay(o) ==
    /\ order[o].payment = "pending"
    /\ order' = [order EXCEPT ![o].payment = "paid"]
    /\ UNCHANGED <<tables, row, market, pub, det, touch, unseen, budget>>

\* _run_expired_reservation_release: the item's status is left alone.
ReleaseReservation ==
    /\ Event
    /\ reserved
    /\ reserved' = FALSE
    /\ UNCHANGED <<item, blocked, excepted, row, market, order, pub, det, touch, unseen>>

\* The cooldown of the item's breaker is over and a check flips it.
BreakerCools ==
    /\ Event
    /\ blocked
    /\ blocked' = FALSE
    /\ UNCHANGED <<item, reserved, excepted, row, market, order, pub, det, touch, unseen>>

-----------------------------------------------------------------------------
(* read_listing and refresh_listing of the scheduled workflows *)

\* The answer of the marketplace, or the status a successful refresh gives.
TouchListing(l, to) ==
    /\ Event
    /\ touch = IdleTouch
    /\ \/ StatusOf(l) \in Linked /\ to = (IF remote[l[2]] = "live" THEN "active" ELSE "ended")
       \/ StatusOf(l) = "active" /\ to = "active"
    /\ touch' = [at |-> l, to |-> to]
    /\ UNCHANGED <<tables, row, market, order, pub, det, unseen>>

\* The row is written in a later transaction, whatever it says by then.
StoreTouch ==
    /\ touch # IdleTouch
    /\ SetRow(touch.at, touch.to)
    /\ touch' = IdleTouch
    /\ UNCHANGED <<tables, market, order, pub, det, unseen, budget>>

-----------------------------------------------------------------------------
(* Detecting sales *)

OrdersOf(a) == {o \in Orders : order[o].account = a}

\* sync_orders: the orders the marketplace reports now.
SyncOrders(d, a) ==
    /\ Free(d) /\ OrdersOf(a) # {}
    /\ det' = [det EXCEPT ![d].phase = "orders", ![d].queue = OrdersOf(a),
                          ![d].seen = [o \in Orders |-> order[o].payment]]
    /\ UNCHANGED <<tables, row, market, order, pub, touch, unseen, budget>>

\* Seeded fault: an order whose item is reserved has been handled.
ProcessUnreserved(d, a) ==
    LET paid == {o \in OrdersOf(a) : order[o].stored = "paid"} IN
    /\ Free(d) /\ paid # {} /\ ~reserved
    /\ det' = [det EXCEPT ![d].phase = "orders", ![d].queue = paid,
                          ![d].seen = [o \in Orders |-> "none"]]
    /\ UNCHANGED <<tables, row, market, order, pub, touch, unseen, budget>>

\* _process_sales: the paid orders of an account, whose sale is handled (again).
ProcessSales(d, a) ==
    LET paid == {o \in OrdersOf(a) : order[o].stored = "paid"} IN
    /\ Free(d) /\ paid # {}
    /\ det' = [det EXCEPT ![d].phase = "orders", ![d].queue = paid,
                          ![d].seen = [o \in Orders |-> "none"]]
    /\ UNCHANGED <<tables, row, market, order, pub, touch, unseen, budget>>

\* What follows the handling of an order.
Rest(d) == IF det[d].queue = {} THEN IdleDet ELSE [IdleDet EXCEPT
              !.phase = "orders", !.queue = det[d].queue, !.seen = det[d].seen]

\* _upsert_order finds the item through the listing's row, if that is linked.
FindsItem(a) == \E p \in Publishers : row[p][a] \in Linked

\* An order of the answer is stored. Only a new paid one of a known item is
\* handled at once.
UpsertOrder(d, o) ==
    LET seen == det[d].seen[o]
        old == order[o].stored
        tied == IF old = seen THEN order[o].tied ELSE FindsItem(order[o].account)
        sale == old = "none" /\ seen = "paid" /\ tied
        queue == det[d].queue \ {o}
    IN  /\ DetAt(d, "orders") /\ o \in det[d].queue /\ seen # "none"
        /\ order' = [order EXCEPT ![o].stored = seen, ![o].tied = tied]
        /\ det' = [det EXCEPT ![d].queue = queue,
                              ![d].phase = IF sale THEN "stored"
                                           ELSE IF queue = {} THEN "idle" ELSE "orders",
                              ![d].seen[o] = "none"]
        /\ UNCHANGED <<tables, row, market, pub, touch, unseen, budget>>

\* _process_sales reads the item of the order and hands it to _on_sale.
TakeOrder(d, o) ==
    LET queue == det[d].queue \ {o} IN
    /\ DetAt(d, "orders") /\ o \in det[d].queue /\ det[d].seen[o] = "none"
    /\ det' = [det EXCEPT ![d].queue = queue,
                          ![d].phase = IF order[o].tied THEN "stored"
                                       ELSE IF queue = {} THEN "idle" ELSE "orders"]
    /\ UNCHANGED <<tables, row, market, order, pub, touch, unseen, budget>>

\* RemoteListingRepository.list_active_for_item
ActiveListings == {l \in Listing : StatusOf(l) = "active"}

\* A publish of these accounts is under way, or died with its row publishing.
UnderWay == ({pub[p].at : p \in Publishers} \ {NoAccount})
            \cup {a \in Accounts : \E p \in Publishers : row[p][a] = "publishing"}

\* The first transaction of _on_sale.
Reserve(d) ==
    /\ DetAt(d, "stored")
    /\ reserved' = TRUE
    /\ item' = IF item = "sold" THEN "sold" ELSE "reserved"
    /\ unseen' = unseen \cup UnderWay
    /\ det' = [det EXCEPT ![d].phase = "ending", ![d].todo = ActiveListings]
    /\ UNCHANGED <<blocked, excepted, row, market, order, pub, touch, budget>>

\* The gateway's end_listing call for the listing l, verified by _verify_ended.
\* A shadowed one is ok and ends nothing.
EndRemote(l, outcome, ok) ==
    /\ ok = (outcome \in {"verified", "shadowed"})
    /\ remote' = IF outcome \in {"verified", "hidden"} /\ remote[l[2]] = "live"
                 THEN [remote EXCEPT ![l[2]] = "ended"] ELSE remote
    /\ gap' = IF outcome = "shadowed" THEN [gap EXCEPT ![l[2]] = @ \cup {"shadowed"}] ELSE gap
    /\ UNCHANGED saved

\* _end_listing for each listing the first transaction found.
EndListing(d, l, outcome, ok) ==
    /\ DetAt(d, "ending") /\ l \in det[d].todo
    /\ EndRemote(l, outcome, ok)
    /\ det' = [det EXCEPT ![d].phase = "ended", ![d].at = l, ![d].ok = ok, ![d].todo = @ \ {l}]
    /\ UNCHANGED <<tables, row, order, pub, touch, unseen, budget>>

\* Seeded fault: the row is ended whatever the receipt says.
StoreEndedAnyway(d) ==
    /\ DetAt(d, "ended")
    /\ SetRow(det[d].at, "ended")
    /\ det' = [det EXCEPT ![d].phase = "ending", ![d].at = NoListing, ![d].ok = FALSE,
                          ![d].failed = IF det[d].ok THEN @ ELSE Append(@, det[d].at)]
    /\ UNCHANGED <<tables, market, order, pub, touch, unseen, budget>>

StoreEnded(d) ==
    /\ DetAt(d, "ended")
    /\ IF det[d].ok THEN SetRow(det[d].at, "ended") ELSE UNCHANGED row
    /\ det' = [det EXCEPT ![d].phase = "ending", ![d].at = NoListing, ![d].ok = FALSE,
                          ![d].failed = IF det[d].ok THEN @ ELSE Append(@, det[d].at)]
    /\ UNCHANGED <<tables, market, order, pub, touch, unseen, budget>>

\* "one retry": the loop runs over the list it removes from, so the listing
\* after one that succeeds is passed over.
Retry(d, outcome, ok) ==
    /\ \/ DetAt(d, "ending") /\ det[d].todo = {}
       \/ DetAt(d, "retrying")
    /\ det[d].next <= Len(det[d].failed)
    /\ LET l == det[d].failed[det[d].next] IN
       /\ EndRemote(l, outcome, ok)
       /\ det' = [det EXCEPT ![d].phase = "retried", ![d].at = l, ![d].ok = ok]
    /\ UNCHANGED <<tables, row, order, pub, touch, unseen, budget>>

StillFailed(d) ==
    IF det[d].ok THEN RemoveAt(det[d].failed, det[d].next) ELSE det[d].failed

StoreRetried(d) ==
    /\ DetAt(d, "retried")
    /\ IF det[d].ok THEN SetRow(det[d].at, "ended") ELSE UNCHANGED row
    /\ det' = [det EXCEPT ![d].phase = "retrying", ![d].at = NoListing, ![d].ok = FALSE,
                          ![d].failed = StillFailed(d), ![d].next = @ + 1]
    /\ UNCHANGED <<tables, market, order, pub, touch, unseen, budget>>

\* All listings have been tried.
Tried(d) ==
    /\ \/ DetAt(d, "ending") /\ det[d].todo = {}
       \/ DetAt(d, "retrying")
    /\ det[d].next > Len(det[d].failed)

\* The last transaction, when a listing could not be ended or it took too long.
RaiseRisk(d, slow) ==
    /\ Tried(d) /\ (det[d].failed # <<>> \/ slow)
    /\ excepted' = TRUE /\ blocked' = TRUE
    /\ det' = [det EXCEPT ![d] = Rest(d)]
    /\ UNCHANGED <<item, reserved, row, market, order, pub, touch, unseen, budget>>

\* The last transaction, when every listing has been ended in time.
SoldOut(d) ==
    /\ Tried(d) /\ det[d].failed = <<>>
    /\ item' = "sold"
    /\ det' = [det EXCEPT ![d] = Rest(d)]
    /\ UNCHANGED <<reserved, blocked, excepted, row, market, order, pub, touch, unseen, budget>>

\* The process dies, or a version conflict ends the job.
DetectorDies(d) ==
    /\ ~DetAt(d, "idle")
    /\ Event
    /\ det' = [det EXCEPT ![d] = IdleDet]
    /\ UNCHANGED <<tables, row, market, order, pub, touch, unseen>>

-----------------------------------------------------------------------------
PublishOutcome == {"verified", "unverified", "hidden", "replayed", "refused"}
EndOutcome == {"verified", "shadowed", "hidden", "refused"}

Publishing(p) ==
    \/ \E a \in Accounts : CheckEligibility(p, a)
    \/ CreateRow(p) \/ ApplyPublish(p) \/ FinishPublish(p)
    \/ \E outcome \in PublishOutcome : SendPublish(p, outcome)

OnSale(d) ==
    \/ Reserve(d) \/ StoreEnded(d) \/ StoreRetried(d) \/ SoldOut(d)
    \/ \E outcome \in EndOutcome, ok \in BOOLEAN :
          Retry(d, outcome, ok) \/ \E l \in Listing : EndListing(d, l, outcome, ok)
    \/ \E slow \in BOOLEAN : RaiseRisk(d, slow)

Detecting(d) == OnSale(d) \/ \E o \in Orders : UpsertOrder(d, o) \/ TakeOrder(d, o)

Next ==
    \/ \E p \in Publishers : Publish(p) \/ Publishing(p) \/ PublisherDies(p)
    \/ \E o \in Orders : Pay(o) \/ \E a \in Accounts : Buy(o, a, "paid") \/ Buy(o, a, "pending")
    \/ ReleaseReservation \/ BreakerCools \/ StoreTouch
    \/ \E l \in Listing, to \in Linked : TouchListing(l, to)
    \/ \E d \in Detectors : Detecting(d) \/ DetectorDies(d)
    \/ \E d \in Detectors, a \in Accounts : SyncOrders(d, a) \/ ProcessSales(d, a)

Spec == Init /\ [][Next]_vars

\* Jobs that run go on, and the scheduler keeps starting both workflows for
\* every account.
Fairness ==
    /\ \A p \in Publishers : WF_vars(Publishing(p))
    /\ \A d \in Detectors : WF_vars(Detecting(d))
    /\ \A a \in Accounts :
          /\ SF_vars(\E d \in Detectors : SyncOrders(d, a))
          /\ SF_vars(\E d \in Detectors : ProcessSales(d, a))

FairSpec == Spec /\ Fairness

-----------------------------------------------------------------------------
(* Properties *)

\* An item that is marked sold can still be bought only where a publish was
\* under way when its sale was detected, or where the gateway left the state
\* of the listing open (_on_sale: retries, concurrent handlings of the same
\* order, refreshes, deaths and restarts change nothing about it).
SoldIsOffMarket ==
    item = "sold" => \A a \in Accounts :
        remote[a] = "live" => a \in unseen \/ gap[a] # {}

\* A row that says ended is of a listing buyers cannot buy any more, through
\* every overlap of sales, refreshes and reconciliations of that row.
EndedIsDown ==
    \A l \in Listing : StatusOf(l) = "ended" =>
        remote[l[2]] # "live" \/ "shadowed" \in gap[l[2]]

\* A live listing has a row that is active or being published, so that a sale
\* or a reconciliation can find it, or the gateway left its state open.
LiveIsKnown ==
    \A a \in Accounts : remote[a] = "live" => ActiveOn(a) \/ gap[a] # {}

\* A publish run that died left this account's row publishing.
Abandoned(a) == \E p \in Publishers : row[p][a] = "publishing" /\ PubAt(p, "done")

\* A paid order takes the item off every account or opens a duplicate-sale
\* task, through deaths, blocked writes and overlapping handlings. Left over
\* are listings whose state the gateway left open or whose publish run died,
\* and an order stored before its listing's row had the remote id.
SaleSettles ==
    \A o \in Orders : order[o].payment = "paid" ~>
        \/ excepted
        \/ order[o].stored = "paid" /\ ~order[o].tied
        \/ \A a \in Accounts : remote[a] = "live" => gap[a] # {} \/ Abandoned(a)

\* What _on_sale says of a paid order: the other listings are delisted, every
\* one the gateway had a definite answer about, or there is a task.
SaleDelists ==
    \A o \in Orders : order[o].payment = "paid" ~>
        excepted \/ \A a \in Accounts : remote[a] = "live" => gap[a] # {}
=============================================================================
