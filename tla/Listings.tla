------------------------------ MODULE Listings ------------------------------
(* The upkeep of a listing that is up: update_listing, run_price_automation,
   refresh_listing and relist_listing of MarketplaceService
   (src/goliath/marketplace/service.py), with requests to end it and the
   reservation and delisting of a sale under way beside them.

   Each of them loads the row, calls the gateway, and stores what the receipt
   says.  The call is one action with the outcomes of
   MarketplaceGateway.execute, which Gateway models. *)
EXTENDS Naturals

CONSTANTS Writers,           \* callers: jobs and requests
          MaxPrice,          \* bound: prices are 1..MaxPrice
          MaxStarted,        \* bound: operations begun
          MaxListingFaults   \* bound: outcomes lost, refusals, deaths, mode changes

VARIABLES listed,         \* RemoteListing rows: the listing, and its replacement
          shop,           \* the listings at the marketplace
          soldUp,         \* an InventoryReservation of the item is open
          toEnd,          \* listings the sale still has to end
          writer,         \* what each caller does
          executing,      \* the account's writes are executed; else shadowed
          succeeded,      \* keys with a succeeded attempt row
          confirmed,      \* keys whose succeeded attempt row is verified
          started,        \* operations begun so far
          listingFaults,  \* faults so far
          excuse          \* history: why the rows may differ from the shop

vars == <<listed, shop, soldUp, toEnd, writer, started, executing, succeeded,
          confirmed, listingFaults, excuse>>

Listing == {"old", "new"}
Price == 1..MaxPrice
RowStatus == {"none", "publishing", "active", "failed", "ended"}
ShopStatus == {"none", "live", "ended"}
Priced == {"update", "markdown"}
Operation == Priced \cup {"refresh", "end", "delist", "relist", "create", "none"}
Ending == {"end", "delist", "relist"}

Idle == [phase |-> "idle", op |-> "none", at |-> "old", price |-> 1,
         ok |-> FALSE, verified |-> FALSE]

Init ==
    /\ listed = [l \in Listing |-> [status |-> IF l = "old" THEN "active" ELSE "none",
                                    price |-> MaxPrice]]
    /\ shop = [l \in Listing |-> [status |-> IF l = "old" THEN "live" ELSE "none",
                                  price |-> MaxPrice]]
    /\ soldUp = FALSE /\ toEnd = {} /\ executing = TRUE
    /\ writer = [c \in Writers |-> Idle]
    /\ succeeded = {} /\ confirmed = {} /\ started = 0 /\ listingFaults = 0 /\ excuse = {}

At(c, phase) == writer[c].phase = phase
Go(c, phase) == writer' = [writer EXCEPT ![c].phase = phase]
Done(c) == writer' = [writer EXCEPT ![c] = Idle]
Begin(c, op, l, p) ==
    /\ At(c, "idle") /\ started < MaxStarted /\ started' = started + 1
    /\ writer' = [writer EXCEPT ![c] =
         [Idle EXCEPT !.phase = "loaded", !.op = op, !.at = l, !.price = p]]
Linked(l) == listed[l].status \in {"active", "ended"}
Fault == listingFaults < MaxListingFaults /\ listingFaults' = listingFaults + 1
Excused(why) == excuse' = excuse \cup why

rows == <<listed, shop, soldUp, toEnd>>
keys == <<succeeded, confirmed>>
rest == <<executing, keys, listingFaults, excuse>>

\* An operator changes the account's mode, between two calls of a relist too.
SetMode ==
    /\ executing' = ~executing
    /\ IF executing THEN Fault ELSE UNCHANGED listingFaults
    /\ UNCHANGED <<rows, writer, keys, excuse, started>>

-----------------------------------------------------------------------------
(* What each caller reads.  None of them looks at the row's status.  Of the
   replacement only its creation and its delisting are modelled. *)

\* update_listing; the item must not be reserved.
LoadUpdate(c) ==
    /\ ~soldUp
    /\ \E p \in Price : Begin(c, "update", "old", p)
    /\ UNCHANGED <<rows, rest>>

\* run_price_automation; evaluate_markdown gives a lower price (see Policies).
LoadMarkdown(c) ==
    /\ ~soldUp
    /\ \E p \in 1..(listed["old"].price - 1) : Begin(c, "markdown", "old", p)
    /\ UNCHANGED <<rows, rest>>

LoadRefresh(c) ==
    /\ Begin(c, "refresh", "old", 1)
    /\ UNCHANGED <<rows, rest>>

LoadEnd(c) ==
    /\ Begin(c, "end", "old", 1)
    /\ UNCHANGED <<rows, rest>>

\* A listing is relisted again while its replacement's row names no listing: its
\* relist_count is not raised, so the key of the replacement is the same.  Two
\* relists of it at once are not modelled.
LoadRelist(c) ==
    /\ ~soldUp /\ listed["new"].status \in {"none", "failed"}
    /\ \A o \in Writers : writer[o].op \notin {"relist", "create"}
    /\ Begin(c, "relist", "old", listed["old"].price)
    /\ UNCHANGED <<rows, rest>>

\* ReservationRepository.reserve: the item has no open reservation yet.
ReserveItem == ~soldUp /\ soldUp' = TRUE

\* _on_sale reserves the item and collects its active listings.
Reserve ==
    /\ ReserveItem
    /\ toEnd' = {l \in Listing : listed[l].status = "active"}
    /\ UNCHANGED <<listed, shop, writer, rest, started>>

LoadDelist(c) ==
    /\ \E l \in toEnd : Begin(c, "delist", l, 1) /\ toEnd' = toEnd \ {l}
    /\ UNCHANGED <<listed, shop, soldUp, rest>>

-----------------------------------------------------------------------------
(* The gateway *)

\* The idempotency key: an update has its fields in it, the other operations
\* have one key per listing, and every end has the same.
Key(c) ==
    LET w == writer[c] IN
    << IF w.op \in Ending THEN "end" ELSE w.op, w.at, IF w.op \in Priced THEN w.price ELSE 0 >>

Replayed(c) == Key(c) \in succeeded

\* What the write makes of the listing.  An ended listing may still be edited.
Applied(c) ==
    LET w == writer[c] IN
    CASE w.op \in Priced  -> [shop[w.at] EXCEPT !.price = w.price]
      [] w.op \in Ending  -> [shop[w.at] EXCEPT !.status = "ended"]
      [] w.op = "create"  -> [status |-> "live", price |-> w.price]
      [] w.op = "refresh" -> shop[w.at]
Apply(c) == shop' = [shop EXCEPT ![writer[c].at] = Applied(c)]

\* A replay or a shadowed write that the shop does not show.
Untold(c) == Applied(c) # shop[writer[c].at]

\* Another write of the same row was answered and has not been stored.
Overlaps(c) == \E o \in Writers \ {c} : At(o, "sent") /\ writer[o].at = writer[c].at

Answered(c, ok, verified) ==
    writer' = [writer EXCEPT ![c].phase = "sent", ![c].ok = ok, ![c].verified = verified]
Recorded(c) == succeeded' = succeeded \cup {Key(c)}
Confirmed(c) == confirmed' = confirmed \cup {Key(c)}

Replay(c) ==
    /\ Replayed(c) /\ Answered(c, TRUE, Key(c) \in confirmed)
    /\ Excused(IF Untold(c) THEN {"replayed"} ELSE {})
    /\ UNCHANGED <<shop, keys, listingFaults>>

\* A shadowed receipt is ok; it has no remote id, so a publish fails on it.
Shadowed(c) ==
    /\ ~Replayed(c) /\ ~executing /\ Answered(c, writer[c].op # "create", FALSE)
    /\ Excused({"shadowed"}) /\ UNCHANGED <<shop, keys, listingFaults>>

\* A write that is executed and verified.  That of a replacement never is: its
\* verification is given the key where it expects the request.
Verified(c) ==
    /\ ~Replayed(c) /\ executing /\ writer[c].op # "create"
    /\ Apply(c) /\ Recorded(c) /\ Confirmed(c) /\ Answered(c, TRUE, TRUE)
    /\ Excused(IF Overlaps(c) THEN {"overlapped"} ELSE {})
    /\ UNCHANGED listingFaults

\* One that is executed and not verified is recorded, and its receipt not ok.
Unverified(c) ==
    /\ ~Replayed(c) /\ executing
    /\ Apply(c) /\ Recorded(c) /\ Answered(c, FALSE, FALSE)
    /\ \/ writer[c].op = "create" /\ UNCHANGED <<excuse, listingFaults>>
       \/ writer[c].op # "create" /\ Fault /\ Excused({"lost"})
    /\ UNCHANGED confirmed

\* The marketplace applies it and its answer is lost.
Lost(c) ==
    /\ ~Replayed(c) /\ executing /\ Fault
    /\ Apply(c) /\ Answered(c, FALSE, FALSE)
    /\ Excused({"lost"}) /\ UNCHANGED keys

Refused(c) ==
    /\ ~Replayed(c) /\ executing /\ Fault /\ Answered(c, FALSE, FALSE)
    /\ Excused(IF writer[c].op = "delist" THEN {"refused"} ELSE {})
    /\ UNCHANGED <<shop, keys>>

\* The broker answers with its fake adapter (Simulate in Gateway): an end of a
\* listing it does not know succeeds, and a creation succeeds unverified.  An
\* update or a refresh of one fails, as Refused.
Simulated(c) ==
    /\ ~Replayed(c) /\ executing /\ Fault /\ Recorded(c)
    /\ \/ writer[c].op \in Ending /\ Answered(c, TRUE, TRUE) /\ Confirmed(c)
       \/ writer[c].op = "create" /\ Answered(c, FALSE, FALSE) /\ UNCHANGED confirmed
    /\ Excused({"simulated"}) /\ UNCHANGED shop

Write(c) ==
    /\ At(c, "loaded")
    /\ \/ Replay(c) \/ Shadowed(c) \/ Verified(c) \/ Unverified(c)
       \/ Lost(c) \/ Refused(c) \/ Simulated(c)
    /\ UNCHANGED <<listed, soldUp, toEnd, executing, started>>

-----------------------------------------------------------------------------
(* What each caller stores *)

\* RemoteListingRepository.set_status, of a row in whatever status it is.
SetStatus(l, status, price) ==
    listed' = [listed EXCEPT ![l] = [status |-> status, price |-> price]]

\* A price that was updated is stored, and the listing is active.
Store(c) ==
    LET w == writer[c] IN
    /\ At(c, "sent") /\ w.op \in Priced
    /\ IF w.ok
       THEN /\ SetStatus(w.at, "active", w.price)
            /\ Excused(IF listed[w.at].status = "ended" THEN {"revived"} ELSE {})
       ELSE UNCHANGED <<listed, excuse>>
    /\ Done(c)
    /\ UNCHANGED <<shop, soldUp, toEnd, executing, keys, listingFaults, started>>

\* A refreshed listing is active, its price what it was.
StoreRefresh(c) ==
    LET w == writer[c] IN
    /\ At(c, "sent") /\ w.op = "refresh"
    /\ IF w.ok
       THEN /\ SetStatus(w.at, "active", listed[w.at].price)
            /\ Excused(IF listed[w.at].status = "ended" THEN {"revived"} ELSE {})
       ELSE UNCHANGED <<listed, excuse>>
    /\ Done(c)
    /\ UNCHANGED <<shop, soldUp, toEnd, executing, keys, listingFaults, started>>

\* Seeded fault: relist_listing goes on after any end that is ok.
RelistAnyway(c) ==
    LET w == writer[c] IN
    /\ At(c, "sent") /\ w.op \in Ending
    /\ IF w.ok THEN SetStatus(w.at, "ended", listed[w.at].price) ELSE UNCHANGED listed
    /\ IF w.op = "relist" /\ w.ok THEN Go(c, "replacing") ELSE Done(c)
    /\ UNCHANGED <<shop, soldUp, toEnd, rest, started>>

\* _end_listing; relist_listing goes on when the end was verified as well.
StoreEnd(c) ==
    LET w == writer[c] IN
    /\ At(c, "sent") /\ w.op \in Ending
    /\ IF w.ok THEN SetStatus(w.at, "ended", listed[w.at].price) ELSE UNCHANGED listed
    /\ IF w.op = "relist" /\ w.ok /\ w.verified THEN Go(c, "replacing") ELSE Done(c)
    /\ UNCHANGED <<shop, soldUp, toEnd, rest, started>>

\* The replacement's row, with the price the old one had at the beginning.
CreateReplacement(c) ==
    /\ At(c, "replacing")
    /\ SetStatus("new", "publishing", writer[c].price)
    /\ writer' = [writer EXCEPT ![c].phase = "loaded", ![c].op = "create", ![c].at = "new"]
    /\ UNCHANGED <<shop, soldUp, toEnd, rest, started>>

\* The first receipt for a replacement is not ok: the row has failed and names no
\* listing.  A replay of its key is ok, and the row names the replacement then.
StoreReplacement(c) ==
    /\ At(c, "sent") /\ writer[c].op = "create"
    /\ SetStatus("new", IF writer[c].ok THEN "active" ELSE "failed", listed["new"].price)
    /\ Excused(IF writer[c].ok /\ soldUp THEN {"adopted"} ELSE {})
    /\ Done(c)
    /\ UNCHANGED <<shop, soldUp, toEnd, executing, keys, listingFaults, started>>

WriterDies(c) ==
    /\ ~At(c, "idle") /\ Fault
    /\ Excused(IF At(c, "sent") THEN {"lost"}
               ELSE IF writer[c].op = "delist" THEN {"refused"} ELSE {})
    /\ Done(c)
    /\ UNCHANGED <<rows, executing, keys, started>>

Next ==
    \/ SetMode \/ Reserve
    \/ \E c \in Writers :
         \/ LoadUpdate(c) \/ LoadMarkdown(c) \/ LoadRefresh(c) \/ LoadEnd(c)
         \/ LoadRelist(c) \/ LoadDelist(c) \/ Write(c)
         \/ Store(c) \/ StoreRefresh(c) \/ StoreEnd(c)
         \/ CreateReplacement(c) \/ StoreReplacement(c) \/ WriterDies(c)

Spec == Init /\ [][Next]_vars

-----------------------------------------------------------------------------
(* Properties *)

\* The rows, the shop and the callers have their types.
TypeOK ==
    /\ listed \in [Listing -> [status : RowStatus, price : Price]]
    /\ shop \in [Listing -> [status : ShopStatus, price : Price]]
    /\ soldUp \in BOOLEAN /\ executing \in BOOLEAN /\ toEnd \subseteq Listing
    /\ writer \in [Writers -> [phase : {"idle", "loaded", "sent", "replacing"},
                               op : Operation, at : Listing, price : Price,
                               ok : BOOLEAN, verified : BOOLEAN]]
    /\ started \in 0..MaxStarted /\ listingFaults \in 0..MaxListingFaults
    /\ excuse \subseteq {"replayed", "shadowed", "overlapped", "lost", "refused",
                         "simulated", "revived", "adopted"}

Storing(l) == \E c \in Writers : At(c, "sent") /\ writer[c].at = l

\* The price in the row is the shop's, unless a key was used again (back to an
\* earlier price), the write was shadowed or simulated, its outcome was lost, or
\* two writes overlapped.  A row that says ended is of a listing that is down,
\* unless the end was shadowed or simulated.  A listing that is down is not active
\* in its row, unless its end was lost, or a write of it was stored after the end.
\* A listing and its replacement are never both up, whatever was lost, refused or
\* shadowed, unless the end was simulated.  Once a sale has ended its listings, a
\* listing is up only if its end was refused, shadowed or simulated, or it is a
\* replacement that no row names, or that a relist made a row name after the sale.
ListingsAgree ==
    /\ \A l \in Listing :
         /\ (excuse \cap {"replayed", "shadowed", "simulated", "lost", "overlapped"} = {}
               /\ ~Storing(l) /\ Linked(l)) => listed[l].price = shop[l].price
         /\ (listed[l].status = "ended" /\ excuse \cap {"shadowed", "simulated"} = {}) =>
               shop[l].status = "ended"
         /\ (excuse \cap {"lost", "revived"} = {} /\ ~Storing(l)
               /\ shop[l].status = "ended") => listed[l].status = "ended"
    /\ "simulated" \notin excuse => \E l \in Listing : shop[l].status # "live"
    /\ (soldUp /\ toEnd = {} /\ excuse \cap {"refused", "shadowed", "simulated", "adopted"} = {}
          /\ \A c \in Writers : writer[c].op # "delist") =>
         \A l \in Listing : shop[l].status = "live" =>
            l = "new" /\ listed[l].status \in {"publishing", "failed"}
=============================================================================
