----------------------------- MODULE EbayListing -----------------------------
(* One item's listing on eBay, as EbayMarketplaceAdapter drives it
   (src/goliath/marketplace/ebay.py): an operation is a row of HTTP calls, each
   an action here, and the calls of several operations interleave.

   eBay itself is modelled from what the adapter asks of it.  A call that fails
   has had no effect (CallFails) or has had it and its answer is lost.  The
   requests are those that _validate_listing_request and update_listing let
   through (a refused one makes no call), and _resolve_offer_id, which only reads
   what never changes, is part of an operation's start. *)
EXTENDS Naturals, Sequences

CONSTANTS Clients,        \* operations that may run at once
          ListPrices,     \* prices asked for
          MaxRetries,     \* ebay_max_retries
          MaxRemoteOffers,\* bound: offers of the item
          MaxLostAnswers, \* bound: answers lost
          MaxOperations   \* bound: operations started

VARIABLES remoteOffer,    \* eBay: the item's offers, in the order of their creation
          fulfilled,      \* eBay: the order has the tracking number
          client,         \* the operation of each client and its next call
          lostAnswers,    \* answers lost so far
          operations,     \* operations started so far
          reported,       \* history: what ok results have said
          crossed         \* history: why eBay may say otherwise

vars == <<remoteOffer, fulfilled, client, lostAnswers, operations, reported, crossed>>

\* The states that _project_offer calls pending, active and ended.
OfferState == {"unpublished", "published", "withdrawn"}
RemoteOffer == [state : OfferState, price : ListPrices]

\* price: the one asked for, 0 when an update is of another field; read: the
\* offer's, as get_offer returned it.
Idle == [op |-> "none", call |-> "none", offer |-> 0, price |-> 0, read |-> 0, tries |-> 0]

Init ==
    /\ remoteOffer = <<>> /\ fulfilled = FALSE
    /\ client = [c \in Clients |-> Idle]
    /\ lostAnswers = 0 /\ operations = 0 /\ crossed = {}
    /\ reported = [live |-> {}, ended |-> {}, price |-> <<>>, tracked |-> FALSE]

At(c, call) == client[c].call = call
Calls(c, call) == client' = [client EXCEPT ![c].call = call]
Ends(c) == client' = [client EXCEPT ![c] = Idle]
Starts(c) == client[c] = Idle /\ operations < MaxOperations /\ operations' = operations + 1
AnswerLost == lostAnswers < MaxLostAnswers /\ lostAnswers' = lostAnswers + 1

\* Any call may fail with nothing done; the operation then ends with _failure.
\* An update whose read-back fails has been made all the same.
CallFails(c) ==
    /\ client[c].op # "none" /\ Ends(c)
    /\ crossed' = IF At(c, "readback") THEN crossed \cup {"lost"} ELSE crossed
    /\ UNCHANGED <<remoteOffer, fulfilled, lostAnswers, operations, reported>>

-----------------------------------------------------------------------------
(* create_listing *)

StartCreate(c) ==
    /\ Starts(c)
    /\ \E p \in ListPrices :
         client' = [client EXCEPT ![c] =
                      [Idle EXCEPT !.op = "create", !.call = "search", !.price = p]]
    /\ UNCHANGED <<remoteOffer, fulfilled, lostAnswers, reported, crossed>>

\* Seeded fault: the SKU is not looked up.
FindOfferNever(c) == Calls(c, "item")

\* _find_offer_by_sku: an offer of this SKU is the answer, in whatever state it
\* is; two are a conflict.
FindOffer(c) == IF remoteOffer = <<>> THEN Calls(c, "item") ELSE Ends(c)

Search(c) ==
    /\ At(c, "search") /\ FindOffer(c)
    /\ UNCHANGED <<remoteOffer, fulfilled, lostAnswers, operations, reported, crossed>>

\* The inventory item is put whole: putting it again changes nothing here.
PutInventoryItem(c) ==
    /\ At(c, "item") /\ Calls(c, "offer")
    /\ UNCHANGED <<remoteOffer, fulfilled, lostAnswers, operations, reported, crossed>>

\* Another create of the item has searched in vain.
Twin(c) == \E d \in Clients \ {c} : client[d].call \in {"item", "offer"}

\* Not repeated by the transport.  An answer without an identity is a lost one.
CreateOffer(c) ==
    LET new == Len(remoteOffer) + 1 IN
    /\ At(c, "offer") /\ new <= MaxRemoteOffers
    /\ remoteOffer' = Append(remoteOffer, [state |-> "unpublished", price |-> client[c].price])
    /\ reported' = [reported EXCEPT !.price = Append(@, 0)]
    /\ crossed' = IF Twin(c) THEN crossed \cup {"twin"} ELSE crossed
    /\ \/ /\ client' = [client EXCEPT ![c].call = "publish", ![c].offer = new]
          /\ UNCHANGED lostAnswers
       \/ AnswerLost /\ Ends(c)
    /\ UNCHANGED <<fulfilled, operations>>

PublishOffer(c) ==
    LET o == client[c].offer IN
    /\ At(c, "publish") /\ remoteOffer[o].state = "unpublished"
    /\ remoteOffer' = [remoteOffer EXCEPT ![o].state = "published"]
    /\ \/ Calls(c, "verify") /\ UNCHANGED lostAnswers
       \/ AnswerLost /\ Ends(c)
    /\ UNCHANGED <<fulfilled, operations, reported, crossed>>

\* The price (and the quantity) read back must be the one asked for.
VerifyCreated(c) ==
    LET o == client[c].offer
        ok == remoteOffer[o].price = client[c].price IN
    /\ At(c, "verify") /\ Ends(c)
    /\ reported' = IF ok THEN [reported EXCEPT !.live = @ \cup {o}, !.price[o] = client[c].price]
                   ELSE reported
    /\ UNCHANGED <<remoteOffer, fulfilled, lostAnswers, operations, crossed>>

-----------------------------------------------------------------------------
(* update_listing, update_price and update_quantity *)

StartUpdate(c) ==
    /\ Starts(c)
    /\ \E o \in DOMAIN remoteOffer, p \in ListPrices \cup {0} :
         client' = [client EXCEPT ![c] =
                      [Idle EXCEPT !.op = "update", !.call = "read", !.offer = o, !.price = p]]
    /\ UNCHANGED <<remoteOffer, fulfilled, lostAnswers, reported, crossed>>

GetOffer(c) ==
    /\ At(c, "read")
    /\ client' = [client EXCEPT ![c].read = remoteOffer[client[c].offer].price, ![c].call = "put"]
    /\ UNCHANGED <<remoteOffer, fulfilled, lostAnswers, operations, reported, crossed>>

\* The whole offer is written back: what was read, with the fields changed.
Updated(c) ==
    IF client[c].price > 0 THEN client[c].price ELSE client[c].read

UpdatesOffer(c, o) ==
    client[c].op = "update" /\ client[c].offer = o /\ client[c].call \in {"put", "readback"}

\* Repeated by the transport when its answer is lost, with the same body.
UpdateOffer(c) ==
    LET o == client[c].offer
        crowd == \E d \in Clients \ {c} : UpdatesOffer(d, o)
        why(lost) == crossed \cup (IF crowd THEN {"crowd"} ELSE {})
                             \cup (IF lost THEN {"lost"} ELSE {}) IN
    /\ At(c, "put")
    /\ remoteOffer' = [remoteOffer EXCEPT ![o].price = Updated(c)]
    /\ \/ Calls(c, "readback") /\ crossed' = why(FALSE) /\ UNCHANGED lostAnswers
       \/ /\ AnswerLost /\ client[c].tries < MaxRetries
          /\ client' = [client EXCEPT ![c].tries = @ + 1]
          /\ crossed' = why(TRUE)
       \/ /\ AnswerLost /\ client[c].tries = MaxRetries
          /\ Ends(c) /\ crossed' = why(TRUE)
    /\ UNCHANGED <<fulfilled, operations, reported>>

\* The offer read back is the result; it is not compared with what was asked.
ReadBack(c) ==
    LET in == client[c] IN
    /\ At(c, "readback") /\ Ends(c)
    /\ reported' = IF in.price > 0 THEN [reported EXCEPT !.price[in.offer] = in.price]
                   ELSE reported
    /\ UNCHANGED <<remoteOffer, fulfilled, lostAnswers, operations, crossed>>

-----------------------------------------------------------------------------
(* end_listing *)

StartEnd(c) ==
    /\ Starts(c)
    /\ \E o \in DOMAIN remoteOffer :
         client' = [client EXCEPT ![c] =
                      [Idle EXCEPT !.op = "end", !.call = "withdraw", !.offer = o]]
    /\ UNCHANGED <<remoteOffer, fulfilled, lostAnswers, reported, crossed>>

WithdrawOffer(c) ==
    LET o == client[c].offer IN
    /\ At(c, "withdraw") /\ remoteOffer[o].state # "unpublished"
    /\ remoteOffer' = [remoteOffer EXCEPT ![o].state = "withdrawn"]
    /\ \/ Calls(c, "confirm") /\ UNCHANGED lostAnswers
       \/ AnswerLost /\ Ends(c)
    /\ UNCHANGED <<fulfilled, operations, reported, crossed>>

ConfirmEnded(c) ==
    LET o == client[c].offer IN
    /\ At(c, "confirm") /\ Ends(c)
    /\ reported' = IF remoteOffer[o].state = "withdrawn"
                   THEN [reported EXCEPT !.ended = @ \cup {o}] ELSE reported
    /\ UNCHANGED <<remoteOffer, fulfilled, lostAnswers, operations, crossed>>

\* read_listing and reconcile_listing: the status is the offer's.
ReadListing(c) ==
    /\ client[c] = Idle
    /\ \E o \in DOMAIN remoteOffer :
         /\ remoteOffer[o].state = "withdrawn"
         /\ reported' = [reported EXCEPT !.ended = @ \cup {o}]
    /\ UNCHANGED <<remoteOffer, fulfilled, client, lostAnswers, operations, crossed>>

-----------------------------------------------------------------------------
(* update_tracking *)

\* The order's lines have been read.
StartTracking(c) ==
    /\ Starts(c)
    /\ client' = [client EXCEPT ![c] = [Idle EXCEPT !.op = "track", !.call = "fulfil"]]
    /\ UNCHANGED <<remoteOffer, fulfilled, lostAnswers, reported, crossed>>

CreateFulfillment(c) ==
    /\ At(c, "fulfil") /\ fulfilled' = TRUE
    /\ \/ Calls(c, "verifyTracking") /\ UNCHANGED lostAnswers
       \/ AnswerLost /\ Ends(c)
    /\ UNCHANGED <<remoteOffer, operations, reported, crossed>>

\* The tracking number must be among the order's fulfillments.
VerifyTracking(c) ==
    /\ At(c, "verifyTracking") /\ Ends(c)
    /\ reported' = [reported EXCEPT !.tracked = @ \/ fulfilled]
    /\ UNCHANGED <<remoteOffer, fulfilled, lostAnswers, operations, crossed>>

Next ==
    \E c \in Clients :
        \/ CallFails(c)
        \/ StartCreate(c) \/ Search(c) \/ PutInventoryItem(c) \/ CreateOffer(c)
        \/ PublishOffer(c) \/ VerifyCreated(c)
        \/ StartUpdate(c) \/ GetOffer(c) \/ UpdateOffer(c) \/ ReadBack(c)
        \/ StartEnd(c) \/ WithdrawOffer(c) \/ ConfirmEnded(c) \/ ReadListing(c)
        \/ StartTracking(c) \/ CreateFulfillment(c) \/ VerifyTracking(c)

Spec == Init /\ [][Next]_vars

-----------------------------------------------------------------------------
(* Properties *)

\* eBay's offers and the operations have their types.
TypeOK ==
    /\ remoteOffer \in Seq(RemoteOffer) /\ Len(remoteOffer) <= MaxRemoteOffers
    /\ \A c \in Clients :
         /\ client[c].op \in {"none", "create", "update", "end", "track"}
         /\ client[c].offer \in 0..Len(remoteOffer) /\ client[c].tries \in 0..MaxRetries
    /\ lostAnswers \in 0..MaxLostAnswers /\ operations \in 0..MaxOperations
    /\ crossed \subseteq {"twin", "crowd", "lost"}
    /\ Len(reported.price) = Len(remoteOffer)

\* An item has one offer, although no create is atomic and an answer may be
\* lost, unless two creates ran at once.  A listing reported as created by this
\* call went live; one reported as ended is down and stays down; a tracking
\* number reported is there.  The price is the one last reported, also after an
\* update of another field, unless two updates ran at once or an update's
\* answer was lost.
ReportsHold ==
    /\ Len(remoteOffer) > 1 => "twin" \in crossed
    /\ \A o \in reported.live : remoteOffer[o].state # "unpublished"
    /\ \A o \in reported.ended : remoteOffer[o].state = "withdrawn"
    /\ reported.tracked => fulfilled
    /\ \A o \in DOMAIN remoteOffer :
         (/\ crossed \cap {"crowd", "lost"} = {}
          /\ ~\E c \in Clients : UpdatesOffer(c, o))
         => reported.price[o] \in {0, remoteOffer[o].price}
=============================================================================
