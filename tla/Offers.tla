------------------------------- MODULE Offers -------------------------------
(* One buyer's offer on a listing: sync_offers and handle_offer of
   MarketplaceService (src/goliath/marketplace/service.py).  What the policy
   decides is given here; Policies computes it.  The call through the gateway
   is one action with the outcomes of MarketplaceGateway.execute: Gateway
   models how it gets there. *)
EXTENDS Naturals

CONSTANTS Handlers,        \* callers of handle_offer: jobs and requests
          Amounts,         \* amounts of a counter offer
          MaxTerms,        \* bound: changes of the policy's decision or the mode
          MaxOfferFaults   \* bound: answers lost or simulated, and handlers that died

VARIABLES terms,       \* what evaluate_offer makes of the offer, as things stand
          changes,     \* changes of terms and live
          live,        \* the account's writes are executed; else shadowed
          offer,       \* the MarketplaceOffer row: [status, amount]
          answered,    \* marketplace: the answer it has, as [status, amount]
          handler,     \* what each handler does
          saved,       \* operations with a succeeded attempt row for this offer
          offerFaults, \* answers lost and handlers dead so far
          astray       \* history: why the row may differ from the marketplace

vars == <<terms, changes, live, offer, answered, handler, saved, offerFaults, astray>>

Plain(status) == [status |-> status, amount |-> "none"]
Counters == {[status |-> "countered", amount |-> a] : a \in Amounts}
Answer == {Plain("accepted"), Plain("declined")} \cup Counters
Decision == Answer \cup {Plain("escalate"), Plain("defer")}
Row == Answer \cup {Plain("pending"), Plain("escalated"), Plain("none")}

\* requested_action and requested_counter_amount of a request; a job has none.
Requested == Answer \cup {Plain("none")}

Idle == [phase |-> "idle", decision |-> Plain("defer"), requested |-> Plain("none"),
         ok |-> FALSE]

Init ==
    /\ terms = Plain("defer") /\ changes = 0 /\ live = TRUE
    /\ offer = Plain("none") /\ answered = Plain("none") /\ astray = {}
    /\ handler = [c \in Handlers |-> Idle]
    /\ saved = {} /\ offerFaults = 0

Done(c) == handler' = [handler EXCEPT ![c] = Idle]
Fault == offerFaults < MaxOfferFaults /\ offerFaults' = offerFaults + 1

\* The price, the cost, a reservation, a rule or the mode changes.
TermsChange ==
    /\ offer.status # "none" /\ changes < MaxTerms /\ changes' = changes + 1
    /\ \/ terms' \in Decision \ {terms} /\ UNCHANGED live
       \/ live' = ~live /\ UNCHANGED terms
    /\ UNCHANGED <<offer, answered, handler, saved, offerFaults, astray>>

\* sync_offers adds the offer; an offer it knows it leaves as it is.
SyncOffers ==
    /\ offer.status = "none" /\ offer' = Plain("pending")
    /\ terms' \in Decision
    /\ UNCHANGED <<changes, live, answered, handler, saved, offerFaults, astray>>

\* handle_offer loads and evaluates the offer, whatever its status: only the
\* job's list of offers is of pending ones, and it is read before.
Evaluate(c) ==
    /\ handler[c].phase = "idle" /\ offer.status # "none"
    /\ \E requested \in Requested :
         handler' = [handler EXCEPT ![c] =
           [phase |-> "evaluated", decision |-> terms, requested |-> requested, ok |-> FALSE]]
    /\ UNCHANGED <<terms, changes, live, offer, answered, saved, offerFaults, astray>>

\* The caller asked for another action than the policy's.
Disagrees(c) == handler[c].requested.status \notin {"none", handler[c].decision.status}

\* The caller asked for the policy's counter, with another amount.
WrongAmount(c) ==
    /\ handler[c].requested.status = "countered"
    /\ handler[c].requested.amount # handler[c].decision.amount

\* A request the policy does not share, and a decision to escalate, are
\* recorded over whatever the offer's status has become.
Escalate(c) ==
    /\ handler[c].phase = "evaluated"
    /\ Disagrees(c) \/ handler[c].decision.status = "escalate"
    /\ offer' = Plain("escalated")
    /\ astray' = IF answered.status = "none" THEN astray ELSE astray \cup {"overwritten"}
    /\ Done(c)
    /\ UNCHANGED <<terms, changes, live, answered, saved, offerFaults>>

\* Nothing to be done yet, or not with this amount.
Defer(c) ==
    /\ handler[c].phase = "evaluated" /\ ~Disagrees(c)
    /\ handler[c].decision.status = "defer" \/ WrongAmount(c)
    /\ Done(c)
    /\ UNCHANGED <<terms, changes, live, offer, answered, saved, offerFaults, astray>>

\* The marketplace takes one answer to an offer, and the same one again.
Takes(answer) == answered \in {Plain("none"), answer}

\* The idempotency key is the operation's, whatever the amount.
Replayed(answer) == answer.status \in saved

\* accept_offer, decline_offer or counter_offer: replayed or shadowed; done and
\* verified; done with the outcome lost; refused; taken by the adapter of an
\* account in simulation, which the buyer never hears of (Simulate in Gateway).
SendAnswer(c) ==
    LET answer == handler[c].decision
        Known(ok) == handler' = [handler EXCEPT ![c].phase = "sent", ![c].ok = ok] IN
    /\ handler[c].phase = "evaluated" /\ answer \in Answer
    /\ ~Disagrees(c) /\ ~WrongAmount(c)
    /\ \/ /\ Replayed(answer) \/ ~live
          /\ Known(TRUE)
          /\ astray' = astray \cup (IF ~Replayed(answer) THEN {"shadowed"}
                                    ELSE IF answer # answered THEN {"amount"} ELSE {})
          /\ UNCHANGED <<answered, saved, offerFaults>>
       \/ /\ ~Replayed(answer) /\ live /\ Takes(answer)
          /\ answered' = answer /\ saved' = saved \cup {answer.status}
          /\ Known(TRUE)
          /\ UNCHANGED <<astray, offerFaults>>
       \/ /\ ~Replayed(answer) /\ live /\ Takes(answer) /\ Fault
          /\ answered' = answer /\ astray' = astray \cup {"lost"}
          /\ Known(FALSE)
          /\ UNCHANGED saved
       \/ /\ ~Replayed(answer) /\ live /\ ~Takes(answer)
          /\ Known(FALSE)
          /\ UNCHANGED <<answered, astray, saved, offerFaults>>
       \/ /\ ~Replayed(answer) /\ live /\ Fault
          /\ saved' = saved \cup {answer.status} /\ astray' = astray \cup {"simulated"}
          /\ Known(TRUE)
          /\ UNCHANGED answered
    /\ UNCHANGED <<terms, changes, live, offer>>

\* Seeded fault: the answer is recorded although it was not given.
StoreAnswerAnyway(c) ==
    /\ handler[c].phase = "sent"
    /\ offer' = handler[c].decision
    /\ Done(c)
    /\ UNCHANGED <<terms, changes, live, answered, saved, offerFaults, astray>>

StoreAnswer(c) ==
    /\ handler[c].phase = "sent"
    /\ offer' = IF handler[c].ok THEN handler[c].decision ELSE offer
    /\ Done(c)
    /\ UNCHANGED <<terms, changes, live, answered, saved, offerFaults, astray>>

HandlerDies(c) ==
    /\ handler[c].phase = "sent" /\ Fault
    /\ astray' = astray \cup {"lost"}
    /\ Done(c)
    /\ UNCHANGED <<terms, changes, live, offer, answered, saved>>

Next ==
    \/ TermsChange \/ SyncOffers
    \/ \E c \in Handlers :
         \/ Evaluate(c) \/ Escalate(c) \/ Defer(c)
         \/ SendAnswer(c) \/ StoreAnswer(c) \/ HandlerDies(c)

Spec == Init /\ [][Next]_vars

-----------------------------------------------------------------------------
(* Properties *)

\* The offer and its handlers have their types.
TypeOK ==
    /\ terms \in Decision /\ changes \in 0..MaxTerms /\ live \in BOOLEAN
    /\ offer \in Row /\ answered \in Answer \cup {Plain("none")}
    /\ handler \in [Handlers -> [phase : {"idle", "evaluated", "sent"}, decision : Decision,
                                 requested : Requested, ok : BOOLEAN]]
    /\ saved \subseteq {a.status : a \in Answer} /\ offerFaults \in 0..MaxOfferFaults
    /\ astray \subseteq {"overwritten", "shadowed", "simulated", "amount", "lost"}

Answering == \E c \in Handlers : handler[c].phase = "sent"

\* An offer whose row says it was answered was given that answer, unless the
\* write was shadowed or simulated, and with that amount, unless a second counter was a
\* replay of the first.  An answer that was given is in the row, unless it was
\* lost, or a decision was stored over it (handle_offer, record_decision).
AnswerTold ==
    /\ (offer \in Answer /\ astray \cap {"shadowed", "simulated"} = {}) =>
         /\ offer.status = answered.status
         /\ "amount" \notin astray => offer = answered
    /\ (answered.status # "none" /\ astray = {} /\ ~Answering) => offer = answered
=============================================================================
