----------------------------- MODULE MCServices -----------------------------
(* The supporting services, each on an instance of its own.  None of them
   reads what another one writes, so a behaviour picks one of them and lets
   it run alone: the state space is the sum of theirs. *)
EXTENDS FiniteSets, Integers, TLC

CONSTANTS MediaClients, MediaWorkers, MediaMaxAttempts, MaxMediaJobs,
          MaxMediaFaults
CONSTANTS Reviewers, Authors, MaxProposals, MaxItemVersion, MaxDraftVersion
CONSTANTS Researchers, MaxResearchSources, MaxIdentified
CONSTANTS Producers, TaskReviewers, MaxTasks
CONSTANTS Identities, Importers, Assessors
CONSTANTS MarketSchedules, PlainSchedules, Tickers, Interval, RunsPerTick,
          MaxTime
CONSTANTS Logins, Users, MaxSessions, MaxStates, MaxRevocations
CONSTANTS Handlers, Amounts, MaxTerms, MaxOfferFaults
CONSTANTS Responders, Bodies, Facts, MaxMessageFaults
CONSTANTS Writers, MaxPrice, MaxStarted, MaxListingFaults
CONSTANTS Shippers, MaxTaskVersion, MaxShippingFaults
CONSTANTS Offered, Costs, Profits, Prices, Percents, Days, MarkdownStep
CONSTANTS Clients, ListPrices, MaxRetries, MaxRemoteOffers, MaxLostAnswers,
          MaxOperations
CONSTANTS Callers, JobBodies, ItemBodies, MaxMade, MaxExpiries,
          MaxRequestFaults

\* Every limit is a number, what is counted is finite, and the amounts and
\* rates are in the ranges the services accept.
ASSUME MediaAssumption == MediaMaxAttempts \in Nat \ {0} /\ MaxMediaFaults \in Nat
ASSUME ProposalsAssumption ==
    MaxProposals \in Nat /\ MaxItemVersion \in Nat \ {0} /\ MaxDraftVersion \in Nat \ {0}
ASSUME ResearchAssumption ==
    MaxResearchSources \in Nat /\ MaxIdentified \in Nat /\ IsFiniteSet(Researchers)
ASSUME ComparablesAssumption == IsFiniteSet(Identities)
\* A schedule is of the marketplace's or it is not.
ASSUME SchedulesAssumption ==
    /\ IsFiniteSet(Tickers) /\ Interval \in Nat \ {0} /\ RunsPerTick \in Nat
    /\ MaxTime \in Nat \ {0} /\ MarketSchedules \cap PlainSchedules = {}
ASSUME SessionsAssumption == MaxStates \in Nat
ASSUME OffersAssumption == MaxTerms \in Nat /\ MaxOfferFaults \in Nat
ASSUME MessagesAssumption == MaxMessageFaults \in Nat
ASSUME ListingsAssumption ==
    MaxPrice \in Nat \ {0} /\ MaxStarted \in Nat /\ MaxListingFaults \in Nat
ASSUME ShippingAssumption == MaxShippingFaults \in Nat
\* A discount or a margin is below one, as PricingInputs requires (lt=1).
ASSUME PoliciesAssumption ==
    /\ Offered \subseteq Nat /\ Costs \subseteq Nat /\ Profits \subseteq Nat /\ Prices \subseteq Nat
    /\ Percents \subseteq 0..99 /\ Days \subseteq Nat /\ MarkdownStep \in Nat \ {0}
ASSUME EbayAssumption ==
    /\ ListPrices \subseteq Nat \ {0} /\ MaxRetries \in Nat
    /\ MaxRemoteOffers \in Nat /\ MaxLostAnswers \in Nat /\ MaxOperations \in Nat
ASSUME RequestsAssumption == MaxExpiries \in Nat /\ MaxRequestFaults \in Nat

VARIABLES component,
          media, root, mediaJob, mediaTry, results, uploader, mediaWorker,
          mediaReap, raced, mediaFaults,
          itemVersion, draft, snaps, proposal, author, review, applied,
          contested,
          research, sources, identified, backed, researcher, reworked,
          task, producer, desk, sweep, batch, closed, again, together,
          comparable, tasked, importing, assessing, pricing, condemned,
          time, nextRun, timing, enabled, windows, ticker, settled, passed,
          overtaken,
          account, session, oauthState, spent, login, revoking, user,
          revocations, twins, presented, overlapped,
          terms, changes, live, offer, answered, handler, saved, offerFaults,
          astray,
          category, responder, inbound, outcome, replies, known,
          messageFaults, crowd, pretended, dropped,
          listed, shop, soldUp, toEnd, writer, executing, succeeded,
          confirmed, started, listingFaults, excuse,
          paid, parcel, shipment, shipper, realWrites, labels, quote,
          tracking, keys, raised, books, shippingFaults, owed,
          asked, told, price,
          remoteOffer, fulfilled, client, lostAnswers, operations, reported,
          crossed,
          apiKey, record, made, request, answers, expiries, requestFaults,
          doubled

Media == INSTANCE MediaJobs
Domain == INSTANCE Proposals
Study == INSTANCE Research
Queue == INSTANCE ReviewTasks
Market == INSTANCE Comparables
Scheduler == INSTANCE Schedules
Broker == INSTANCE Sessions
Buyer == INSTANCE Offers
Thread == INSTANCE Messages
Upkeep == INSTANCE Listings
Dispatch == INSTANCE Shipping
Arithmetic == INSTANCE Policies
Remote == INSTANCE EbayListing
Api == INSTANCE Requests

mediaVars == <<media, root, mediaJob, mediaTry, results, uploader,
               mediaWorker, mediaReap, raced, mediaFaults>>
domainVars == <<itemVersion, draft, snaps, proposal, author, review, applied,
                contested>>
studyVars == <<research, sources, identified, backed, researcher, reworked>>
queueVars == <<task, producer, desk, sweep, batch, closed, again, together>>
marketVars == <<comparable, tasked, importing, assessing, pricing, condemned>>
schedulerVars == <<time, nextRun, timing, enabled, windows, ticker, settled,
                   passed, overtaken>>
brokerVars == <<account, session, oauthState, spent, login, revoking, user,
                revocations, twins, presented, overlapped>>
buyerVars == <<terms, changes, live, offer, answered, handler, saved,
               offerFaults, astray>>
threadVars == <<category, responder, inbound, outcome, replies, known,
                messageFaults, crowd, pretended, dropped>>
upkeepVars == <<listed, shop, soldUp, toEnd, writer, executing, succeeded,
                confirmed, started, listingFaults, excuse>>
dispatchVars == <<paid, parcel, shipment, shipper, realWrites, labels, quote,
                  tracking, keys, raised, books, shippingFaults, owed>>
arithmeticVars == <<asked, told, price>>
remoteVars == <<remoteOffer, fulfilled, client, lostAnswers, operations,
                reported, crossed>>
apiVars == <<apiKey, record, made, request, answers, expiries, requestFaults,
             doubled>>
vars == <<component, mediaVars, domainVars, studyVars, queueVars, marketVars,
          schedulerVars, brokerVars, buyerVars, threadVars, upkeepVars,
          dispatchVars, arithmeticVars, remoteVars, apiVars>>

Components == {"media", "proposals", "research", "tasks", "comparables",
               "schedules", "sessions", "offers", "messages", "listings",
               "shipping", "policies", "ebay", "requests"}

Init ==
    /\ component \in Components
    /\ Media!Init
    /\ Domain!Init
    /\ Study!Init
    /\ Queue!Init
    /\ Market!Init
    /\ Scheduler!Init
    /\ Broker!Init
    /\ Buyer!Init
    /\ Thread!Init
    /\ Upkeep!Init
    /\ Dispatch!Init
    /\ Arithmetic!Init
    /\ Remote!Init
    /\ Api!Init

\* The component moves and every other one rests.
MediaMoves ==
    /\ component = "media" /\ Media!Next
    /\ UNCHANGED <<component, domainVars, studyVars, queueVars, marketVars,
                  schedulerVars, brokerVars, buyerVars, threadVars,
                  upkeepVars, dispatchVars, arithmeticVars, remoteVars,
                  apiVars>>

DomainMoves ==
    /\ component = "proposals" /\ Domain!Next
    /\ UNCHANGED <<component, mediaVars, studyVars, queueVars, marketVars,
                  schedulerVars, brokerVars, buyerVars, threadVars,
                  upkeepVars, dispatchVars, arithmeticVars, remoteVars,
                  apiVars>>

StudyMoves ==
    /\ component = "research" /\ Study!Next
    /\ UNCHANGED <<component, mediaVars, domainVars, queueVars, marketVars,
                  schedulerVars, brokerVars, buyerVars, threadVars,
                  upkeepVars, dispatchVars, arithmeticVars, remoteVars,
                  apiVars>>

QueueMoves ==
    /\ component = "tasks" /\ Queue!Next
    /\ UNCHANGED <<component, mediaVars, domainVars, studyVars, marketVars,
                  schedulerVars, brokerVars, buyerVars, threadVars,
                  upkeepVars, dispatchVars, arithmeticVars, remoteVars,
                  apiVars>>

MarketMoves ==
    /\ component = "comparables" /\ Market!Next
    /\ UNCHANGED <<component, mediaVars, domainVars, studyVars, queueVars,
                  schedulerVars, brokerVars, buyerVars, threadVars,
                  upkeepVars, dispatchVars, arithmeticVars, remoteVars,
                  apiVars>>

SchedulerMoves ==
    /\ component = "schedules" /\ Scheduler!Next
    /\ UNCHANGED <<component, mediaVars, domainVars, studyVars, queueVars,
                  marketVars, brokerVars, buyerVars, threadVars, upkeepVars,
                  dispatchVars, arithmeticVars, remoteVars, apiVars>>

BrokerMoves ==
    /\ component = "sessions" /\ Broker!Next
    /\ UNCHANGED <<component, mediaVars, domainVars, studyVars, queueVars,
                  marketVars, schedulerVars, buyerVars, threadVars,
                  upkeepVars, dispatchVars, arithmeticVars, remoteVars,
                  apiVars>>

BuyerMoves ==
    /\ component = "offers" /\ Buyer!Next
    /\ UNCHANGED <<component, mediaVars, domainVars, studyVars, queueVars,
                  marketVars, schedulerVars, brokerVars, threadVars,
                  upkeepVars, dispatchVars, arithmeticVars, remoteVars,
                  apiVars>>

ThreadMoves ==
    /\ component = "messages" /\ Thread!Next
    /\ UNCHANGED <<component, mediaVars, domainVars, studyVars, queueVars,
                  marketVars, schedulerVars, brokerVars, buyerVars,
                  upkeepVars, dispatchVars, arithmeticVars, remoteVars,
                  apiVars>>

UpkeepMoves ==
    /\ component = "listings" /\ Upkeep!Next
    /\ UNCHANGED <<component, mediaVars, domainVars, studyVars, queueVars,
                  marketVars, schedulerVars, brokerVars, buyerVars,
                  threadVars, dispatchVars, arithmeticVars, remoteVars,
                  apiVars>>

DispatchMoves ==
    /\ component = "shipping" /\ Dispatch!Next
    /\ UNCHANGED <<component, mediaVars, domainVars, studyVars, queueVars,
                  marketVars, schedulerVars, brokerVars, buyerVars,
                  threadVars, upkeepVars, arithmeticVars, remoteVars, apiVars>>

ArithmeticMoves ==
    /\ component = "policies" /\ Arithmetic!Next
    /\ UNCHANGED <<component, mediaVars, domainVars, studyVars, queueVars,
                  marketVars, schedulerVars, brokerVars, buyerVars,
                  threadVars, upkeepVars, dispatchVars, remoteVars, apiVars>>

RemoteMoves ==
    /\ component = "ebay" /\ Remote!Next
    /\ UNCHANGED <<component, mediaVars, domainVars, studyVars, queueVars,
                  marketVars, schedulerVars, brokerVars, buyerVars,
                  threadVars, upkeepVars, dispatchVars, arithmeticVars,
                  apiVars>>

ApiMoves ==
    /\ component = "requests" /\ Api!Next
    /\ UNCHANGED <<component, mediaVars, domainVars, studyVars, queueVars,
                  marketVars, schedulerVars, brokerVars, buyerVars,
                  threadVars, upkeepVars, dispatchVars, arithmeticVars,
                  remoteVars>>

Next ==
    \/ MediaMoves
    \/ DomainMoves
    \/ StudyMoves
    \/ QueueMoves
    \/ MarketMoves
    \/ SchedulerMoves
    \/ BrokerMoves
    \/ BuyerMoves
    \/ ThreadMoves
    \/ UpkeepMoves
    \/ DispatchMoves
    \/ ArithmeticMoves
    \/ RemoteMoves
    \/ ApiMoves

Spec == Init /\ [][Next]_vars

\* Every component's rows and callers have their types.
TypeOK ==
    /\ component = "media" => Media!TypeOK
    /\ component = "proposals" => Domain!TypeOK
    /\ component = "research" => Study!TypeOK
    /\ component = "tasks" => Queue!TypeOK
    /\ component = "comparables" => Market!TypeOK
    /\ component = "schedules" => Scheduler!TypeOK
    /\ component = "sessions" => Broker!TypeOK
    /\ component = "offers" => Buyer!TypeOK
    /\ component = "messages" => Thread!TypeOK
    /\ component = "listings" => Upkeep!TypeOK
    /\ component = "shipping" => Dispatch!TypeOK
    /\ component = "policies" => Arithmetic!TypeOK
    /\ component = "ebay" => Remote!TypeOK
    /\ component = "requests" => Api!TypeOK

\* The components' own properties; the exact statements are in their modules.

\* Media jobs: retries are bounded and an image left behind leaves a trace.
MediaAccounted == component = "media" => Media!MediaAccounted

\* Proposals: an approved change is the reviewed one, and its status is true.
DecisionsHold == component = "proposals" => Domain!DecisionsHold

\* Research: a record yields one identification proposal.
IdentifiedOnce == component = "research" => Study!IdentifiedOnce

\* Review tasks: one undone task per finding while the first is, closed once.
ReviewedOnce == component = "tasks" => Queue!ReviewedOnce

\* Comparables: what a reviewer invalidated never prices an item again.
InvalidatedNeverPriced == component = "comparables" => Market!InvalidatedNeverPriced

\* Schedules: a window that was passed was run, as often as configured.
DueRunOnce == component = "schedules" => Scheduler!DueRunOnce

\* Sessions: a revocation holds, and a login gives one session.
RevokedForGood == component = "sessions" => Broker!RevokedForGood

\* Offers: the row and the buyer have the same answer.
AnswerTold == component = "offers" => Buyer!AnswerTold

\* Messages: a thread gets each text once, and no message is forgotten.
OneReply == component = "messages" => Thread!OneReply

\* Listings: the rows and the shop agree on prices and on what is live.
ListingsAgree == component = "listings" => Upkeep!ListingsAgree

\* Shipping: one label per order, in the task and in the books.
LabelsAccounted == component = "shipping" => Dispatch!LabelsAccounted

\* Policies: no automatic price gives away the profit or passes its limits.
PoliciesSound == component = "policies" => Arithmetic!PoliciesSound

\* The eBay adapter: what it reports is so on the remote side.
ReportsHold == component = "ebay" => Remote!ReportsHold

\* API requests: one resource per idempotency key, and the caller's own.
IdempotentOnce == component = "requests" => Api!IdempotentOnce


\* The callers are interchangeable, and every component's are the same two.
Symmetry == Permutations(MediaWorkers)
=============================================================================
