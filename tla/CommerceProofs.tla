--------------------------- MODULE CommerceProofs ---------------------------
(* The proofs of what the services promise of a listing and its buyers: the
   upkeep of listings, the eBay adapter, offers, messages, shipping labels and
   the arithmetic of prices.  Laid out as IntakeProofs. *)
EXTENDS MCServices, Sequences, Integers, FiniteSetTheorems, TLAPS

-----------------------------------------------------------------------------
(* Listings *)

\* What a caller of the upkeep holds.
Upkeeping == [phase : {"idle", "loaded", "sent", "replacing"}, op : Upkeep!Operation,
              at : {"old", "new"}, price : 1..MaxPrice,
              ok : BOOLEAN, verified : BOOLEAN]

Row == [status : Upkeep!RowStatus, price : 1..MaxPrice]
AtShop == [status : Upkeep!ShopStatus, price : 1..MaxPrice]

UpkeepTypes ==
    /\ listed \in [{"old", "new"} -> Row] /\ shop \in [{"old", "new"} -> AtShop]
    /\ soldUp \in BOOLEAN /\ executing \in BOOLEAN /\ toEnd \subseteq {"old", "new"}
    /\ writer \in [Writers -> Upkeeping]
    /\ started \in 0..MaxStarted /\ listingFaults \in 0..MaxListingFaults
    /\ excuse \subseteq {"replayed", "shadowed", "overlapped", "lost", "refused",
                         "simulated", "revived", "adopted"}

\* Only an end for a sale, and a creation, are of the replacement.
Shaped(v) ==
    /\ v.phase = "idle" <=> v.op = "none"
    /\ v.phase = "replacing" => v.op = "relist"
    /\ v.op \in {"update", "markdown", "refresh", "end", "relist"} => v.at = "old"
    /\ v.op = "create" => v.at = "new"

\* A caller that was told its write was made.
ToldOf(v, ops, l) == v.phase = "sent" /\ v.ok /\ v.op \in ops /\ v.at = l

\* A relist finds the replacement's row naming no listing, and a creation publishes it.
Relister(v) ==
    /\ v.op = "relist" => listed["new"].status \in {"none", "failed"}
    /\ v.op = "create" => listed["new"].status = "publishing" /\ listed["new"].price = v.price
    /\ v.op = "delist" /\ v.at = "new" => listed["new"].status \in {"active", "ended"}

\* One caller relists, and only a replacement that a row names is ended.
Replaced ==
    /\ \A c, d \in Writers : ( /\ writer[c].op \in {"relist", "create"}
                               /\ writer[d].op \in {"relist", "create"} ) => c = d
    /\ \A c \in Writers : Relister(writer[c])
    /\ listed["old"].status \in {"active", "ended"}
    /\ listed["new"].status = "none" => shop["new"].status = "none"
    /\ "new" \in toEnd => listed["new"].status \in {"active", "ended"}
    /\ shop["new"].status = "ended" => listed["new"].status \in {"active", "ended"}

\* A key of an end that succeeded is of a listing that is down.
EndedKeys ==
    "simulated" \notin excuse =>
    \A l \in {"old", "new"} : <<"end", l, 0>> \in succeeded => shop[l].status = "ended"

\* What a verified end is of is down, and so the old listing when its replacement is up.
OneUp ==
    "simulated" \notin excuse =>
    /\ \A c \in Writers : ( /\ writer[c].op \in {"end", "delist", "relist"}
                            /\ writer[c].phase = "sent" /\ writer[c].verified ) =>
                          shop[writer[c].at].status = "ended"
    /\ \A c \in Writers : writer[c].op = "create" \/ writer[c].phase = "replacing" =>
                          shop["old"].status = "ended"
    /\ shop["new"].status = "live" => shop["old"].status = "ended"

\* The price in the row, and the prices still to be stored, are the shop's.
PriceTrue(l) ==
    excuse \cap {"replayed", "shadowed", "simulated", "lost", "overlapped"} = {} =>
    /\ \A c \in Writers : ToldOf(writer[c], {"update", "markdown", "create"}, l) =>
          writer[c].price = shop[l].price
    /\ listed[l].status \in {"active", "ended"} =>
          \/ \E c \in Writers : ToldOf(writer[c], {"update", "markdown"}, l)
          \/ listed[l].price = shop[l].price

\* What the row says is down, or will say, is down.
EndTrue(l) ==
    excuse \cap {"shadowed", "simulated"} = {} =>
    /\ \A c \in Writers : ToldOf(writer[c], {"end", "delist", "relist"}, l) => shop[l].status = "ended"
    /\ listed[l].status = "ended" => shop[l].status = "ended"

\* What is down is so in the row, or will be.
DownTrue(l) ==
    excuse \cap {"lost", "revived"} = {} /\ shop[l].status = "ended" =>
    \/ listed[l].status = "ended"
    \/ \E c \in Writers : ToldOf(writer[c], {"end", "delist", "relist"}, l)

\* After a sale every listing that is up is about to be ended, or no row names it.
SaleTrue ==
    soldUp /\ excuse \cap {"refused", "shadowed", "simulated", "adopted"} = {} =>
    \A l \in {"old", "new"} : shop[l].status = "live" =>
       \/ l \in toEnd
       \/ \E c \in Writers : writer[c].op = "delist" /\ writer[c].at = l /\ writer[c].phase = "loaded"
       \/ l = "new" /\ listed[l].status \in {"publishing", "failed"}

UpkeepInv ==
    /\ UpkeepTypes /\ Replaced /\ EndedKeys /\ OneUp /\ SaleTrue
    /\ \A c \in Writers : Shaped(writer[c])
    /\ \A l \in {"old", "new"} : PriceTrue(l) /\ EndTrue(l) /\ DownTrue(l)

\* A behaviour of the services is a behaviour of the upkeep.
LEMMA UpkeepSpec == Spec => Upkeep!Spec
<1>1. Init => Upkeep!Init BY DEF Init
<1>2. [Next]_vars => [Upkeep!Next]_(Upkeep!vars)
  BY DEF Next, vars, MediaMoves, DomainMoves, StudyMoves, QueueMoves,
         MarketMoves, SchedulerMoves, BrokerMoves, BuyerMoves, ThreadMoves,
         UpkeepMoves, DispatchMoves, ArithmeticMoves, RemoteMoves, ApiMoves,
         upkeepVars, Upkeep!vars
<1>. QED BY <1>1, <1>2, PTL DEF Spec, Upkeep!Spec

\* A caller that does nothing.
LEMMA UpkeepIdle ==
  /\ Upkeep!Idle \in Upkeeping /\ Upkeep!Idle.phase = "idle" /\ Upkeep!Idle.op = "none"
  /\ ~Upkeep!Idle.ok /\ ~Upkeep!Idle.verified
BY ListingsAssumption DEF Upkeep!Idle, Upkeeping, Upkeep!Operation, Upkeep!Priced

\* At first the listing is up, and its row says so.
LEMMA UpkeepInit == Upkeep!Init => UpkeepInv
<1>. SUFFICES ASSUME Upkeep!Init PROVE UpkeepInv OBVIOUS
<1>. USE DEF Upkeep!Init
<1>1. /\ writer \in [Writers -> Upkeeping]
      /\ \A c \in Writers : /\ writer[c].phase = "idle" /\ writer[c].op = "none"
                            /\ ~writer[c].ok
  BY UpkeepIdle
<1>2. /\ listed \in [{"old", "new"} -> Row] /\ shop \in [{"old", "new"} -> AtShop]
      /\ listed["old"].status = "active" /\ listed["new"].status = "none"
      /\ shop["old"].status = "live" /\ shop["new"].status = "none"
      /\ \A l \in {"old", "new"} : listed[l].price = shop[l].price
  BY ListingsAssumption DEF Row, AtShop, Upkeep!RowStatus, Upkeep!ShopStatus, Upkeep!Listing
<1>0. started \in 0..MaxStarted /\ listingFaults \in 0..MaxListingFaults
  BY ListingsAssumption
<1>3. UpkeepTypes
  <2>1. /\ toEnd \subseteq {"old", "new"} /\ soldUp \in BOOLEAN /\ executing \in BOOLEAN
        /\ excuse \subseteq {"replayed", "shadowed", "overlapped", "lost", "refused",
                             "simulated", "revived", "adopted"}
    OBVIOUS
  <2>. QED BY ONLY <1>0, <1>1, <1>2, <2>1 DEF UpkeepTypes
<1>4. Replaced BY <1>1, <1>2 DEF Replaced, Relister
<1>5. EndedKeys /\ OneUp /\ SaleTrue BY <1>1, <1>2 DEF EndedKeys, OneUp, SaleTrue
<1>6. \A c \in Writers : Shaped(writer[c]) BY <1>1 DEF Shaped
<1>7. \A l \in {"old", "new"} : PriceTrue(l) /\ EndTrue(l) /\ DownTrue(l)
  BY <1>1, <1>2 DEF PriceTrue, EndTrue, DownTrue, ToldOf
<1>. QED BY <1>3, <1>4, <1>5, <1>6, <1>7 DEF UpkeepInv

\* A caller has taken something up, and the listings stay as they are.
LEMMA TakeUp ==
  ASSUME UpkeepInv, NEW c \in Writers, NEW q \in Upkeeping, writer[c].phase = "idle",
         writer' = [writer EXCEPT ![c] = q], q.phase = "loaded",
         started' \in 0..MaxStarted,
         UNCHANGED <<listed, shop, soldUp, executing, succeeded, listingFaults, excuse>>,
         \/ q.op \in {"update", "markdown", "refresh", "end"} /\ q.at = "old" /\ toEnd' = toEnd
         \/ /\ q.op = "relist" /\ q.at = "old" /\ toEnd' = toEnd /\ ~soldUp
            /\ listed["new"].status \in {"none", "failed"}
            /\ \A d \in Writers : writer[d].op \notin {"relist", "create"}
         \/ q.op = "delist" /\ q.at \in toEnd /\ toEnd' = toEnd \ {q.at}
  PROVE  UpkeepInv'
<1>t. writer \in [Writers -> Upkeeping] /\ toEnd \subseteq {"old", "new"}
  BY DEF UpkeepInv, UpkeepTypes
<1>1. /\ writer' \in [Writers -> Upkeeping] /\ writer'[c] = q
      /\ \A d \in Writers \ {c} : writer'[d] = writer[d]
  BY <1>t
<1>2. UpkeepTypes' BY <1>1 DEF UpkeepInv, UpkeepTypes
<1>3. \A d \in Writers : Shaped(writer[d])' BY <1>1 DEF UpkeepInv, Shaped
<1>4. Replaced' BY <1>1 DEF UpkeepInv, Replaced, Relister
<1>5. EndedKeys' BY DEF UpkeepInv, EndedKeys
<1>6. \A ops : \A l \in {"old", "new"} : \A d \in Writers :
         ToldOf(writer'[d], ops, l) <=> ToldOf(writer[d], ops, l)
  BY <1>1 DEF ToldOf
<1>7. OneUp' BY <1>1 DEF UpkeepInv, OneUp
<1>8. SaleTrue'
  <2>1. writer[c].op = "none" /\ writer[c].phase = "idle" BY DEF UpkeepInv, Shaped
  <2>. QED BY <1>1, <2>1 DEF UpkeepInv, SaleTrue
<1>9. ASSUME NEW l \in {"old", "new"} PROVE PriceTrue(l)' /\ EndTrue(l)' /\ DownTrue(l)'
  <2>1. PriceTrue(l) /\ EndTrue(l) /\ DownTrue(l) BY DEF UpkeepInv
  <2>2. PriceTrue(l)'
    <3>1. \A d \in Writers : ToldOf(writer'[d], {"update", "markdown", "create"}, l) =>
             writer'[d] = writer[d]
      BY <1>1 DEF ToldOf
    <3>. QED BY <1>6, <2>1, <3>1 DEF PriceTrue
  <2>3. EndTrue(l)' /\ DownTrue(l)' BY <1>6, <2>1 DEF EndTrue, DownTrue
  <2>. QED BY <2>2, <2>3
<1>. QED BY <1>2, <1>3, <1>4, <1>5, <1>7, <1>8, <1>9 DEF UpkeepInv

\* A caller's write was not made: it was replayed, shadowed or refused.
LEMMA WriteUnmade ==
  ASSUME UpkeepInv, NEW c \in Writers, NEW q \in Upkeeping, writer[c].phase = "loaded",
         writer' = [writer EXCEPT ![c] = q],
         q.phase = "sent" /\ q.op = writer[c].op /\ q.at = writer[c].at /\ q.price = writer[c].price,
         UNCHANGED <<listed, shop, soldUp, toEnd, executing, started>>,
         listingFaults' \in 0..MaxListingFaults, NEW why, excuse' = excuse \cup why,
         why \subseteq {"replayed", "shadowed", "refused", "simulated"},
         succeeded' = succeeded \/ "simulated" \in why,
         q.verified => "simulated" \in why \/ Upkeep!Key(c) \in succeeded,
         q.ok => \/ "shadowed" \in why \/ "simulated" \in why
                 \/ "replayed" \in why /\ Upkeep!Key(c) \in succeeded
                 \/ Upkeep!Applied(c) = shop[q.at],
         ~q.ok /\ q.op = "delist" => "refused" \in why
  PROVE  UpkeepInv'
<1>t. /\ writer \in [Writers -> Upkeeping] /\ q.at \in {"old", "new"}
      /\ shop \in [{"old", "new"} -> AtShop]
  BY DEF UpkeepInv, UpkeepTypes, Upkeeping
<1>1. /\ writer' \in [Writers -> Upkeeping] /\ writer'[c] = q
      /\ \A d \in Writers \ {c} : writer'[d] = writer[d]
  BY <1>t
<1>a. ASSUME q.ok, Upkeep!Applied(c) = shop[q.at]
      PROVE  /\ q.op \in {"update", "markdown", "create"} => q.price = shop[q.at].price
             /\ q.op \in {"end", "delist", "relist"} => shop[q.at].status = "ended"
  <2>1. shop[q.at] \in AtShop BY <1>t
  <2>. QED BY <1>a, <2>1 DEF Upkeep!Applied, Upkeep!Priced, Upkeep!Ending, AtShop
<1>k. ASSUME q.op \in {"end", "delist", "relist"}, Upkeep!Key(c) \in succeeded,
             "simulated" \notin excuse
      PROVE  shop[q.at].status = "ended"
  <2>1. Upkeep!Key(c) = <<"end", q.at, 0>>
    BY <1>k DEF Upkeep!Key, Upkeep!Priced, Upkeep!Ending
  <2>. QED BY <1>k, <1>t, <2>1 DEF UpkeepInv, EndedKeys
<1>2. UpkeepTypes' BY <1>1 DEF UpkeepInv, UpkeepTypes
<1>3. \A d \in Writers : Shaped(writer[d])' BY <1>1 DEF UpkeepInv, Shaped
<1>4. Replaced' BY <1>1 DEF UpkeepInv, Replaced, Relister
<1>5. EndedKeys'
  <2>1. "simulated" \notin excuse' => succeeded' = succeeded /\ "simulated" \notin excuse OBVIOUS
  <2>. QED BY <2>1 DEF UpkeepInv, EndedKeys
<1>6. ASSUME NEW d \in Writers, NEW ops, NEW l \in {"old", "new"}, ToldOf(writer[d], ops, l)
      PROVE  ToldOf(writer'[d], ops, l) /\ writer'[d] = writer[d]
  BY <1>1, <1>6 DEF ToldOf
<1>s. Shaped(writer[c]) BY DEF UpkeepInv
<1>7. OneUp'
  <2>. SUFFICES ASSUME "simulated" \notin excuse' PROVE OneUp' BY DEF OneUp
  <2>1. "simulated" \notin excuse /\ "simulated" \notin why OBVIOUS
  <2>2. q.op \in {"end", "delist", "relist"} /\ q.verified => shop[q.at].status = "ended"
    BY <1>k, <2>1
  <2>. QED BY <1>1, <2>1, <2>2 DEF UpkeepInv, OneUp
<1>9. ASSUME NEW l \in {"old", "new"} PROVE PriceTrue(l)' /\ EndTrue(l)' /\ DownTrue(l)'
  <2>1. PriceTrue(l) /\ EndTrue(l) /\ DownTrue(l) BY DEF UpkeepInv
  <2>2. PriceTrue(l)'
    <3>. SUFFICES ASSUME excuse' \cap {"replayed", "shadowed", "simulated", "lost", "overlapped"} = {}
                  PROVE  /\ \A d \in Writers : ToldOf(writer'[d], {"update", "markdown", "create"}, l) =>
                               writer'[d].price = shop[l].price
                         /\ listed[l].status \in {"active", "ended"} =>
                               \/ \E d \in Writers : ToldOf(writer'[d], {"update", "markdown"}, l)
                               \/ listed[l].price = shop[l].price
      BY DEF PriceTrue
    <3>0. excuse \cap {"replayed", "shadowed", "simulated", "lost", "overlapped"} = {} OBVIOUS
    <3>1. ASSUME NEW d \in Writers, ToldOf(writer'[d], {"update", "markdown", "create"}, l)
          PROVE  writer'[d].price = shop[l].price
      <4>1. CASE d = c
        <5>1. q.ok /\ q.at = l /\ q.op \in {"update", "markdown", "create"}
          BY <1>1, <3>1, <4>1 DEF ToldOf
        <5>. QED BY <1>1, <1>a, <4>1, <5>1
      <4>2. CASE d # c BY <1>1, <2>1, <3>0, <3>1, <4>2 DEF PriceTrue
      <4>. QED BY <4>1, <4>2
    <3>. QED BY <1>6, <2>1, <3>0, <3>1 DEF PriceTrue
  <2>3. EndTrue(l)'
    <3>. SUFFICES ASSUME excuse' \cap {"shadowed", "simulated"} = {},
                         NEW d \in Writers, ToldOf(writer'[d], {"end", "delist", "relist"}, l)
                  PROVE  shop[l].status = "ended"
      BY <2>1 DEF EndTrue
    <3>0. /\ excuse \cap {"shadowed", "simulated"} = {} /\ "simulated" \notin excuse
          /\ "shadowed" \notin why /\ "simulated" \notin why
      OBVIOUS
    <3>1. CASE d = c
      <4>1. q.ok /\ q.at = l /\ q.op \in {"end", "delist", "relist"} BY <1>1, <3>1 DEF ToldOf
      <4>. QED BY <1>a, <1>k, <3>0, <4>1
    <3>2. CASE d # c BY <1>1, <2>1, <3>0, <3>2 DEF EndTrue
    <3>. QED BY <3>1, <3>2
  <2>4. DownTrue(l)' BY <1>6, <2>1 DEF DownTrue
  <2>. QED BY <2>2, <2>3, <2>4
<1>8. SaleTrue'
  <2>. SUFFICES ASSUME soldUp, excuse' \cap {"refused", "shadowed", "simulated", "adopted"} = {},
                       NEW l \in {"old", "new"}, shop[l].status = "live"
                PROVE  \/ l \in toEnd
                       \/ \E d \in Writers : /\ writer'[d].op = "delist" /\ writer'[d].at = l
                                              /\ writer'[d].phase = "loaded"
                       \/ l = "new" /\ listed[l].status \in {"publishing", "failed"}
    BY DEF SaleTrue
  <2>1. /\ excuse \cap {"refused", "shadowed", "simulated", "adopted"} = {}
        /\ excuse' \cap {"shadowed", "simulated"} = {} /\ "refused" \notin why
    OBVIOUS
  <2>2. ~(q.op = "delist" /\ q.at = l)
    <3>. SUFFICES ASSUME q.op = "delist", q.at = l PROVE FALSE OBVIOUS
    <3>1. ToldOf(writer'[c], {"end", "delist", "relist"}, l) BY <1>1, <2>1 DEF ToldOf
    <3>. QED BY <1>9, <2>1, <3>1 DEF EndTrue
  <2>. QED BY <1>1, <2>1, <2>2 DEF UpkeepInv, SaleTrue
<1>. QED BY <1>2, <1>3, <1>4, <1>5, <1>7, <1>8, <1>9 DEF UpkeepInv

\* A caller's write was made, whether it is told of it or not.
LEMMA WriteMade ==
  ASSUME UpkeepInv, NEW c \in Writers, NEW q \in Upkeeping, writer[c].phase = "loaded",
         writer' = [writer EXCEPT ![c] = q],
         q.phase = "sent" /\ q.op = writer[c].op /\ q.at = writer[c].at /\ q.price = writer[c].price,
         UNCHANGED <<listed, soldUp, toEnd, executing, started>>, Upkeep!Apply(c),
         listingFaults' \in 0..MaxListingFaults, NEW why, excuse' = excuse \cup why,
         succeeded' \in {succeeded, succeeded \cup {Upkeep!Key(c)}},
         \/ /\ q.ok /\ q.op # "create"
            /\ why = IF Upkeep!Overlaps(c) THEN {"overlapped"} ELSE {}
         \/ ~q.ok /\ why = {"lost"}
         \/ ~q.ok /\ q.op = "create" /\ why = {}
  PROVE  UpkeepInv'
<1>t. /\ writer \in [Writers -> Upkeeping] /\ q.at \in {"old", "new"}
      /\ shop \in [{"old", "new"} -> AtShop] /\ shop[q.at] \in AtShop
      /\ q.op \in Upkeep!Operation /\ q.price \in 1..MaxPrice
      /\ excuse \subseteq {"replayed", "shadowed", "overlapped", "lost", "refused",
                           "simulated", "revived", "adopted"}
  BY DEF UpkeepInv, UpkeepTypes, Upkeeping
<1>1. /\ writer' \in [Writers -> Upkeeping] /\ writer'[c] = q
      /\ \A d \in Writers \ {c} : writer'[d] = writer[d]
  BY <1>t
<1>s. Shaped(q)
  <2>1. Shaped(writer[c]) BY DEF UpkeepInv
  <2>. QED BY <2>1 DEF Shaped
<1>o. /\ q.op \in {"update", "markdown", "refresh", "end", "delist", "relist", "create"}
      /\ q.op = "create" <=> q.op \notin {"update", "markdown", "refresh", "end", "delist", "relist"}
  BY <1>t, <1>s DEF Shaped, Upkeep!Operation, Upkeep!Priced
<1>. PICK new : new = Upkeep!Applied(c) OBVIOUS
<1>2. /\ new \in AtShop
      /\ q.op \in {"update", "markdown"} => new.status = shop[q.at].status /\ new.price = q.price
      /\ q.op \in {"end", "delist", "relist"} => new.status = "ended" /\ new.price = shop[q.at].price
      /\ q.op = "create" => new.status = "live" /\ new.price = q.price
      /\ q.op = "refresh" => new = shop[q.at]
  BY <1>t, <1>o DEF Upkeep!Applied, Upkeep!Priced, Upkeep!Ending, AtShop, Upkeep!ShopStatus
<1>3. /\ shop' \in [{"old", "new"} -> AtShop] /\ shop'[q.at] = new
      /\ \A l \in {"old", "new"} \ {q.at} : shop'[l] = shop[l]
  BY <1>t, <1>2 DEF Upkeep!Apply
<1>4. ASSUME NEW d \in Writers, NEW ops, NEW l \in {"old", "new"}, ToldOf(writer[d], ops, l)
      PROVE  ToldOf(writer'[d], ops, l) /\ writer'[d] = writer[d]
  BY <1>1, <1>4 DEF ToldOf
<1>5. UpkeepTypes'
  <2>1. why \subseteq {"overlapped", "lost"} OBVIOUS
  <2>. QED BY <1>1, <1>3, <2>1 DEF UpkeepInv, UpkeepTypes
<1>6. \A d \in Writers : Shaped(writer[d])' BY <1>1, <1>s DEF UpkeepInv, Shaped
<1>. PICK r : r = writer[c] OBVIOUS
<1>r. /\ Relister(r)
      /\ r.phase = "loaded" /\ r.op = q.op /\ r.at = q.at /\ r.price = q.price
  BY DEF UpkeepInv, Replaced
<1>n. listed["new"].status = "none" => shop'["new"].status = "none"
  BY <1>s, <1>o, <1>r, <1>2, <1>3 DEF UpkeepInv, Replaced, Relister, Shaped
<1>m. ASSUME NEW d \in Writers PROVE Relister(writer[d])'
  <2>1. Relister(writer[d]) BY DEF UpkeepInv, Replaced
  <2>2. CASE d = c
    <3>1. Relister(r) /\ writer'[d] = q BY <1>1, <2>2, <1>r
    <3>. QED BY <1>r, <3>1 DEF Relister
  <2>3. CASE d # c
    <3>1. writer'[d] = writer[d] BY <1>1, <2>3
    <3>. QED BY <2>1, <3>1 DEF Relister
  <2>. QED BY <2>2, <2>3
<1>d. shop'["new"].status = "ended" => listed["new"].status \in {"active", "ended"}
  <2>1. CASE q.at = "new" /\ q.op \in {"end", "delist", "relist"}
    BY <1>r, <1>s, <2>1 DEF Relister, Shaped
  <2>2. CASE ~(q.at = "new" /\ q.op \in {"end", "delist", "relist"})
    <3>1. shop'["new"].status = "ended" => shop["new"].status = "ended"
      BY <1>o, <1>2, <1>3, <2>2
    <3>. QED BY <3>1 DEF UpkeepInv, Replaced
  <2>. QED BY <2>1, <2>2
<1>8. Replaced' BY <1>1, <1>d, <1>m, <1>n DEF UpkeepInv, Replaced
<1>c. q.op = "create" => listed["new"].status = "publishing" /\ q.at = "new"
  BY <1>r, <1>s DEF Relister, Shaped
<1>9. ASSUME NEW l \in {"old", "new"}, shop[l].status = "ended" PROVE shop'[l].status = "ended"
  <2>1. CASE l = q.at
    <3>1. q.op # "create" BY <1>9, <1>c, <2>1 DEF UpkeepInv, Replaced
    <3>. QED BY <1>9, <1>2, <1>3, <1>o, <2>1, <3>1
  <2>2. CASE l # q.at BY <1>3, <1>9, <2>2
  <2>. QED BY <2>1, <2>2
<1>e. "simulated" \notin excuse' => "simulated" \notin excuse OBVIOUS
<1>10. EndedKeys'
  <2>. SUFFICES ASSUME "simulated" \notin excuse',
                       NEW l \in {"old", "new"}, <<"end", l, 0>> \in succeeded'
                PROVE  shop'[l].status = "ended"
    BY DEF EndedKeys
  <2>1. CASE <<"end", l, 0>> \in succeeded BY <1>9, <1>e, <2>1 DEF UpkeepInv, EndedKeys
  <2>2. CASE <<"end", l, 0>> = Upkeep!Key(c)
    <3>1. l = q.at /\ q.op \in {"end", "delist", "relist"}
      <4>1. /\ l = r.at
            /\ "end" = IF r.op \in Upkeep!Ending THEN "end" ELSE r.op
        BY <2>2, <1>r DEF Upkeep!Key
      <4>. QED BY <4>1, <1>r, <1>o DEF Upkeep!Ending
    <3>. QED BY <1>2, <1>3, <3>1
  <2>. QED BY <2>1, <2>2
<1>11. OneUp'
  <2>. SUFFICES ASSUME "simulated" \notin excuse' PROVE OneUp' BY DEF OneUp
  <2>1. OneUp /\ "simulated" \notin excuse BY <1>e DEF UpkeepInv
  <2>2. ASSUME NEW d \in Writers, writer'[d].op \in {"end", "delist", "relist"},
               writer'[d].phase = "sent", writer'[d].verified
        PROVE  shop'[writer'[d].at].status = "ended"
    <3>1. CASE d = c BY <1>1, <1>2, <1>3, <2>2, <3>1
    <3>2. CASE d # c
      <4>1. writer'[d] = writer[d] /\ writer[d].at \in {"old", "new"}
        BY <1>1, <1>t, <3>2 DEF Upkeeping
      <4>. QED BY <1>9, <2>1, <2>2, <4>1 DEF OneUp
    <3>. QED BY <3>1, <3>2
  <2>3. ASSUME NEW d \in Writers, writer'[d].op = "create" \/ writer'[d].phase = "replacing"
        PROVE  shop'["old"].status = "ended"
    <3>1. writer[d].op = "create" \/ writer[d].phase = "replacing" BY <1>1, <1>r, <2>3
    <3>. QED BY <1>9, <2>1, <3>1 DEF OneUp
  <2>4. ASSUME shop'["new"].status = "live" PROVE shop'["old"].status = "ended"
    <3>1. CASE q.op = "create" BY <1>9, <1>r, <2>1, <3>1 DEF OneUp
    <3>2. CASE q.op # "create"
      <4>1. shop["new"].status = "live" BY <1>t, <1>o, <1>2, <1>3, <2>4, <3>2
      <4>. QED BY <1>9, <2>1, <4>1 DEF OneUp
    <3>. QED BY <3>1, <3>2
  <2>. QED BY <2>2, <2>3, <2>4 DEF OneUp
<1>12. SaleTrue'
  <2>. SUFFICES ASSUME soldUp, excuse' \cap {"refused", "shadowed", "simulated", "adopted"} = {},
                       NEW l \in {"old", "new"}, shop'[l].status = "live"
                PROVE  \/ l \in toEnd
                       \/ \E d \in Writers : /\ writer'[d].op = "delist" /\ writer'[d].at = l
                                              /\ writer'[d].phase = "loaded"
                       \/ l = "new" /\ listed[l].status \in {"publishing", "failed"}
    BY DEF SaleTrue
  <2>1. excuse \cap {"refused", "shadowed", "simulated", "adopted"} = {} OBVIOUS
  <2>2. CASE q.op = "create" /\ l = "new" BY <1>c, <2>2
  <2>3. CASE ~(q.op = "create" /\ l = "new")
    <3>1. shop[l].status = "live" BY <1>t, <1>o, <1>c, <1>2, <1>3, <2>3
    <3>2. ~(q.op = "delist" /\ q.at = l) BY <1>2, <1>3
    <3>. QED BY <1>1, <1>r, <2>1, <3>1, <3>2 DEF UpkeepInv, SaleTrue
  <2>. QED BY <2>2, <2>3
<1>13. ASSUME NEW l \in {"old", "new"} PROVE PriceTrue(l)' /\ EndTrue(l)' /\ DownTrue(l)'
  <2>1. PriceTrue(l) /\ EndTrue(l) /\ DownTrue(l) BY DEF UpkeepInv
  <2>2. PriceTrue(l)'
    <3>. SUFFICES ASSUME excuse' \cap {"replayed", "shadowed", "simulated", "lost", "overlapped"} = {}
                  PROVE  /\ \A d \in Writers : ToldOf(writer'[d], {"update", "markdown", "create"}, l) =>
                               writer'[d].price = shop'[l].price
                         /\ listed[l].status \in {"active", "ended"} =>
                               \/ \E d \in Writers : ToldOf(writer'[d], {"update", "markdown"}, l)
                               \/ listed[l].price = shop'[l].price
      BY DEF PriceTrue
    <3>0. /\ excuse \cap {"replayed", "shadowed", "simulated", "lost", "overlapped"} = {}
          /\ \/ q.ok /\ ~Upkeep!Overlaps(c) /\ q.op # "create"
             \/ ~q.ok /\ q.op = "create"
      OBVIOUS
    <3>1. CASE l # q.at
      <4>1. shop'[l] = shop[l] BY <1>3, <3>1
      <4>2. \A d \in Writers : \A ops : ToldOf(writer'[d], ops, l) <=> ToldOf(writer[d], ops, l)
        BY <1>1, <1>r, <3>1 DEF ToldOf
      <4>3. \A d \in Writers : \A ops : ToldOf(writer'[d], ops, l) => writer'[d] = writer[d]
        BY <1>1, <3>1 DEF ToldOf
      <4>. QED BY <2>1, <3>0, <4>1, <4>2, <4>3 DEF PriceTrue
    <3>2. CASE l = q.at /\ q.op # "create"
      <4>1. \A d \in Writers \ {c} : ~(writer'[d].phase = "sent" /\ writer'[d].at = l)
        BY <1>1, <1>r, <3>0, <3>2 DEF Upkeep!Overlaps, Upkeep!At
      <4>2. ASSUME NEW d \in Writers, ToldOf(writer'[d], {"update", "markdown", "create"}, l)
            PROVE  writer'[d].price = shop'[l].price
        <5>1. d = c BY <4>1, <4>2 DEF ToldOf
        <5>. QED BY <1>1, <1>2, <1>3, <3>2, <4>2, <5>1 DEF ToldOf
      <4>3. CASE q.op \in {"update", "markdown"}
        <5>1. ToldOf(writer'[c], {"update", "markdown"}, l) BY <1>1, <3>0, <3>2, <4>3 DEF ToldOf
        <5>. QED BY <4>2, <5>1
      <4>4. CASE q.op \in {"end", "delist", "relist", "refresh"}
        <5>1. shop'[l].price = shop[l].price BY <1>2, <1>3, <3>2, <4>4
        <5>2. \A d \in Writers : ~ToldOf(writer[d], {"update", "markdown"}, l)
          <6>. SUFFICES ASSUME NEW d \in Writers, ToldOf(writer[d], {"update", "markdown"}, l)
                        PROVE  FALSE
            OBVIOUS
          <6>1. d # c BY <1>r DEF ToldOf
          <6>. QED BY <1>4, <4>1, <6>1 DEF ToldOf
        <5>. QED BY <2>1, <3>0, <4>2, <5>1, <5>2 DEF PriceTrue
      <4>. QED BY <1>o, <3>2, <4>3, <4>4
    <3>3. CASE l = q.at /\ q.op = "create"
      <4>1. ASSUME NEW d \in Writers, ToldOf(writer'[d], {"update", "markdown", "create"}, l)
            PROVE  FALSE
        <5>1. d # c BY <1>1, <3>0, <3>3, <4>1 DEF ToldOf
        <5>2. writer[d].op = "create"
          <6>1. writer'[d] = writer[d] /\ Shaped(writer[d]) BY <1>1, <5>1 DEF UpkeepInv
          <6>. QED BY <1>c, <3>3, <4>1, <6>1 DEF ToldOf, Shaped
        <5>. QED BY <1>r, <3>3, <5>1, <5>2 DEF UpkeepInv, Replaced
      <4>. QED BY <1>c, <3>3, <4>1
    <3>. QED BY <3>1, <3>2, <3>3
  <2>3. EndTrue(l)'
    <3>. SUFFICES ASSUME excuse' \cap {"shadowed", "simulated"} = {}
                  PROVE  /\ \A d \in Writers : ToldOf(writer'[d], {"end", "delist", "relist"}, l) =>
                               shop'[l].status = "ended"
                         /\ listed[l].status = "ended" => shop'[l].status = "ended"
      BY DEF EndTrue
    <3>1. excuse \cap {"shadowed", "simulated"} = {} OBVIOUS
    <3>2. ASSUME NEW d \in Writers, ToldOf(writer'[d], {"end", "delist", "relist"}, l)
          PROVE  shop'[l].status = "ended"
      <4>1. CASE d = c BY <1>1, <1>2, <1>3, <3>2, <4>1 DEF ToldOf
      <4>2. CASE d # c BY <1>1, <1>9, <2>1, <3>1, <3>2, <4>2 DEF EndTrue
      <4>. QED BY <4>1, <4>2
    <3>. QED BY <1>9, <2>1, <3>1, <3>2 DEF EndTrue
  <2>4. DownTrue(l)'
    <3>. SUFFICES ASSUME excuse' \cap {"lost", "revived"} = {}, shop'[l].status = "ended"
                  PROVE  \/ listed[l].status = "ended"
                         \/ \E d \in Writers : ToldOf(writer'[d], {"end", "delist", "relist"}, l)
      BY DEF DownTrue
    <3>0. excuse \cap {"lost", "revived"} = {} /\ (q.ok \/ q.op = "create") OBVIOUS
    <3>1. CASE shop[l].status = "ended" BY <1>4, <2>1, <3>0, <3>1 DEF DownTrue
    <3>2. CASE shop[l].status # "ended"
      <4>1. l = q.at /\ q.op \in {"end", "delist", "relist"} BY <1>2, <1>3, <1>o, <3>2
      <4>2. ToldOf(writer'[c], {"end", "delist", "relist"}, l) BY <1>1, <3>0, <4>1 DEF ToldOf
      <4>. QED BY <4>2
    <3>. QED BY <3>1, <3>2
  <2>. QED BY <2>2, <2>3, <2>4
<1>. QED BY <1>5, <1>6, <1>8, <1>10, <1>11, <1>12, <1>13 DEF UpkeepInv

\* What the callers of the upkeep are told when one of them is done.
LEMMA OthersTold ==
  ASSUME writer \in [Writers -> Upkeeping], NEW c \in Writers, NEW q \in Upkeeping,
         writer' = [writer EXCEPT ![c] = q], q.phase # "sent"
  PROVE  /\ writer' \in [Writers -> Upkeeping] /\ writer'[c] = q
         /\ \A d \in Writers \ {c} : writer'[d] = writer[d]
         /\ \A ops, l : \A d \in Writers : ToldOf(writer'[d], ops, l) =>
               ToldOf(writer[d], ops, l) /\ d # c /\ writer'[d] = writer[d]
         /\ \A ops, l : \A d \in Writers : ToldOf(writer[d], ops, l) =>
               d = c \/ (ToldOf(writer'[d], ops, l) /\ writer'[d] = writer[d])
<1>1. /\ writer' \in [Writers -> Upkeeping] /\ writer'[c] = q
      /\ \A d \in Writers \ {c} : writer'[d] = writer[d]
  OBVIOUS
<1>2. ASSUME NEW ops, NEW l, NEW d \in Writers, ToldOf(writer'[d], ops, l)
      PROVE  ToldOf(writer[d], ops, l) /\ d # c /\ writer'[d] = writer[d]
  BY <1>1, <1>2 DEF ToldOf
<1>3. ASSUME NEW ops, NEW l, NEW d \in Writers, ToldOf(writer[d], ops, l)
      PROVE  d = c \/ (ToldOf(writer'[d], ops, l) /\ writer'[d] = writer[d])
  <2>1. CASE d = c BY <2>1
  <2>2. CASE d # c
    <3>1. writer'[d] = writer[d] BY <1>1, <2>2
    <3>. QED BY <1>3, <3>1 DEF ToldOf
  <2>. QED BY <2>1, <2>2
<1>. QED BY ONLY <1>1, <1>2, <1>3

\* A caller ends its work, or dies, and stores nothing.
LEMMA GiveUp ==
  ASSUME UpkeepInv, NEW c \in Writers, writer[c].phase # "idle",
         writer' = [writer EXCEPT ![c] = Upkeep!Idle],
         UNCHANGED <<listed, shop, soldUp, toEnd, executing, started, succeeded>>,
         listingFaults' \in 0..MaxListingFaults, NEW why, excuse' = excuse \cup why,
         why \subseteq {"lost", "refused"},
         writer[c].phase = "sent" /\ writer[c].ok => "lost" \in why,
         writer[c].op = "delist" => "refused" \in why \/ writer[c].phase = "sent"
  PROVE  UpkeepInv'
<1>t. writer \in [Writers -> Upkeeping] BY DEF UpkeepInv, UpkeepTypes
<1>i. /\ Upkeep!Idle \in Upkeeping /\ Upkeep!Idle.phase = "idle" /\ Upkeep!Idle.op = "none"
  BY UpkeepIdle
<1>. PICK q \in Upkeeping : q = Upkeep!Idle BY <1>i
<1>1. /\ writer' \in [Writers -> Upkeeping] /\ writer'[c] = q
      /\ \A d \in Writers \ {c} : writer'[d] = writer[d]
      /\ \A ops, l : \A d \in Writers : ToldOf(writer'[d], ops, l) =>
            ToldOf(writer[d], ops, l) /\ d # c /\ writer'[d] = writer[d]
      /\ \A ops, l : \A d \in Writers : ToldOf(writer[d], ops, l) =>
            d = c \/ (ToldOf(writer'[d], ops, l) /\ writer'[d] = writer[d])
  BY <1>t, <1>i, OthersTold
<1>2. UpkeepTypes'
  <2>1. excuse' \subseteq {"replayed", "shadowed", "overlapped", "lost", "refused",
                          "simulated", "revived", "adopted"}
    BY DEF UpkeepInv, UpkeepTypes
  <2>. QED BY <1>1, <2>1 DEF UpkeepInv, UpkeepTypes
<1>3. \A d \in Writers : Shaped(writer[d])' BY <1>1, <1>i DEF UpkeepInv, Shaped
<1>4. Replaced' BY <1>1, <1>i DEF UpkeepInv, Replaced, Relister
<1>5. EndedKeys'
  <2>1. "simulated" \notin excuse' => "simulated" \notin excuse OBVIOUS
  <2>. QED BY <2>1 DEF UpkeepInv, EndedKeys
<1>6. "lost" \notin excuse' => ~(writer[c].phase = "sent" /\ writer[c].ok) OBVIOUS
<1>7. OneUp' BY <1>1, <1>i DEF UpkeepInv, OneUp
<1>8. SaleTrue'
  <2>1. "refused" \notin excuse' => writer[c].op # "delist" \/ writer[c].phase = "sent"
    OBVIOUS
  <2>. QED BY <1>1, <1>i, <2>1 DEF UpkeepInv, SaleTrue
<1>9. ASSUME NEW l \in {"old", "new"} PROVE PriceTrue(l)' /\ EndTrue(l)' /\ DownTrue(l)'
  <2>1. PriceTrue(l) /\ EndTrue(l) /\ DownTrue(l) BY DEF UpkeepInv
  <2>2. ASSUME NEW ops, NEW d \in Writers, "lost" \notin excuse', ToldOf(writer[d], ops, l)
        PROVE  ToldOf(writer'[d], ops, l)
    BY <1>1, <1>6, <2>2 DEF ToldOf
  <2>3. PriceTrue(l)'
    <3>. SUFFICES ASSUME excuse' \cap {"replayed", "shadowed", "simulated", "lost", "overlapped"} = {}
                  PROVE  /\ \A d \in Writers : ToldOf(writer'[d], {"update", "markdown", "create"}, l) =>
                               writer'[d].price = shop[l].price
                         /\ listed[l].status \in {"active", "ended"} =>
                               \/ \E d \in Writers : ToldOf(writer'[d], {"update", "markdown"}, l)
                               \/ listed[l].price = shop[l].price
      BY DEF PriceTrue
    <3>1. /\ excuse \cap {"replayed", "shadowed", "simulated", "lost", "overlapped"} = {}
          /\ "lost" \notin excuse'
      OBVIOUS
    <3>. QED BY <1>1, <2>1, <2>2, <3>1 DEF PriceTrue
  <2>4. EndTrue(l)' BY <1>1, <2>1 DEF EndTrue
  <2>5. DownTrue(l)' BY <2>1, <2>2 DEF DownTrue
  <2>. QED BY <2>3, <2>4, <2>5
<1>. QED BY <1>2, <1>3, <1>4, <1>5, <1>7, <1>8, <1>9 DEF UpkeepInv

\* A price is stored, or a refresh: the listing is active in its row.
LEMMA PriceStored ==
  ASSUME UpkeepInv, NEW c \in Writers, writer[c].phase = "sent", writer[c].ok,
         writer[c].op \in {"update", "markdown", "refresh"},
         NEW kept, kept = IF writer[c].op = "refresh" THEN listed["old"].price
                            ELSE writer[c].price,
         listed' = [listed EXCEPT !["old"] = [status |-> "active", price |-> kept]],
         writer' = [writer EXCEPT ![c] = Upkeep!Idle],
         UNCHANGED <<shop, soldUp, toEnd, executing, started, succeeded, listingFaults>>,
         NEW why, excuse' = excuse \cup why,
         why = IF listed["old"].status = "ended" THEN {"revived"} ELSE {}
  PROVE  UpkeepInv'
<1>t. /\ writer \in [Writers -> Upkeeping] /\ writer[c] \in Upkeeping
      /\ listed \in [{"old", "new"} -> Row] /\ listed["old"] \in Row
  BY DEF UpkeepInv, UpkeepTypes
<1>i. /\ Upkeep!Idle \in Upkeeping /\ Upkeep!Idle.phase = "idle" /\ Upkeep!Idle.op = "none"
  BY UpkeepIdle
<1>. PICK q \in Upkeeping : q = Upkeep!Idle BY <1>i
<1>1. /\ writer' \in [Writers -> Upkeeping] /\ writer'[c] = q
      /\ \A d \in Writers \ {c} : writer'[d] = writer[d]
      /\ \A ops, l : \A d \in Writers : ToldOf(writer'[d], ops, l) =>
            ToldOf(writer[d], ops, l) /\ d # c /\ writer'[d] = writer[d]
      /\ \A ops, l : \A d \in Writers : ToldOf(writer[d], ops, l) =>
            d = c \/ (ToldOf(writer'[d], ops, l) /\ writer'[d] = writer[d])
  BY <1>t, <1>i, OthersTold
<1>a. writer[c].at = "old" BY DEF UpkeepInv, Shaped
<1>p. kept \in 1..MaxPrice BY <1>t DEF Row, Upkeeping
<1>2. PICK row : row = [status |-> "active", price |-> kept] OBVIOUS
<1>3. row \in Row /\ row.status = "active" /\ row.price = kept
  BY <1>p, <1>2 DEF Row, Upkeep!RowStatus
<1>4. /\ listed' \in [{"old", "new"} -> Row] /\ listed'["old"] = row
      /\ listed'["new"] = listed["new"]
  BY <1>t, <1>2, <1>3
<1>5. UpkeepTypes' BY <1>1, <1>4 DEF UpkeepInv, UpkeepTypes
<1>6. \A d \in Writers : Shaped(writer[d])' BY <1>1, <1>i DEF UpkeepInv, Shaped
<1>7. Replaced' BY <1>1, <1>i, <1>3, <1>4 DEF UpkeepInv, Replaced, Relister
<1>8. EndedKeys'
  <2>1. "simulated" \notin excuse' => "simulated" \notin excuse OBVIOUS
  <2>. QED BY <2>1 DEF UpkeepInv, EndedKeys
<1>9. ASSUME NEW d \in Writers, NEW l,
             \/ ToldOf(writer[d], {"create"}, l)
             \/ ToldOf(writer[d], {"end", "delist", "relist"}, l)
      PROVE  d # c
  BY <1>9 DEF ToldOf
<1>10. OneUp' BY <1>1, <1>i DEF UpkeepInv, OneUp
<1>11. SaleTrue' BY <1>1, <1>4, <1>i DEF UpkeepInv, SaleTrue
<1>12. PriceTrue("old")'
  <2>. SUFFICES ASSUME excuse' \cap {"replayed", "shadowed", "simulated", "lost", "overlapped"} = {}
                PROVE  /\ \A d \in Writers : ToldOf(writer'[d], {"update", "markdown", "create"}, "old") =>
                             writer'[d].price = shop["old"].price
                       /\ \/ \E d \in Writers : ToldOf(writer'[d], {"update", "markdown"}, "old")
                          \/ listed'["old"].price = shop["old"].price
    BY DEF PriceTrue
  <2>1. excuse \cap {"replayed", "shadowed", "simulated", "lost", "overlapped"} = {} OBVIOUS
  <2>2. /\ \A d \in Writers : ToldOf(writer[d], {"update", "markdown", "create"}, "old") =>
              writer[d].price = shop["old"].price
        /\ \/ \E d \in Writers : ToldOf(writer[d], {"update", "markdown"}, "old")
           \/ listed["old"].price = shop["old"].price
    BY <2>1 DEF UpkeepInv, PriceTrue, Replaced
  <2>3. CASE writer[c].op = "refresh"
    <3>1. \A d \in Writers : ToldOf(writer[d], {"update", "markdown"}, "old") => d # c
      BY <2>3 DEF ToldOf
    <3>. QED BY <1>1, <1>3, <1>4, <2>2, <2>3, <3>1
  <2>4. CASE writer[c].op # "refresh"
    <3>1. ToldOf(writer[c], {"update", "markdown", "create"}, "old") BY <1>a, <2>4 DEF ToldOf
    <3>. QED BY <1>1, <1>3, <1>4, <2>2, <2>4, <3>1
  <2>. QED BY <2>3, <2>4
<1>13. PriceTrue("new")'
  <2>1. PriceTrue("new") BY DEF UpkeepInv
  <2>2. \A ops : \A d \in Writers : ToldOf(writer[d], ops, "new") => d # c BY <1>a DEF ToldOf
  <2>3. \A ops : \A d \in Writers : ToldOf(writer'[d], ops, "new") <=> ToldOf(writer[d], ops, "new")
    BY <1>1, <2>2
  <2>4. excuse' \cap {"replayed", "shadowed", "simulated", "lost", "overlapped"} = {} =>
        excuse \cap {"replayed", "shadowed", "simulated", "lost", "overlapped"} = {}
    OBVIOUS
  <2>. QED BY <1>1, <1>4, <2>1, <2>3, <2>4 DEF PriceTrue
<1>14. ASSUME NEW l \in {"old", "new"} PROVE EndTrue(l)' /\ DownTrue(l)'
  <2>1. EndTrue(l) /\ DownTrue(l) BY DEF UpkeepInv
  <2>2. listed'[l].status = "ended" => listed[l].status = "ended" BY <1>3, <1>4
  <2>3. EndTrue(l)' BY <1>1, <2>1, <2>2 DEF EndTrue
  <2>4. excuse' \cap {"lost", "revived"} = {} =>
          /\ excuse \cap {"lost", "revived"} = {}
          /\ listed["old"].status # "ended"
    OBVIOUS
  <2>5. DownTrue(l)'
    <3>1. excuse' \cap {"lost", "revived"} = {} => (listed[l].status = "ended" => listed'[l].status = "ended")
      BY <1>4, <2>4
    <3>. QED BY <1>1, <1>9, <2>1, <2>4, <3>1 DEF DownTrue
  <2>. QED BY <2>3, <2>5
<1>. QED BY <1>5, <1>6, <1>7, <1>8, <1>10, <1>11, <1>12, <1>13, <1>14 DEF UpkeepInv

\* An end is stored when it was made; a relist then goes on with the replacement.
LEMMA EndStored ==
  ASSUME UpkeepInv, NEW c \in Writers, NEW q \in Upkeeping, writer[c].phase = "sent",
         writer[c].op \in {"end", "delist", "relist"},
         IF writer[c].ok
         THEN listed' = [listed EXCEPT ![writer[c].at] =
                           [status |-> "ended", price |-> listed[writer[c].at].price]]
         ELSE listed' = listed,
         writer' = [writer EXCEPT ![c] = q],
         \/ q = Upkeep!Idle
         \/ /\ writer[c].op = "relist" /\ q.op = "relist" /\ q.phase = "replacing"
            /\ q.at = writer[c].at /\ writer[c].ok /\ writer[c].verified,
         UNCHANGED <<shop, soldUp, toEnd, executing, started, succeeded, listingFaults, excuse>>
  PROVE  UpkeepInv'
<1>t. /\ writer \in [Writers -> Upkeeping] /\ writer[c] \in Upkeeping
      /\ listed \in [{"old", "new"} -> Row]
  BY DEF UpkeepInv, UpkeepTypes
<1>i. Upkeep!Idle.phase = "idle" /\ Upkeep!Idle.op = "none" BY UpkeepIdle
<1>q. q.phase # "sent" /\ q.op \in {"none", "relist"} BY <1>i
<1>1. /\ writer' \in [Writers -> Upkeeping] /\ writer'[c] = q
      /\ \A d \in Writers \ {c} : writer'[d] = writer[d]
      /\ \A ops, l : \A d \in Writers : ToldOf(writer'[d], ops, l) =>
            ToldOf(writer[d], ops, l) /\ d # c /\ writer'[d] = writer[d]
      /\ \A ops, l : \A d \in Writers : ToldOf(writer[d], ops, l) =>
            d = c \/ (ToldOf(writer'[d], ops, l) /\ writer'[d] = writer[d])
  BY <1>t, <1>q, OthersTold
<1>2. PICK k : k = writer[c].at OBVIOUS
<1>3. k \in {"old", "new"} /\ listed[k] \in Row BY <1>t, <1>2 DEF Upkeeping
<1>4. PICK row : row = [status |-> "ended", price |-> listed[k].price] OBVIOUS
<1>5. row \in Row /\ row.status = "ended" /\ row.price = listed[k].price
  BY <1>3, <1>4 DEF Row, Upkeep!RowStatus
<1>6. /\ listed' \in [{"old", "new"} -> Row]
      /\ \A l \in {"old", "new"} : listed'[l].price = listed[l].price
      /\ \A l \in {"old", "new"} : l # k \/ ~writer[c].ok => listed'[l] = listed[l]
      /\ writer[c].ok => listed'[k].status = "ended"
  <2>1. CASE writer[c].ok
    <3>1. listed' = [listed EXCEPT ![k] = row] BY <1>2, <1>4, <2>1
    <3>. QED BY <1>t, <1>3, <1>5, <2>1, <3>1
  <2>2. CASE ~writer[c].ok BY <1>t, <2>2
  <2>. QED BY <2>1, <2>2
<1>7. UpkeepTypes' BY <1>1, <1>6 DEF UpkeepInv, UpkeepTypes
<1>8. Shaped(writer[c]) /\ Shaped(q) BY <1>i DEF UpkeepInv, Shaped
<1>9. \A d \in Writers : Shaped(writer[d])' BY <1>1, <1>8 DEF UpkeepInv
<1>r. k = "new" => listed["new"].status \in {"active", "ended"}
  BY <1>2, <1>8 DEF UpkeepInv, Replaced, Relister, Shaped
<1>s. /\ listed'["new"].status \in {listed["new"].status, "ended"}
      /\ listed["new"].status \notin {"active", "ended"} => listed'["new"] = listed["new"]
      /\ listed'["old"].status \in {"active", "ended"}
  <2>1. listed["old"].status \in {"active", "ended"} BY DEF UpkeepInv, Replaced
  <2>. QED BY <1>3, <1>6, <1>r, <2>1
<1>m. ASSUME NEW d \in Writers PROVE Relister(writer[d])'
  <2>1. Relister(writer[d]) /\ Relister(writer[c]) BY DEF UpkeepInv, Replaced
  <2>2. CASE d = c BY <1>1, <1>i, <1>s, <2>1, <2>2 DEF Relister
  <2>3. CASE d # c
    <3>1. writer'[d] = writer[d] BY <1>1, <2>3
    <3>. QED BY <1>s, <2>1, <3>1 DEF Relister
  <2>. QED BY <2>2, <2>3
<1>10. Replaced'
  <2>1. listed'["new"].status = "none" => listed["new"].status = "none" BY <1>s
  <2>2. "new" \in toEnd => listed'["new"].status \in {"active", "ended"}
    BY <1>s DEF UpkeepInv, Replaced
  <2>3. \A d \in Writers : writer'[d].op \in {"relist", "create"} =>
                              writer[d].op \in {"relist", "create"}
    BY <1>1, <1>i
  <2>. QED BY <1>s, <1>m, <2>1, <2>2, <2>3 DEF UpkeepInv, Replaced
<1>11. EndedKeys' BY DEF UpkeepInv, EndedKeys
<1>12. \A d \in Writers, l \in {"old", "new"} : ToldOf(writer[d], {"update", "markdown", "create"}, l)
          \/ ToldOf(writer[d], {"update", "markdown"}, l) \/ ToldOf(writer[d], {"create"}, l) => d # c
  BY DEF ToldOf
<1>13. OneUp'
  <2>. SUFFICES ASSUME "simulated" \notin excuse PROVE OneUp' BY DEF OneUp
  <2>1. OneUp BY DEF UpkeepInv
  <2>2. q.phase = "replacing" => shop["old"].status = "ended"
    <3>. SUFFICES ASSUME q.phase = "replacing" PROVE shop["old"].status = "ended" OBVIOUS
    <3>1. writer[c].op = "relist" /\ writer[c].verified BY <1>i
    <3>2. writer[c].at = "old" BY <1>8, <3>1 DEF Shaped
    <3>. QED BY <2>1, <3>1, <3>2 DEF OneUp
  <2>. QED BY <1>1, <1>q, <2>1, <2>2 DEF OneUp
<1>14. SaleTrue'
  <2>1. \A d \in Writers : writer[d].phase = "loaded" => writer'[d] = writer[d] BY <1>1
  <2>2. listed["new"].status \in {"publishing", "failed"} => listed'["new"] = listed["new"]
    BY <1>s
  <2>. QED BY <2>1, <2>2 DEF UpkeepInv, SaleTrue
<1>15. ASSUME NEW l \in {"old", "new"} PROVE PriceTrue(l)' /\ EndTrue(l)' /\ DownTrue(l)'
  <2>1. PriceTrue(l) /\ EndTrue(l) /\ DownTrue(l) BY DEF UpkeepInv
  <2>2. PriceTrue(l)'
    <3>1. listed'[l].status \in {"active", "ended"} => listed[l].status \in {"active", "ended"}
      BY <1>3, <1>6, <1>r DEF UpkeepInv, Replaced
    <3>2. listed'[l].price = listed[l].price BY <1>6
    <3>. QED BY <1>1, <1>12, <2>1, <3>1, <3>2 DEF PriceTrue
  <2>3. CASE l = k /\ writer[c].ok
    <3>1. ToldOf(writer[c], {"end", "delist", "relist"}, l) BY <1>2, <2>3 DEF ToldOf
    <3>2. EndTrue(l)' BY <1>1, <2>1, <3>1 DEF EndTrue
    <3>3. DownTrue(l)' BY <1>6, <2>3 DEF DownTrue
    <3>. QED BY <2>2, <3>2, <3>3
  <2>4. CASE l # k \/ ~writer[c].ok
    <3>1. ~ToldOf(writer[c], {"end", "delist", "relist"}, l) BY <1>2, <2>4 DEF ToldOf
    <3>2. listed'[l] = listed[l] BY <1>6, <2>4
    <3>. QED BY <1>1, <2>1, <2>2, <3>1, <3>2 DEF EndTrue, DownTrue
  <2>. QED BY <2>3, <2>4
<1>. QED BY <1>7, <1>9, <1>10, <1>11, <1>13, <1>14, <1>15 DEF UpkeepInv

\* The row of the replacement is inserted, or made active or failed.
LEMMA ReplacementRow ==
  ASSUME UpkeepInv, NEW c \in Writers, NEW q \in Upkeeping, NEW row \in Row,
         listed' = [listed EXCEPT !["new"] = row], writer' = [writer EXCEPT ![c] = q],
         UNCHANGED <<shop, soldUp, toEnd, executing, started, succeeded, listingFaults>>,
         NEW why, excuse' = excuse \cup why, why \subseteq {"adopted"},
         \/ /\ writer[c].phase = "replacing" /\ row.status = "publishing" /\ row.price = q.price
            /\ q.op = "create" /\ q.at = "new" /\ q.phase = "loaded"
         \/ /\ writer[c].phase = "sent" /\ writer[c].op = "create" /\ q = Upkeep!Idle
            /\ row.status = IF writer[c].ok THEN "active" ELSE "failed"
            /\ row.price = listed["new"].price /\ (soldUp /\ writer[c].ok => "adopted" \in why)
  PROVE  UpkeepInv'
<1>t. /\ writer \in [Writers -> Upkeeping] /\ listed \in [{"old", "new"} -> Row]
  BY DEF UpkeepInv, UpkeepTypes
<1>i. Upkeep!Idle.phase = "idle" /\ Upkeep!Idle.op = "none" BY UpkeepIdle
<1>q. q.phase # "sent" BY <1>i
<1>1. /\ writer' \in [Writers -> Upkeeping] /\ writer'[c] = q
      /\ \A d \in Writers \ {c} : writer'[d] = writer[d]
      /\ \A ops, l : \A d \in Writers : ToldOf(writer'[d], ops, l) =>
            ToldOf(writer[d], ops, l) /\ d # c /\ writer'[d] = writer[d]
      /\ \A ops, l : \A d \in Writers : ToldOf(writer[d], ops, l) =>
            d = c \/ (ToldOf(writer'[d], ops, l) /\ writer'[d] = writer[d])
  BY ZenonT(30), <1>t, <1>q, OthersTold
<1>2. /\ listed' \in [{"old", "new"} -> Row] /\ listed'["new"] = row
      /\ listed'["old"] = listed["old"]
  BY <1>t
<1>s. Shaped(writer[c]) /\ Relister(writer[c]) BY DEF UpkeepInv, Replaced
<1>3. /\ writer[c].op \in {"relist", "create"} /\ q.op \in {"create", "none"}
      /\ listed["new"].status \in {"none", "publishing", "failed"}
      /\ shop["new"].status # "ended"
      /\ writer[c].op = "relist" => listed["new"].status \in {"none", "failed"}
  BY <1>i, <1>s DEF UpkeepInv, Replaced, Shaped, Relister
<1>4. UpkeepTypes'
  <2>1. excuse' \subseteq {"replayed", "shadowed", "overlapped", "lost", "refused",
                          "simulated", "revived", "adopted"}
    BY DEF UpkeepInv, UpkeepTypes
  <2>. QED BY <1>1, <1>2, <2>1 DEF UpkeepInv, UpkeepTypes
<1>5. \A d \in Writers : Shaped(writer[d])'
  <2>1. Shaped(q) BY <1>i DEF Shaped
  <2>. QED BY <1>1, <2>1 DEF UpkeepInv
<1>6. \A d \in Writers \ {c} : writer[d].op \notin {"relist", "create"}
  BY <1>3 DEF UpkeepInv, Replaced
<1>7. ASSUME NEW d \in Writers PROVE Relister(writer[d])'
  <2>1. CASE d = c
    <3>1. CASE writer[c].phase = "replacing"
      <4>1. writer[c].op = "relist" BY <1>s, <3>1 DEF Shaped
      <4>. QED BY <1>1, <1>2, <1>3, <2>1, <3>1, <4>1 DEF Relister
    <3>2. CASE writer[c].phase = "sent" BY <1>1, <1>i, <2>1, <3>2 DEF Relister
    <3>. QED BY <3>1, <3>2
  <2>2. CASE d # c
    <3>1. Relister(writer[d]) BY DEF UpkeepInv, Replaced
    <3>2. ~(writer[d].op = "delist" /\ writer[d].at = "new") BY <1>3, <3>1 DEF Relister
    <3>. QED BY <1>1, <1>6, <2>2, <3>2 DEF Relister
  <2>. QED BY <2>1, <2>2
<1>8. Replaced'
  <2>1. "new" \notin toEnd BY <1>3 DEF UpkeepInv, Replaced
  <2>2. row.status # "none" OBVIOUS
  <2>3. \A d, e \in Writers : ( /\ writer'[d].op \in {"relist", "create"}
                                /\ writer'[e].op \in {"relist", "create"} ) => d = e
    BY <1>1, <1>6
  <2>4. listed'["old"].status \in {"active", "ended"} BY <1>2 DEF UpkeepInv, Replaced
  <2>5. listed'["new"].status # "none" /\ shop'["new"].status # "ended" BY <1>2, <1>3, <2>2
  <2>. QED BY <1>7, <2>1, <2>3, <2>4, <2>5 DEF Replaced
<1>9. EndedKeys'
  <2>1. "simulated" \notin excuse' => "simulated" \notin excuse OBVIOUS
  <2>. QED BY <2>1 DEF UpkeepInv, EndedKeys
<1>10. OneUp'
  <2>1. writer[c].op = "create" \/ writer[c].phase = "replacing" OBVIOUS
  <2>2. "simulated" \notin excuse' => "simulated" \notin excuse OBVIOUS
  <2>3. \A d \in Writers \ {c} : writer'[d] = writer[d] BY <1>1
  <2>. QED BY <1>1, <1>i, <1>q, <2>1, <2>2, <2>3 DEF UpkeepInv, OneUp
<1>11. SaleTrue'
  <2>1. \A d \in Writers : writer[d].op = "delist" => writer'[d] = writer[d] BY <1>1, <1>3
  <2>2. soldUp /\ "adopted" \notin excuse' => row.status \in {"publishing", "failed"}
    OBVIOUS
  <2>3. listed'["new"].status = row.status BY <1>2
  <2>. QED BY <2>1, <2>2, <2>3 DEF UpkeepInv, SaleTrue
<1>o. \A ops : \A d \in Writers : ToldOf(writer[d], ops, "old") => d # c
  BY <1>s, <1>3 DEF ToldOf, Shaped
<1>e. /\ excuse' \cap {"replayed", "shadowed", "simulated", "lost", "overlapped"} = {} => excuse \cap {"replayed", "shadowed", "simulated", "lost", "overlapped"} = {}
      /\ excuse' \cap {"shadowed", "simulated"} = {} => excuse \cap {"shadowed", "simulated"} = {}
      /\ excuse' \cap {"lost", "revived"} = {} => excuse \cap {"lost", "revived"} = {}
  OBVIOUS
<1>12. PriceTrue("old")' /\ EndTrue("old")' /\ DownTrue("old")'
  <2>1. PriceTrue("old") /\ EndTrue("old") /\ DownTrue("old") BY DEF UpkeepInv
  <2>2. CASE writer[c].op = "create"
    <3>1. \A ops : \A d \in Writers : ToldOf(writer'[d], ops, "old") <=> ToldOf(writer[d], ops, "old")
      BY <1>1, <1>s, <2>2 DEF ToldOf, Shaped
    <3>. QED BY <1>1, <1>2, <1>e, <2>1, <3>1 DEF PriceTrue, EndTrue, DownTrue
  <2>3. CASE writer[c].op = "relist"
    <3>1. writer[c].phase = "replacing" BY <2>3
    <3>2. \A ops : \A d \in Writers : ToldOf(writer'[d], ops, "old") <=> ToldOf(writer[d], ops, "old")
      BY <1>1, <3>1 DEF ToldOf
    <3>. QED BY <1>1, <1>2, <1>e, <2>1, <3>2 DEF PriceTrue, EndTrue, DownTrue
  <2>. QED BY <1>3, <2>2, <2>3
<1>13. PriceTrue("new")'
  <2>. SUFFICES ASSUME excuse' \cap {"replayed", "shadowed", "simulated", "lost", "overlapped"} = {}
                PROVE  /\ \A d \in Writers : ToldOf(writer'[d], {"update", "markdown", "create"}, "new") =>
                             writer'[d].price = shop["new"].price
                       /\ row.status \in {"active", "ended"} => row.price = shop["new"].price
    BY <1>2 DEF PriceTrue
  <2>1. \A d \in Writers : ToldOf(writer[d], {"update", "markdown", "create"}, "new") =>
           writer[d].price = shop["new"].price
    <3>1. excuse \cap {"replayed", "shadowed", "simulated", "lost", "overlapped"} = {} OBVIOUS
    <3>. QED BY <3>1 DEF UpkeepInv, PriceTrue
  <2>2. ASSUME row.status \in {"active", "ended"} PROVE row.price = shop["new"].price
    <3>1. ToldOf(writer[c], {"update", "markdown", "create"}, "new")
      BY <1>s, <2>2 DEF ToldOf, Shaped
    <3>2. writer[c].price = listed["new"].price BY <1>s, <2>2 DEF Relister
    <3>. QED BY <2>1, <2>2, <3>1, <3>2
  <2>. QED BY <1>1, <2>1, <2>2
<1>14. EndTrue("new")' /\ DownTrue("new")'
  <2>1. EndTrue("new") /\ DownTrue("new") BY DEF UpkeepInv
  <2>2. row.status # "ended" OBVIOUS
  <2>3. EndTrue("new")' BY <1>1, <1>2, <1>e, <2>1, <2>2 DEF EndTrue
  <2>4. shop["new"].status # "ended" BY <1>3
  <2>. QED BY <2>3, <2>4 DEF DownTrue
<1>. QED BY <1>4, <1>5, <1>8, <1>9, <1>10, <1>11, <1>12, <1>13, <1>14 DEF UpkeepInv

\* The item is reserved, and what is active is to be ended.
LEMMA ReserveStep == ASSUME UpkeepInv, Upkeep!Reserve PROVE UpkeepInv'
<1>1. /\ UNCHANGED <<listed, shop, writer, executing, succeeded, listingFaults, excuse, started>>
      /\ soldUp' = TRUE /\ toEnd' = {l \in {"old", "new"} : listed[l].status = "active"}
  BY DEF Upkeep!Reserve, Upkeep!ReserveItem, Upkeep!rest, Upkeep!keys, Upkeep!Listing
<1>2. UpkeepTypes'
  <2>1. toEnd' \subseteq {"old", "new"} BY <1>1
  <2>. QED BY <1>1, <2>1 DEF UpkeepInv, UpkeepTypes
<1>3. Replaced' BY <1>1 DEF UpkeepInv, Replaced, Relister
<1>4. EndedKeys' /\ OneUp' BY <1>1 DEF UpkeepInv, EndedKeys, OneUp
<1>5. \A c \in Writers : Shaped(writer[c])' BY <1>1 DEF UpkeepInv
<1>6. ASSUME NEW l \in {"old", "new"} PROVE PriceTrue(l)' /\ EndTrue(l)' /\ DownTrue(l)'
  BY <1>1 DEF UpkeepInv, PriceTrue, EndTrue, DownTrue
<1>7. SaleTrue'
  <2>. SUFFICES ASSUME excuse \cap {"refused", "shadowed", "simulated", "adopted"} = {},
                       NEW l \in {"old", "new"}, shop[l].status = "live"
                PROVE  l \in toEnd' \/ (l = "new" /\ listed[l].status \in {"publishing", "failed"})
    BY <1>1 DEF SaleTrue
  <2>1. listed[l].status # "ended"
    <3>1. excuse \cap {"shadowed", "simulated"} = {} OBVIOUS
    <3>. QED BY <3>1 DEF UpkeepInv, EndTrue
  <2>2. /\ listed["old"].status \in {"active", "ended"}
        /\ listed["new"].status # "none" \/ l = "old"
        /\ listed["new"].status \in {"none", "publishing", "active", "failed", "ended"}
    BY DEF UpkeepInv, UpkeepTypes, Row, Upkeep!RowStatus, Replaced
  <2>. QED BY <1>1, <2>1, <2>2
<1>. QED BY <1>2, <1>3, <1>4, <1>5, <1>6, <1>7 DEF UpkeepInv

\* The mode is changed, or nothing of the upkeep is.
LEMMA ModeRest ==
  ASSUME UpkeepInv, UNCHANGED <<listed, shop, soldUp, toEnd, writer, succeeded, started, excuse>>,
         executing' \in BOOLEAN, listingFaults' \in 0..MaxListingFaults
  PROVE  UpkeepInv'
<1>1. UpkeepTypes' BY DEF UpkeepInv, UpkeepTypes
<1>2. Replaced' /\ EndedKeys' /\ OneUp'
  BY DEF UpkeepInv, Replaced, Relister, EndedKeys, OneUp
<1>3. SaleTrue' BY DEF UpkeepInv, SaleTrue
<1>4. \A l \in {"old", "new"} : PriceTrue(l)' /\ EndTrue(l)' /\ DownTrue(l)'
  BY DEF UpkeepInv, PriceTrue, EndTrue, DownTrue
<1>. QED BY <1>1, <1>2, <1>3, <1>4 DEF UpkeepInv

\* What a caller takes up is an operation of one of the listings.
LEMMA BeginStep ==
  ASSUME UpkeepInv, NEW c \in Writers, NEW op \in Upkeep!Operation, NEW l \in {"old", "new"},
         NEW p \in 1..MaxPrice, Upkeep!Begin(c, op, l, p),
         UNCHANGED <<listed, shop, soldUp, executing, succeeded, listingFaults, excuse>>,
         \/ op \in {"update", "markdown", "refresh", "end"} /\ l = "old" /\ toEnd' = toEnd
         \/ /\ op = "relist" /\ l = "old" /\ toEnd' = toEnd /\ ~soldUp
            /\ listed["new"].status \in {"none", "failed"}
            /\ \A d \in Writers : writer[d].op \notin {"relist", "create"}
         \/ op = "delist" /\ l \in toEnd /\ toEnd' = toEnd \ {l}
  PROVE  UpkeepInv'
<1>. PICK u : u = [Upkeep!Idle EXCEPT !.phase = "loaded", !.op = op] OBVIOUS
<1>1. u \in Upkeeping /\ u.phase = "loaded" /\ u.op = op BY UpkeepIdle DEF Upkeeping
<1>. PICK q : q = [u EXCEPT !.at = l, !.price = p] OBVIOUS
<1>2. q \in Upkeeping /\ q.phase = "loaded" /\ q.op = op /\ q.at = l
  BY <1>1 DEF Upkeeping
<1>e. [Upkeep!Idle EXCEPT !.phase = "loaded", !.op = op, !.at = l, !.price = p] = q
  OBVIOUS
<1>3. /\ writer[c].phase = "idle" /\ writer' = [writer EXCEPT ![c] = q]
      /\ started < MaxStarted /\ started' = started + 1
  BY <1>e DEF Upkeep!Begin, Upkeep!At
<1>4. started' \in 0..MaxStarted
  BY <1>3, ListingsAssumption DEF UpkeepInv, UpkeepTypes
<1>. QED BY <1>2, <1>3, <1>4, TakeUp

\* Every caller loads the listing and takes up its operation.
LEMMA TakeStep ==
  ASSUME UpkeepInv, NEW c \in Writers,
         \/ Upkeep!LoadUpdate(c) \/ Upkeep!LoadMarkdown(c) \/ Upkeep!LoadRefresh(c)
         \/ Upkeep!LoadEnd(c) \/ Upkeep!LoadRelist(c) \/ Upkeep!LoadDelist(c)
  PROVE  UpkeepInv'
<1>t. /\ listed["old"] \in Row /\ toEnd \subseteq {"old", "new"} /\ listed["old"].price \in 1..MaxPrice
      /\ 1 \in 1..MaxPrice
      /\ {"update", "markdown", "refresh", "end", "relist", "delist"} \subseteq Upkeep!Operation
  BY ListingsAssumption DEF UpkeepInv, UpkeepTypes, Row, Upkeep!Operation, Upkeep!Priced
<1>u. ASSUME UNCHANGED <<Upkeep!rows, Upkeep!rest>>
      PROVE  UNCHANGED <<listed, shop, soldUp, executing, succeeded, listingFaults, excuse, toEnd>>
  BY <1>u DEF Upkeep!rows, Upkeep!rest, Upkeep!keys
<1>1. CASE Upkeep!LoadUpdate(c)
  <2>1. PICK p \in 1..MaxPrice : Upkeep!Begin(c, "update", "old", p)
    BY <1>1 DEF Upkeep!LoadUpdate, Upkeep!Price
  <2>. QED BY <1>t, <1>u, <1>1, <2>1, BeginStep DEF Upkeep!LoadUpdate
<1>2. CASE Upkeep!LoadMarkdown(c)
  <2>1. PICK p \in 1..(listed["old"].price - 1) : Upkeep!Begin(c, "markdown", "old", p)
    BY <1>2 DEF Upkeep!LoadMarkdown
  <2>2. p \in 1..MaxPrice
    <3>1. PICK m \in 1..MaxPrice : m = listed["old"].price BY <1>t
    <3>2. p \in 1..(m - 1) BY <2>1, <3>1
    <3>. QED BY ONLY <3>2, m \in 1..MaxPrice, ListingsAssumption
  <2>. QED BY <1>t, <1>u, <1>2, <2>1, <2>2, BeginStep DEF Upkeep!LoadMarkdown
<1>3. CASE Upkeep!LoadRefresh(c)
  BY <1>t, <1>u, <1>3, BeginStep DEF Upkeep!LoadRefresh
<1>4. CASE Upkeep!LoadEnd(c)
  BY <1>t, <1>u, <1>4, BeginStep DEF Upkeep!LoadEnd
<1>5. CASE Upkeep!LoadRelist(c)
  BY <1>t, <1>u, <1>5, BeginStep DEF Upkeep!LoadRelist
<1>6. CASE Upkeep!LoadDelist(c)
  <2>1. PICK l \in toEnd : Upkeep!Begin(c, "delist", l, 1) /\ toEnd' = toEnd \ {l}
    BY <1>6 DEF Upkeep!LoadDelist
  <2>2. UNCHANGED <<listed, shop, soldUp, executing, succeeded, listingFaults, excuse>>
    BY <1>6 DEF Upkeep!LoadDelist, Upkeep!rest, Upkeep!keys
  <2>. QED BY <1>t, <2>1, <2>2, BeginStep
<1>. QED BY <1>1, <1>2, <1>3, <1>4, <1>5, <1>6

\* The gateway makes a caller's write or does not, and answers it.
LEMMA WriteStep == ASSUME UpkeepInv, NEW c \in Writers, Upkeep!Write(c) PROVE UpkeepInv'
<1>t. /\ writer \in [Writers -> Upkeeping] /\ writer[c] \in Upkeeping
      /\ listingFaults \in 0..MaxListingFaults
  BY DEF UpkeepInv, UpkeepTypes
<1>1. /\ writer[c].phase = "loaded"
      /\ UNCHANGED <<listed, soldUp, toEnd, executing, started>>
  BY DEF Upkeep!Write, Upkeep!At
<1>a. ASSUME NEW ok \in BOOLEAN, NEW verified \in BOOLEAN, Upkeep!Answered(c, ok, verified)
      PROVE  \E q \in Upkeeping :
                /\ writer' = [writer EXCEPT ![c] = q] /\ q.phase = "sent"
                /\ q.ok = ok /\ q.verified = verified
                /\ q.op = writer[c].op /\ q.at = writer[c].at /\ q.price = writer[c].price
  <2>1. PICK q : q = [writer[c] EXCEPT !.phase = "sent", !.ok = ok, !.verified = verified] OBVIOUS
  <2>2. /\ q \in Upkeeping /\ q.phase = "sent" /\ q.ok = ok /\ q.verified = verified
        /\ q.op = writer[c].op /\ q.at = writer[c].at /\ q.price = writer[c].price
    BY <1>t, <2>1 DEF Upkeeping
  <2>3. writer'[c] = q BY <1>t, <1>a, <2>1 DEF Upkeep!Answered, Upkeeping
  <2>4. writer' = [writer EXCEPT ![c] = q] BY <1>t, <1>a, <2>3 DEF Upkeep!Answered
  <2>. QED BY <2>2, <2>4
<1>f. Upkeep!Fault => listingFaults' \in 0..MaxListingFaults
  BY <1>t, ListingsAssumption DEF Upkeep!Fault
<1>2. CASE Upkeep!Replay(c)
  <2>. PICK why : why = IF Upkeep!Untold(c) THEN {"replayed"} ELSE {} OBVIOUS
  <2>1. /\ excuse' = excuse \cup why /\ why \subseteq {"replayed", "shadowed", "refused", "simulated"}
        /\ Upkeep!Key(c) \in succeeded /\ succeeded' = succeeded /\ shop' = shop
        /\ \/ "replayed" \in why
           \/ Upkeep!Applied(c) = shop[writer[c].at]
    BY <1>2 DEF Upkeep!Replay, Upkeep!Excused, Upkeep!Untold, Upkeep!Replayed, Upkeep!keys
  <2>0. \E sure \in BOOLEAN : Upkeep!Answered(c, TRUE, sure)
    <3>1. (Upkeep!Key(c) \in confirmed) \in BOOLEAN OBVIOUS
    <3>2. Upkeep!Answered(c, TRUE, Upkeep!Key(c) \in confirmed) BY <1>2 DEF Upkeep!Replay
    <3>. QED BY <3>1, <3>2
  <2>2. PICK q \in Upkeeping :
                /\ writer' = [writer EXCEPT ![c] = q] /\ q.phase = "sent"
                /\ q.ok = TRUE
                /\ q.op = writer[c].op /\ q.at = writer[c].at /\ q.price = writer[c].price
    BY <1>a, <2>0
  <2>3. listingFaults' \in 0..MaxListingFaults BY <1>t, <1>2 DEF Upkeep!Replay
  <2>. QED BY <1>1, <2>1, <2>2, <2>3, WriteUnmade
<1>3. CASE Upkeep!Shadowed(c)
  <2>1. PICK q \in Upkeeping :
                /\ writer' = [writer EXCEPT ![c] = q] /\ q.phase = "sent"
                /\ q.ok = (writer[c].op # "create") /\ q.verified = FALSE
                /\ q.op = writer[c].op /\ q.at = writer[c].at /\ q.price = writer[c].price
    BY <1>3, <1>a DEF Upkeep!Shadowed
  <2>2. excuse' = excuse \cup {"shadowed"} /\ succeeded' = succeeded /\ shop' = shop
    BY <1>3 DEF Upkeep!Shadowed, Upkeep!Excused, Upkeep!keys
  <2>3. listingFaults' \in 0..MaxListingFaults BY <1>t, <1>3 DEF Upkeep!Shadowed
  <2>4. ~(~q.ok /\ q.op = "delist") BY <2>1
  <2>. QED BY <1>1, <2>1, <2>2, <2>3, <2>4, WriteUnmade
<1>4. CASE Upkeep!Verified(c)
  <2>. PICK why : why = IF Upkeep!Overlaps(c) THEN {"overlapped"} ELSE {} OBVIOUS
  <2>1. /\ excuse' = excuse \cup why /\ Upkeep!Apply(c) /\ writer[c].op # "create"
        /\ succeeded' = succeeded \cup {Upkeep!Key(c)}
    BY <1>4 DEF Upkeep!Verified, Upkeep!Excused, Upkeep!Recorded
  <2>2. PICK q \in Upkeeping :
                /\ writer' = [writer EXCEPT ![c] = q] /\ q.phase = "sent"
                /\ q.ok = TRUE /\ q.verified = TRUE
                /\ q.op = writer[c].op /\ q.at = writer[c].at /\ q.price = writer[c].price
    BY <1>4, <1>a DEF Upkeep!Verified
  <2>3. listingFaults' \in 0..MaxListingFaults BY <1>t, <1>4 DEF Upkeep!Verified
  <2>. QED BY <1>1, <2>1, <2>2, <2>3, WriteMade
<1>5. CASE Upkeep!Unverified(c) \/ Upkeep!Lost(c)
  <2>1. /\ Upkeep!Apply(c) /\ Upkeep!Answered(c, FALSE, FALSE)
        /\ succeeded' \in {succeeded, succeeded \cup {Upkeep!Key(c)}}
    BY <1>5 DEF Upkeep!Unverified, Upkeep!Lost, Upkeep!Recorded, Upkeep!keys
  <2>2. \/ writer[c].op = "create" /\ UNCHANGED <<excuse, listingFaults>>
        \/ Upkeep!Fault /\ Upkeep!Excused({"lost"})
    BY <1>5 DEF Upkeep!Unverified, Upkeep!Lost
  <2>3. PICK q \in Upkeeping :
                /\ writer' = [writer EXCEPT ![c] = q] /\ q.phase = "sent"
                /\ q.ok = FALSE /\ q.verified = FALSE
                /\ q.op = writer[c].op /\ q.at = writer[c].at /\ q.price = writer[c].price
    BY <2>1, <1>a
  <2>4. listingFaults' \in 0..MaxListingFaults BY <1>t, <1>f, <2>2
  <2>5. CASE writer[c].op = "create" /\ UNCHANGED <<excuse, listingFaults>>
    <3>1. excuse' = excuse \cup {} BY <2>5
    <3>. QED BY <1>1, <2>1, <2>3, <2>4, <2>5, <3>1, WriteMade
  <2>6. CASE Upkeep!Fault /\ Upkeep!Excused({"lost"})
    <3>1. excuse' = excuse \cup {"lost"} BY <2>6 DEF Upkeep!Excused
    <3>. QED BY <1>1, <2>1, <2>3, <2>4, <3>1, WriteMade
  <2>. QED BY <2>2, <2>5, <2>6
<1>6. CASE Upkeep!Refused(c)
  <2>. PICK why : why = IF writer[c].op = "delist" THEN {"refused"} ELSE {} OBVIOUS
  <2>1. excuse' = excuse \cup why /\ succeeded' = succeeded /\ shop' = shop
    BY <1>6 DEF Upkeep!Refused, Upkeep!Excused, Upkeep!keys
  <2>2. PICK q \in Upkeeping :
                /\ writer' = [writer EXCEPT ![c] = q] /\ q.phase = "sent"
                /\ q.ok = FALSE /\ q.verified = FALSE
                /\ q.op = writer[c].op /\ q.at = writer[c].at /\ q.price = writer[c].price
    BY <1>6, <1>a DEF Upkeep!Refused
  <2>3. listingFaults' \in 0..MaxListingFaults BY <1>6, <1>f DEF Upkeep!Refused
  <2>. QED BY <1>1, <2>1, <2>2, <2>3, WriteUnmade
<1>7. CASE Upkeep!Simulated(c)
  <2>1. excuse' = excuse \cup {"simulated"} /\ shop' = shop
    BY <1>7 DEF Upkeep!Simulated, Upkeep!Excused
  <2>2. \E ok \in BOOLEAN : /\ Upkeep!Answered(c, ok, ok)
                             /\ (ok \/ writer[c].op = "create")
    BY <1>7 DEF Upkeep!Simulated
  <2>3. PICK q \in Upkeeping :
                /\ writer' = [writer EXCEPT ![c] = q] /\ q.phase = "sent"
                /\ (q.ok \/ writer[c].op = "create")
                /\ q.op = writer[c].op /\ q.at = writer[c].at /\ q.price = writer[c].price
    BY <2>2, <1>a
  <2>4. listingFaults' \in 0..MaxListingFaults BY <1>7, <1>f DEF Upkeep!Simulated
  <2>5. ~(~q.ok /\ q.op = "delist") BY <2>3
  <2>. QED BY <1>1, <2>1, <2>3, <2>4, <2>5, WriteUnmade
<1>. QED BY <1>2, <1>3, <1>4, <1>5, <1>6, <1>7 DEF Upkeep!Write

\* Every caller stores what it was told, or dies.
LEMMA UpkeepStore ==
  ASSUME UpkeepInv, NEW c \in Writers,
         \/ Upkeep!Store(c) \/ Upkeep!StoreRefresh(c) \/ Upkeep!StoreEnd(c)
         \/ Upkeep!CreateReplacement(c) \/ Upkeep!StoreReplacement(c) \/ Upkeep!WriterDies(c)
  PROVE  UpkeepInv'
<1>t. /\ writer \in [Writers -> Upkeeping] /\ writer[c] \in Upkeeping
      /\ listed \in [{"old", "new"} -> Row] /\ listed["new"] \in Row
      /\ listingFaults \in 0..MaxListingFaults /\ Shaped(writer[c])
  BY DEF UpkeepInv, UpkeepTypes
<1>i. Upkeep!Idle \in Upkeeping BY UpkeepIdle
<1>1. CASE Upkeep!Store(c) \/ Upkeep!StoreRefresh(c)
  <2>1. /\ writer[c].phase = "sent" /\ writer[c].op \in {"update", "markdown", "refresh"}
        /\ writer' = [writer EXCEPT ![c] = Upkeep!Idle] /\ writer[c].at = "old"
        /\ UNCHANGED <<shop, soldUp, toEnd, executing, succeeded, listingFaults, started>>
    BY <1>1, <1>t DEF Upkeep!Store, Upkeep!StoreRefresh, Upkeep!At, Upkeep!Done, Upkeep!Priced,
                      Upkeep!keys, Shaped
  <2>2. CASE writer[c].ok
    <3>. PICK kept : kept = IF writer[c].op = "refresh" THEN listed["old"].price ELSE writer[c].price
      OBVIOUS
    <3>. PICK why : why = IF listed["old"].status = "ended" THEN {"revived"} ELSE {} OBVIOUS
    <3>1. excuse' = excuse \cup why
      BY <1>1, <2>1, <2>2 DEF Upkeep!Store, Upkeep!StoreRefresh, Upkeep!Excused
    <3>2. listed' = [listed EXCEPT !["old"] = [status |-> "active", price |-> kept]]
      BY <1>1, <2>1, <2>2 DEF Upkeep!Store, Upkeep!StoreRefresh, Upkeep!SetStatus, Upkeep!Priced
    <3>. QED BY <2>1, <2>2, <3>1, <3>2, PriceStored
  <2>3. CASE ~writer[c].ok
    <3>1. UNCHANGED <<listed, excuse>>
      BY <1>1, <2>3 DEF Upkeep!Store, Upkeep!StoreRefresh
    <3>2. excuse' = excuse \cup {} /\ writer[c].phase # "idle" /\ writer[c].op # "delist"
          /\ listingFaults' \in 0..MaxListingFaults
      BY <1>t, <2>1, <3>1
    <3>. QED BY <2>1, <2>3, <3>1, <3>2, GiveUp
  <2>. QED BY <1>t, <2>2, <2>3 DEF Upkeeping
<1>2. CASE Upkeep!StoreEnd(c)
  <2>1. /\ writer[c].phase = "sent" /\ writer[c].op \in {"end", "delist", "relist"}
        /\ IF writer[c].ok
           THEN listed' = [listed EXCEPT ![writer[c].at] =
                             [status |-> "ended", price |-> listed[writer[c].at].price]]
           ELSE listed' = listed
        /\ UNCHANGED <<shop, soldUp, toEnd, executing, started, succeeded, listingFaults, excuse>>
    BY <1>2 DEF Upkeep!StoreEnd, Upkeep!At, Upkeep!Ending, Upkeep!SetStatus, Upkeep!rest, Upkeep!keys
  <2>2. CASE Upkeep!Done(c)
    <3>1. writer' = [writer EXCEPT ![c] = Upkeep!Idle] BY <2>2 DEF Upkeep!Done
    <3>. QED BY <1>i, <2>1, <3>1, EndStored
  <2>3. CASE /\ writer[c].op = "relist" /\ writer[c].ok /\ writer[c].verified
             /\ Upkeep!Go(c, "replacing")
    <3>1. PICK q : q = [writer[c] EXCEPT !.phase = "replacing"] OBVIOUS
    <3>2. /\ q \in Upkeeping /\ q.op = "relist" /\ q.phase = "replacing" /\ q.at = writer[c].at
      BY <1>t, <2>3, <3>1 DEF Upkeeping
    <3>3. writer' = [writer EXCEPT ![c] = q] BY <1>t, <2>3, <3>1 DEF Upkeep!Go
    <3>. QED BY <2>1, <2>3, <3>2, <3>3, EndStored
  <2>. QED BY <1>2, <2>2, <2>3 DEF Upkeep!StoreEnd
<1>3. CASE Upkeep!CreateReplacement(c)
  <2>1. /\ writer[c].phase = "replacing"
        /\ listed' = [listed EXCEPT !["new"] = [status |-> "publishing", price |-> writer[c].price]]
        /\ writer' = [writer EXCEPT ![c].phase = "loaded", ![c].op = "create", ![c].at = "new"]
        /\ UNCHANGED <<shop, soldUp, toEnd, executing, started, succeeded, listingFaults, excuse>>
    BY <1>3 DEF Upkeep!CreateReplacement, Upkeep!At, Upkeep!SetStatus, Upkeep!rest, Upkeep!keys
  <2>2. PICK row : row = [status |-> "publishing", price |-> writer[c].price] OBVIOUS
  <2>3. /\ row \in Row /\ row.status = "publishing" /\ row.price = writer[c].price
    BY <1>t, <2>2 DEF Row, Upkeeping, Upkeep!RowStatus
  <2>4. PICK q : q = [writer[c] EXCEPT !.phase = "loaded", !.op = "create", !.at = "new"] OBVIOUS
  <2>5. /\ q \in Upkeeping /\ q.phase = "loaded" /\ q.op = "create" /\ q.at = "new"
        /\ q.price = writer[c].price
    BY <1>t, <2>4 DEF Upkeeping, Upkeep!Operation
  <2>6. writer'[c] = q BY <1>t, <2>1, <2>4 DEF Upkeeping
  <2>7. writer' = [writer EXCEPT ![c] = q] BY <1>t, <2>1, <2>6
  <2>8. listed' = [listed EXCEPT !["new"] = row] BY <2>1, <2>2
  <2>9. row.price = q.price BY <2>3, <2>5
  <2>10. /\ writer[c].phase = "replacing"
         /\ UNCHANGED <<shop, soldUp, toEnd, executing, started, succeeded, listingFaults>>
    BY <2>1
  <2>11. q \in Upkeeping /\ row \in Row BY <2>3, <2>5
  <2>12. row.status = "publishing" /\ q.op = "create" /\ q.at = "new" /\ q.phase = "loaded"
    BY <2>3, <2>5
  <2>. PICK why : why = {} OBVIOUS
  <2>13. excuse' = excuse \cup why /\ why \subseteq {"adopted"} BY <2>1
  <2>. QED
    BY ONLY UpkeepInv, <2>7, <2>8, <2>9, <2>10, <2>11, <2>12, <2>13, ReplacementRow, c \in Writers
<1>4. CASE Upkeep!StoreReplacement(c)
  <2>1. /\ writer[c].phase = "sent" /\ writer[c].op = "create"
        /\ listed' = [listed EXCEPT !["new"] =
              [status |-> IF writer[c].ok THEN "active" ELSE "failed", price |-> listed["new"].price]]
        /\ writer' = [writer EXCEPT ![c] = Upkeep!Idle]
        /\ UNCHANGED <<shop, soldUp, toEnd, executing, started, succeeded, listingFaults>>
        /\ Upkeep!Excused(IF writer[c].ok /\ soldUp THEN {"adopted"} ELSE {})
    BY <1>4 DEF Upkeep!StoreReplacement, Upkeep!At, Upkeep!Done, Upkeep!SetStatus, Upkeep!keys
  <2>. PICK why : why = IF writer[c].ok /\ soldUp THEN {"adopted"} ELSE {} OBVIOUS
  <2>5. /\ excuse' = excuse \cup why /\ why \subseteq {"adopted"}
        /\ soldUp /\ writer[c].ok => "adopted" \in why
    BY <2>1 DEF Upkeep!Excused
  <2>2. PICK row : row = [status |-> IF writer[c].ok THEN "active" ELSE "failed",
                          price |-> listed["new"].price]
    OBVIOUS
  <2>3. /\ row \in Row /\ row.status = IF writer[c].ok THEN "active" ELSE "failed"
        /\ row.price = listed["new"].price
    BY <1>t, <2>2 DEF Row, Upkeep!RowStatus
  <2>4. listed' = [listed EXCEPT !["new"] = row] BY <2>1, <2>2
  <2>. QED BY <1>i, <2>1, <2>3, <2>4, <2>5, ReplacementRow
<1>5. CASE Upkeep!WriterDies(c)
  <2>. PICK why : why = IF writer[c].phase = "sent" THEN {"lost"}
                        ELSE IF writer[c].op = "delist" THEN {"refused"} ELSE {}
    OBVIOUS
  <2>1. /\ writer[c].phase # "idle" /\ Upkeep!Fault /\ excuse' = excuse \cup why
        /\ writer' = [writer EXCEPT ![c] = Upkeep!Idle]
        /\ UNCHANGED <<listed, shop, soldUp, toEnd, executing, started, succeeded>>
    BY <1>5 DEF Upkeep!WriterDies, Upkeep!At, Upkeep!Done, Upkeep!Excused, Upkeep!rows, Upkeep!keys
  <2>2. listingFaults' \in 0..MaxListingFaults
    BY <1>t, <2>1, ListingsAssumption DEF Upkeep!Fault
  <2>3. why \subseteq {"lost", "refused"} OBVIOUS
  <2>. QED BY <2>1, <2>2, <2>3, GiveUp
<1>. QED BY <1>1, <1>2, <1>3, <1>4, <1>5

\* Every step of the upkeep keeps the invariant.
LEMMA UpkeepStep == UpkeepInv /\ [Upkeep!Next]_(Upkeep!vars) => UpkeepInv'
<1>. SUFFICES ASSUME UpkeepInv, [Upkeep!Next]_(Upkeep!vars) PROVE UpkeepInv' OBVIOUS
<1>t. listingFaults \in 0..MaxListingFaults /\ executing \in BOOLEAN
  BY DEF UpkeepInv, UpkeepTypes
<1>1. CASE UNCHANGED Upkeep!vars
  <2>1. UNCHANGED <<listed, shop, soldUp, toEnd, writer, succeeded, started, excuse,
                    executing, listingFaults>>
    BY <1>1 DEF Upkeep!vars
  <2>. QED BY <1>t, <2>1, ModeRest
<1>2. CASE Upkeep!SetMode
  <2>1. /\ UNCHANGED <<listed, shop, soldUp, toEnd, writer, succeeded, started, excuse>>
        /\ executing' \in BOOLEAN /\ (Upkeep!Fault \/ listingFaults' = listingFaults)
    BY <1>2 DEF Upkeep!SetMode, Upkeep!rows, Upkeep!keys
  <2>2. listingFaults' \in 0..MaxListingFaults
    BY <1>t, <2>1, ListingsAssumption DEF Upkeep!Fault
  <2>. QED BY <2>1, <2>2, ModeRest
<1>3. ASSUME NEW c \in Writers,
             \/ Upkeep!LoadUpdate(c) \/ Upkeep!LoadMarkdown(c) \/ Upkeep!LoadRefresh(c)
             \/ Upkeep!LoadEnd(c) \/ Upkeep!LoadRelist(c) \/ Upkeep!LoadDelist(c)
             \/ Upkeep!Write(c)
             \/ Upkeep!Store(c) \/ Upkeep!StoreRefresh(c) \/ Upkeep!StoreEnd(c)
             \/ Upkeep!CreateReplacement(c) \/ Upkeep!StoreReplacement(c) \/ Upkeep!WriterDies(c)
      PROVE  UpkeepInv'
  BY <1>3, TakeStep, WriteStep, UpkeepStore
<1>. QED BY <1>1, <1>2, <1>3, ReserveStep DEF Upkeep!Next

\* Listings: the price in a row is the shop's, an ended row is of a listing that is down
\* and the other way round, a listing and its replacement are never both up, and what is
\* up after a sale is a replacement that no row names, but for the named excuses.
THEOREM ListingsHold == Spec => []ListingsAgree
<1>1. UpkeepInv => ListingsAgree
  <2>. SUFFICES ASSUME UpkeepInv PROVE Upkeep!ListingsAgree BY DEF ListingsAgree
  <2>1. ASSUME NEW l \in {"old", "new"},
               excuse \cap {"replayed", "shadowed", "simulated", "lost", "overlapped"} = {},
               ~Upkeep!Storing(l), Upkeep!Linked(l)
        PROVE  listed[l].price = shop[l].price
    BY <2>1 DEF UpkeepInv, PriceTrue, ToldOf, Upkeep!Storing, Upkeep!Linked, Upkeep!At
  <2>2. ASSUME NEW l \in {"old", "new"}, listed[l].status = "ended",
               excuse \cap {"shadowed", "simulated"} = {}
        PROVE  shop[l].status = "ended"
    BY <2>2 DEF UpkeepInv, EndTrue
  <2>3. ASSUME NEW l \in {"old", "new"}, excuse \cap {"lost", "revived"} = {},
               ~Upkeep!Storing(l), shop[l].status = "ended"
        PROVE  listed[l].status = "ended"
    BY <2>3 DEF UpkeepInv, DownTrue, ToldOf, Upkeep!Storing, Upkeep!At
  <2>4. ASSUME "simulated" \notin excuse
        PROVE  \E l \in {"old", "new"} : shop[l].status # "live"
    BY <2>4 DEF UpkeepInv, OneUp
  <2>5. ASSUME soldUp, toEnd = {}, excuse \cap {"refused", "shadowed", "simulated", "adopted"} = {},
               \A c \in Writers : writer[c].op # "delist",
               NEW l \in {"old", "new"}, shop[l].status = "live"
        PROVE  l = "new" /\ listed[l].status \in {"publishing", "failed"}
    BY <2>5 DEF UpkeepInv, SaleTrue
  <2>. QED BY <2>1, <2>2, <2>3, <2>4, <2>5 DEF Upkeep!ListingsAgree, Upkeep!Listing
<1>. QED BY <1>1, UpkeepSpec, UpkeepInit, UpkeepStep, PTL DEF Upkeep!Spec

\* Listings: the rows, the shop and the callers have their types.
LEMMA UpkeepTypeCorrect == Spec => []Upkeep!TypeOK
<1>1. UpkeepInv => Upkeep!TypeOK
  BY DEF UpkeepInv, UpkeepTypes, Upkeep!TypeOK, Upkeep!Listing, Upkeep!Price, Row, AtShop, Upkeeping
<1>. QED BY <1>1, UpkeepSpec, UpkeepInit, UpkeepStep, PTL DEF Upkeep!Spec

-----------------------------------------------------------------------------
(* The eBay adapter *)

CallNames == {"none", "search", "item", "offer", "publish", "verify", "read", "put",
              "readback", "withdraw", "confirm", "fulfil", "verifyTracking"}

\* What an operation of the adapter is about to call, and with what.
Operation ==
    [op : {"none", "create", "update", "end", "track"}, call : CallNames,
     offer : 0..Len(remoteOffer), price : ListPrices \cup {0},
     read : ListPrices \cup {0}, tries : 0..MaxRetries]

RemoteTypes ==
    /\ remoteOffer \in Seq(Remote!RemoteOffer) /\ Len(remoteOffer) <= MaxRemoteOffers
    /\ fulfilled \in BOOLEAN
    /\ client \in [Clients -> Operation]
    /\ lostAnswers \in 0..MaxLostAnswers /\ operations \in 0..MaxOperations
    /\ crossed \subseteq {"twin", "crowd", "lost"}
    /\ reported \in [live : SUBSET (1..Len(remoteOffer)), ended : SUBSET (1..Len(remoteOffer)),
                     price : Seq(ListPrices \cup {0}), tracked : BOOLEAN]
    /\ Len(reported.price) = Len(remoteOffer)

\* Each call has the offer, the price and the reading it needs.
Fits(l) ==
    /\ l.call \in {"publish", "verify", "read", "put", "readback", "withdraw", "confirm"} => l.offer > 0
    /\ l.call \in {"search", "item", "offer"} => l.price > 0
    /\ l.call \in {"read", "put", "readback"} => l.op = "update"
    /\ l.call \in {"put", "readback"} => l.read > 0
    /\ l.call = "readback" => l.price \in Nat
    /\ l.call = "verify" => remoteOffer[l.offer].state # "unpublished"

\* With no twin creates, nobody is creating an offer once there is one.
OneOffer ==
    "twin" \notin crossed =>
        /\ Len(remoteOffer) <= 1
        /\ remoteOffer # <<>> => \A c \in Clients : client[c].call \notin {"item", "offer"}

\* What was reported live was published; what was reported ended is withdrawn.
Told ==
    /\ \A o \in reported.live : remoteOffer[o].state # "unpublished"
    /\ \A o \in reported.ended : remoteOffer[o].state = "withdrawn"
    /\ reported.tracked => fulfilled

Quiet == crossed \cap {"crowd", "lost"} = {}

Writing(l) == IF l.price > 0 THEN l.price ELSE l.read

\* With no overlapping or lost update, an update about to write has read the
\* price, one about to read back has written it, and the price reported is the
\* offer's unless an update with a price of its own has yet to report it.
PricesTold ==
    Quiet =>
        /\ \A c \in Clients :
             client[c].call = "put" => client[c].read = remoteOffer[client[c].offer].price
        /\ \A c \in Clients :
             client[c].call = "readback" =>
                 remoteOffer[client[c].offer].price = Writing(client[c])
        /\ \A o \in 1..Len(remoteOffer) :
             \/ reported.price[o] \in {0, remoteOffer[o].price}
             \/ \E c \in Clients : /\ client[c].call = "readback" /\ client[c].offer = o
                                   /\ client[c].price > 0

RemoteInv == /\ RemoteTypes /\ \A c \in Clients : Fits(client[c])
             /\ OneOffer /\ Told /\ PricesTold

\* A behaviour of the services is a behaviour of the eBay adapter.
LEMMA RemoteSpec == Spec => Remote!Spec
<1>1. Init => Remote!Init BY DEF Init
<1>2. [Next]_vars => [Remote!Next]_(Remote!vars)
  BY DEF Next, vars, MediaMoves, DomainMoves, StudyMoves, QueueMoves,
         MarketMoves, SchedulerMoves, BrokerMoves, BuyerMoves, ThreadMoves,
         UpkeepMoves, DispatchMoves, ArithmeticMoves, RemoteMoves, ApiMoves,
         remoteVars, Remote!vars
<1>. QED BY <1>1, <1>2, PTL DEF Spec, Remote!Spec

\* Before the first operation eBay has no offer and the adapter told nobody anything.
LEMMA RemoteInit == Remote!Init => RemoteInv
<1>. SUFFICES ASSUME Remote!Init PROVE RemoteInv OBVIOUS
<1>. USE EbayAssumption DEF Remote!Init
<1>1. /\ remoteOffer \in Seq(Remote!RemoteOffer) /\ Len(remoteOffer) = 0
      /\ reported.price = <<>> /\ Len(reported.price) = 0
  OBVIOUS
<1>2. Remote!Idle \in Operation BY <1>1 DEF Remote!Idle, Operation, CallNames
<1>3. client \in [Clients -> Operation] BY <1>2
<1>4. reported \in [live : SUBSET (1..Len(remoteOffer)), ended : SUBSET (1..Len(remoteOffer)),
                    price : Seq(ListPrices \cup {0}), tracked : BOOLEAN]
  OBVIOUS
<1>9. /\ lostAnswers \in 0..MaxLostAnswers /\ operations \in 0..MaxOperations
      /\ Len(remoteOffer) <= MaxRemoteOffers
  BY <1>1
<1>10. fulfilled \in BOOLEAN /\ crossed \subseteq {"twin", "crowd", "lost"} OBVIOUS
<1>5. RemoteTypes BY <1>1, <1>3, <1>4, <1>9, <1>10 DEF RemoteTypes
<1>6. \A c \in Clients : Fits(client[c]) /\ client[c].call = "none"
  BY DEF Fits, Remote!Idle
<1>7. OneOffer /\ Told BY <1>1 DEF OneOffer, Told
<1>8. PricesTold BY <1>1, <1>6 DEF PricesTold
<1>. QED BY <1>5, <1>6, <1>7, <1>8 DEF RemoteInv

\* The operation c goes on to l; no price changes on eBay or in a report.
RemoteMove(c, l) ==
    /\ client' = [client EXCEPT ![c] = l]
    /\ crossed \subseteq crossed' /\ crossed' \subseteq {"twin", "crowd", "lost"}
    /\ lostAnswers' \in 0..MaxLostAnswers /\ operations' \in 0..MaxOperations
    /\ l.call \in {"item", "offer"} => client[c].call \in {"item", "offer"} \/ remoteOffer = <<>>
    /\ l.call = "put" => l.read = remoteOffer[l.offer].price
    /\ l.call # "readback"
    /\ client[c].call = "readback" => "lost" \in crossed'

\* Offers go from unpublished to published to withdrawn.
StatesMove ==
    /\ remoteOffer' \in Seq(Remote!RemoteOffer) /\ Len(remoteOffer') = Len(remoteOffer)
    /\ \A o \in 1..Len(remoteOffer) :
         /\ remoteOffer'[o].price = remoteOffer[o].price
         /\ remoteOffer[o].state # "unpublished" => remoteOffer'[o].state # "unpublished"
         /\ remoteOffer[o].state = "withdrawn" => remoteOffer'[o].state = "withdrawn"
    /\ fulfilled' \in BOOLEAN /\ (fulfilled => fulfilled')

ReportMoves ==
    /\ reported' \in [live : SUBSET (1..Len(remoteOffer)), ended : SUBSET (1..Len(remoteOffer)),
                      price : Seq(ListPrices \cup {0}), tracked : BOOLEAN]
    /\ reported'.price = reported.price

\* A step of the operation that leaves the offers as they are, tells nobody
\* anything and stays in the operation keeps the invariant.
LEMMA RemoteRest ==
  ASSUME RemoteInv, NEW c \in Clients, NEW l \in Operation,
         RemoteMove(c, l), Fits(l)', StatesMove, ReportMoves, Told'
  PROVE  RemoteInv'
<1>t. /\ client \in [Clients -> Operation] /\ Len(remoteOffer) \in Nat
  BY DEF RemoteInv, RemoteTypes
<1>1. /\ client'[c] = l /\ \A d \in Clients \ {c} : client'[d] = client[d]
      /\ client' \in [Clients -> Operation]
  BY <1>t DEF RemoteMove
<1>2. Operation' = Operation BY DEF Operation, StatesMove
<1>3. RemoteTypes'
  BY <1>1, <1>2 DEF RemoteInv, RemoteTypes, RemoteMove, StatesMove, ReportMoves
<1>4. \A d \in Clients : Fits(client[d])'
  <2>. SUFFICES ASSUME NEW d \in Clients PROVE Fits(client[d])' OBVIOUS
  <2>1. CASE d = c BY <1>1, <2>1 DEF Fits
  <2>2. CASE d # c
    <3>1. client'[d] = client[d] /\ Fits(client[d]) /\ client[d] \in Operation
      BY <1>1, <1>t, <2>2 DEF RemoteInv
    <3>2. client[d].call = "verify" => remoteOffer'[client[d].offer].state # "unpublished"
      <4>. SUFFICES ASSUME client[d].call = "verify"
                    PROVE  remoteOffer'[client[d].offer].state # "unpublished"
        OBVIOUS
      <4>1. client[d].offer \in 1..Len(remoteOffer) BY <3>1 DEF Fits, Operation
      <4>. QED BY <3>1, <4>1 DEF Fits, StatesMove
    <3>. QED BY <3>1, <3>2 DEF Fits
  <2>. QED BY <2>1, <2>2
<1>5. OneOffer'
  <2>1. remoteOffer' = <<>> <=> remoteOffer = <<>> BY DEF StatesMove, RemoteInv, RemoteTypes
  <2>. QED BY <1>1, <2>1 DEF RemoteInv, OneOffer, RemoteMove, StatesMove
<1>6. PricesTold'
  <2>. SUFFICES ASSUME Quiet' PROVE PricesTold' BY DEF PricesTold
  <2>1. Quiet /\ client[c].call # "readback" BY DEF Quiet, RemoteMove
  <2>2. \A d \in Clients : client[d].call \in {"put", "readback"} => client[d].offer \in 1..Len(remoteOffer)
    BY <1>t DEF RemoteInv, Fits, Operation
  <2>3. \A d \in Clients :
          client'[d].call = "put" => client'[d].read = remoteOffer'[client'[d].offer].price
    <3>. SUFFICES ASSUME NEW d \in Clients, client'[d].call = "put"
                  PROVE  client'[d].read = remoteOffer'[client'[d].offer].price
      OBVIOUS
    <3>1. CASE d = c
      <4>1. l.offer \in 1..Len(remoteOffer) BY <1>1, <1>t, <3>1 DEF Fits, Operation
      <4>. QED BY <1>1, <3>1, <4>1 DEF RemoteMove, StatesMove
    <3>2. CASE d # c
      BY <1>1, <2>1, <2>2, <3>2 DEF RemoteInv, PricesTold, StatesMove
    <3>. QED BY <3>1, <3>2
  <2>4. \A d \in Clients :
          client'[d].call = "readback" => remoteOffer'[client'[d].offer].price = Writing(client'[d])
    <3>. SUFFICES ASSUME NEW d \in Clients, client'[d].call = "readback"
                  PROVE  remoteOffer'[client'[d].offer].price = Writing(client'[d])
      OBVIOUS
    <3>1. d # c BY <1>1 DEF RemoteMove
    <3>. QED BY <1>1, <2>1, <2>2, <3>1 DEF RemoteInv, PricesTold, StatesMove
  <2>5. \A o \in 1..Len(remoteOffer') :
             \/ reported'.price[o] \in {0, remoteOffer'[o].price}
             \/ \E d \in Clients : /\ client'[d].call = "readback" /\ client'[d].offer = o
                                   /\ client'[d].price > 0
    <3>. SUFFICES ASSUME NEW o \in 1..Len(remoteOffer)
                  PROVE  \/ reported'.price[o] \in {0, remoteOffer'[o].price}
                         \/ \E d \in Clients : /\ client'[d].call = "readback" /\ client'[d].offer = o
                                               /\ client'[d].price > 0
      BY DEF StatesMove
    <3>1. CASE reported.price[o] \in {0, remoteOffer[o].price}
      BY <3>1 DEF ReportMoves, StatesMove
    <3>2. ASSUME NEW d \in Clients, client[d].call = "readback", client[d].offer = o, client[d].price > 0
          PROVE  \E e \in Clients : /\ client'[e].call = "readback" /\ client'[e].offer = o
                                    /\ client'[e].price > 0
      BY <1>1, <2>1, <3>2
    <3>. QED BY <2>1, <3>1, <3>2 DEF RemoteInv, PricesTold
  <2>. QED BY <2>3, <2>4, <2>5 DEF PricesTold, Writing
<1>. QED BY <1>3, <1>4, <1>5, <1>6 DEF RemoteInv

\* Creating the offer: of an item eBay has no offer of, or to be refused.
LEMMA CreateOfferStep ==
  ASSUME RemoteInv, NEW c \in Clients, Remote!CreateOffer(c)
  PROVE  RemoteInv'
<1>. DEFINE L == Len(remoteOffer)
            posted == [state |-> "unpublished", price |-> client[c].price]
<1>t. /\ client \in [Clients -> Operation] /\ L \in Nat
      /\ remoteOffer \in Seq(Remote!RemoteOffer)
      /\ reported \in [live : SUBSET (1..L), ended : SUBSET (1..L),
                       price : Seq(ListPrices \cup {0}), tracked : BOOLEAN]
      /\ Len(reported.price) = L /\ crossed \subseteq {"twin", "crowd", "lost"}
  BY DEF RemoteInv, RemoteTypes
<1>1. /\ client[c].call = "offer" /\ L + 1 <= MaxRemoteOffers
      /\ remoteOffer' = Append(remoteOffer, posted)
      /\ reported' = [reported EXCEPT !.price = Append(@, 0)]
      /\ crossed' = IF Remote!Twin(c) THEN crossed \cup {"twin"} ELSE crossed
      /\ UNCHANGED <<fulfilled, operations>>
  BY DEF Remote!CreateOffer, Remote!At
<1>2. /\ posted \in Remote!RemoteOffer
      /\ remoteOffer' \in Seq(Remote!RemoteOffer) /\ Len(remoteOffer') = L + 1
      /\ remoteOffer'[L + 1] = posted
      /\ \A o \in 1..L : remoteOffer'[o] = remoteOffer[o]
  <2>1. client[c].price \in ListPrices
    BY <1>t, <1>1, EbayAssumption DEF RemoteInv, Fits, Operation
  <2>2. posted \in Remote!RemoteOffer BY <2>1 DEF Remote!RemoteOffer, Remote!OfferState
  <2>. HIDE DEF posted
  <2>. QED BY <1>t, <1>1, <2>2
<1>3. /\ reported' \in [live : SUBSET (1..Len(remoteOffer')), ended : SUBSET (1..Len(remoteOffer')),
                        price : Seq(ListPrices \cup {0}), tracked : BOOLEAN]
      /\ Len(reported'.price) = L + 1 /\ reported'.price[L + 1] = 0
      /\ \A o \in 1..L : reported'.price[o] = reported.price[o]
      /\ reported'.live = reported.live /\ reported'.ended = reported.ended
      /\ reported'.tracked = reported.tracked
  <2>1. reported.price \in Seq(ListPrices \cup {0}) BY <1>t
  <2>2. Append(reported.price, 0) \in Seq(ListPrices \cup {0}) BY <2>1
  <2>3. 1..L \subseteq 1..(L + 1) BY <1>t
  <2>4. reported' = [live |-> reported.live, ended |-> reported.ended,
                     price |-> Append(reported.price, 0), tracked |-> reported.tracked]
    BY <1>t, <1>1
  <2>. HIDE DEF posted, L
  <2>. QED BY <1>t, <1>2, <2>1, <2>2, <2>3, <2>4
<1>4. PICK l : /\ client' = [client EXCEPT ![c] = l] /\ l \in Operation'
               /\ l.call \in {"none", "publish"} /\ Fits(l)'
               /\ lostAnswers' \in 0..MaxLostAnswers
  <2>0. PICK l1 : l1 = [client[c] EXCEPT !.call = "publish", !.offer = L + 1] OBVIOUS
  <2>1. l1 \in Operation' /\ l1.call = "publish" /\ l1.offer = L + 1
    <3>1. client[c] \in Operation' BY <1>t, <1>2 DEF Operation
    <3>3. L + 1 \in 0..Len(remoteOffer') BY <1>t, <1>2
    <3>4. PICK m : m = [client[c] EXCEPT !.call = "publish"] OBVIOUS
    <3>5. m \in Operation' /\ m.call = "publish" BY <3>1, <3>4 DEF Operation, CallNames
    <3>6. l1 = [m EXCEPT !.offer = L + 1] BY <2>0, <3>4
    <3>. HIDE DEF L, posted
    <3>. QED BY <3>3, <3>5, <3>6 DEF Operation
  <2>2. Fits(l1)' BY <1>t, <2>1 DEF Fits
  <2>3. Remote!Idle \in Operation' /\ Remote!Idle.call = "none" /\ Fits(Remote!Idle)'
    BY <1>t, <1>2, EbayAssumption DEF Remote!Idle, Operation, CallNames, Fits
  <2>4. CASE /\ client' = [client EXCEPT ![c].call = "publish", ![c].offer = L + 1]
             /\ UNCHANGED lostAnswers
    <3>1. client' = [client EXCEPT ![c] = l1]
      <4>1. client'[c] = l1 BY <1>t, <2>0, <2>4 DEF Operation
      <4>2. client' = [d \in Clients |-> IF d = c THEN client'[c] ELSE client[d]]
        BY <1>t, <2>4
      <4>. QED BY <1>t, <4>1, <4>2
    <3>2. lostAnswers' \in 0..MaxLostAnswers BY <2>4 DEF RemoteInv, RemoteTypes
    <3>. QED BY <2>1, <2>2, <3>1, <3>2
  <2>5. CASE Remote!AnswerLost /\ Remote!Ends(c)
    <3>1. lostAnswers' \in 0..MaxLostAnswers
      BY <2>5, EbayAssumption DEF Remote!AnswerLost, RemoteInv, RemoteTypes
    <3>2. client' = [client EXCEPT ![c] = Remote!Idle] BY <2>5 DEF Remote!Ends
    <3>. QED BY <2>3, <3>1, <3>2
  <2>6. \/ /\ client' = [client EXCEPT ![c].call = "publish", ![c].offer = L + 1]
           /\ UNCHANGED lostAnswers
        \/ Remote!AnswerLost /\ Remote!Ends(c)
    BY DEF Remote!CreateOffer
  <2>. QED BY <2>4, <2>5, <2>6
<1>. HIDE DEF posted, L
<1>5. /\ client'[c] = l /\ \A d \in Clients \ {c} : client'[d] = client[d]
      /\ client' = [d \in Clients |-> IF d = c THEN l ELSE client[d]]
  BY <1>t, <1>4
<1>6. Operation \subseteq Operation' BY <1>t, <1>2 DEF Operation, L
<1>7. RemoteTypes'
  <2>1. client' \in [Clients -> Operation'] BY <1>t, <1>4, <1>5, <1>6
  <2>2. crossed' \subseteq {"twin", "crowd", "lost"} BY <1>t, <1>1
  <2>. QED BY <1>1, <1>2, <1>3, <1>4, <2>1, <2>2 DEF RemoteInv, RemoteTypes
<1>8. \A d \in Clients : client[d].call \in {"publish", "verify", "read", "put", "readback", "withdraw", "confirm"} =>
                            client[d].offer \in 1..L
  BY <1>t DEF RemoteInv, Fits, Operation, L
<1>9. \A d \in Clients : Fits(client[d])'
  <2>. SUFFICES ASSUME NEW d \in Clients PROVE Fits(client[d])' OBVIOUS
  <2>1. CASE d = c BY <1>4, <1>5, <2>1 DEF Fits
  <2>2. CASE d # c
    BY <1>2, <1>5, <1>8, <2>2 DEF Fits, RemoteInv
  <2>. QED BY <2>1, <2>2
<1>10. OneOffer'
  <2>. SUFFICES ASSUME "twin" \notin crossed' PROVE OneOffer' BY DEF OneOffer
  <2>1. ~Remote!Twin(c) /\ "twin" \notin crossed BY <1>1
  <2>2. remoteOffer = <<>> BY <1>1, <2>1 DEF RemoteInv, OneOffer
  <2>3. L = 0 BY <2>2 DEF L
  <2>4. \A d \in Clients : client'[d].call \notin {"item", "offer"}
    BY <1>4, <1>5, <2>1 DEF Remote!Twin
  <2>. QED BY <1>2, <2>3, <2>4 DEF OneOffer
<1>11. Told' BY <1>t, <1>1, <1>2, <1>3 DEF RemoteInv, Told
<1>12. PricesTold'
  <2>. SUFFICES ASSUME Quiet' PROVE PricesTold' BY DEF PricesTold
  <2>1. Quiet BY <1>1 DEF Quiet
  <2>2. \A d \in Clients : client'[d].call \in {"put", "readback"} =>
           d # c /\ client'[d] = client[d] /\ client[d].offer \in 1..L
    BY <1>4, <1>5, <1>8
  <2>3. \A d \in Clients : client[d].call = "readback" => d # c BY <1>1
  <2>4. \A o \in 1..Len(remoteOffer') :
             \/ reported'.price[o] \in {0, remoteOffer'[o].price}
             \/ \E d \in Clients : /\ client'[d].call = "readback" /\ client'[d].offer = o
                                   /\ client'[d].price > 0
    <3>. SUFFICES ASSUME NEW o \in 1..Len(remoteOffer')
                  PROVE  \/ reported'.price[o] \in {0, remoteOffer'[o].price}
                         \/ \E d \in Clients : /\ client'[d].call = "readback" /\ client'[d].offer = o
                                               /\ client'[d].price > 0
      OBVIOUS
    <3>1. CASE o = L + 1 BY <1>3, <3>1
    <3>2. CASE o \in 1..L
      <4>1. CASE reported.price[o] \in {0, remoteOffer[o].price} BY <1>2, <1>3, <3>2, <4>1
      <4>2. ASSUME NEW d \in Clients, client[d].call = "readback", client[d].offer = o, client[d].price > 0
            PROVE  \E e \in Clients : /\ client'[e].call = "readback" /\ client'[e].offer = o
                                      /\ client'[e].price > 0
        BY <1>5, <2>3, <4>2
      <4>. QED BY <2>1, <3>2, <4>1, <4>2 DEF RemoteInv, PricesTold, L
    <3>. QED BY <1>t, <1>2, <3>1, <3>2
  <2>. QED BY <1>2, <2>1, <2>2, <2>4 DEF RemoteInv, PricesTold, Writing
<1>. QED BY <1>7, <1>9, <1>10, <1>11, <1>12 DEF RemoteInv

\* One more try is still an operation.
LEMMA TryTyped ==
  ASSUME NEW q \in Operation, NEW n \in 0..MaxRetries
  PROVE  [q EXCEPT !.tries = n] \in Operation
<1>1. PICK S : S = 0..Len(remoteOffer) OBVIOUS
<1>2. PICK T : T = 0..MaxRetries OBVIOUS
<1>. QED BY <1>1, <1>2 DEF Operation

\* Putting the new price and description into the offer.
LEMMA UpdateOfferStep ==
  ASSUME RemoteInv, NEW c \in Clients, Remote!UpdateOffer(c)
  PROVE  RemoteInv'
<1>. DEFINE L == Len(remoteOffer)
<1>t. /\ client \in [Clients -> Operation] /\ L \in Nat
      /\ remoteOffer \in Seq(Remote!RemoteOffer)
      /\ reported \in [live : SUBSET (1..L), ended : SUBSET (1..L),
                       price : Seq(ListPrices \cup {0}), tracked : BOOLEAN]
      /\ Len(reported.price) = L /\ crossed \subseteq {"twin", "crowd", "lost"}
  BY DEF RemoteInv, RemoteTypes
<1>1. PICK o : o = client[c].offer OBVIOUS
<1>2. /\ client[c].call = "put"
      /\ remoteOffer' = [remoteOffer EXCEPT ![o].price = Remote!Updated(c)]
      /\ UNCHANGED <<fulfilled, operations, reported>>
  BY <1>1 DEF Remote!UpdateOffer, Remote!At
<1>3. /\ o \in 1..L /\ client[c].op = "update" /\ client[c].read \in ListPrices
      /\ client[c] \in Operation
  BY <1>t, <1>1, <1>2, EbayAssumption DEF RemoteInv, Fits, Operation
<1>4. Remote!Updated(c) = Writing(client[c]) /\ Writing(client[c]) \in ListPrices
  BY <1>3, EbayAssumption DEF Remote!Updated, Writing, Operation
<1>5. /\ remoteOffer' \in Seq(Remote!RemoteOffer) /\ Len(remoteOffer') = L
      /\ remoteOffer'[o].price = Writing(client[c])
      /\ \A x \in 1..L : remoteOffer'[x].state = remoteOffer[x].state
      /\ \A x \in 1..L : x # o => remoteOffer'[x] = remoteOffer[x]
  <2>1. remoteOffer[o] \in Remote!RemoteOffer /\ \A x \in 1..L : remoteOffer[x] \in Remote!RemoteOffer
    BY <1>t, <1>3
  <2>2. PICK w : w = [remoteOffer[o] EXCEPT !.price = Remote!Updated(c)] OBVIOUS
  <2>3. w \in Remote!RemoteOffer /\ w.price = Writing(client[c]) /\ w.state = remoteOffer[o].state
    BY <1>4, <2>1, <2>2 DEF Remote!RemoteOffer
  <2>4. remoteOffer' = [remoteOffer EXCEPT ![o] = w] BY <1>2, <2>2
  <2>. QED BY <1>t, <1>3, <2>1, <2>3, <2>4
<1>6. PICK l : /\ client' = [client EXCEPT ![c] = l] /\ l \in Operation
               /\ Fits(l)
               /\ lostAnswers' \in 0..MaxLostAnswers
               /\ \/ l.call = "readback" /\ l.offer = o /\ l.price = client[c].price
                     /\ l.read = client[c].read
                  \/ l.call \in {"none", "put"} /\ "lost" \in crossed'
  <2>1. /\ [client[c] EXCEPT !.call = "readback"] \in Operation
        /\ [client[c] EXCEPT !.call = "readback"].call = "readback"
        /\ [client[c] EXCEPT !.call = "readback"].offer = o
        /\ [client[c] EXCEPT !.call = "readback"].price = client[c].price
        /\ [client[c] EXCEPT !.call = "readback"].op = client[c].op
        /\ [client[c] EXCEPT !.call = "readback"].read = client[c].read
    BY <1>1, <1>3 DEF Operation, CallNames
  <2>2. Fits([client[c] EXCEPT !.call = "readback"])
    <3>1. PICK q : q = [client[c] EXCEPT !.call = "readback"] OBVIOUS
    <3>2. q.call = "readback" /\ q.offer > 0 /\ q.op = "update" /\ q.read > 0 /\ q.price \in Nat
      BY <1>3, <2>1, <3>1, EbayAssumption DEF Operation
    <3>3. Fits(q) BY <3>2 DEF Fits
    <3>. QED BY <3>1, <3>3
  <2>3. CASE /\ Remote!Calls(c, "readback") /\ UNCHANGED lostAnswers
    BY <1>t, <2>1, <2>2, <2>3 DEF Remote!Calls, RemoteInv, RemoteTypes
  <2>4. CASE /\ Remote!AnswerLost /\ client[c].tries < MaxRetries
             /\ client' = [client EXCEPT ![c].tries = @ + 1]
             /\ "lost" \in crossed'
    <3>1. PICK q : q = [client[c] EXCEPT !.tries = @ + 1] OBVIOUS
    <3>2. /\ q.op = client[c].op /\ q.call = "put" /\ q.offer = o /\ q.price = client[c].price
          /\ q.read = client[c].read /\ q.tries = client[c].tries + 1
          /\ q = [op |-> q.op, call |-> q.call, offer |-> q.offer, price |-> q.price,
                  read |-> q.read, tries |-> q.tries]
      BY <1>1, <1>2, <1>3, <3>1 DEF Operation
    <3>6. client[c].tries + 1 \in 0..MaxRetries BY <1>3, <2>4, EbayAssumption DEF Operation
    <3>9. PICK n : n = client[c].tries + 1 OBVIOUS
    <3>10. q = [client[c] EXCEPT !.tries = n] BY <3>1, <3>9
    <3>11. n \in 0..MaxRetries BY <3>6, <3>9
    <3>7. q \in Operation BY <1>3, <3>10, <3>11, TryTyped
    <3>12. client[c].read \in Nat \ {0} BY <1>3, EbayAssumption
    <3>8. o > 0 /\ client[c].read > 0 BY <1>3, <3>12
    <3>3. Fits(q) BY <1>3, <3>2, <3>8 DEF Fits
    <3>4. client' = [client EXCEPT ![c] = q] BY <2>4, <3>1
    <3>5. lostAnswers' \in 0..MaxLostAnswers
      BY <2>4, EbayAssumption DEF Remote!AnswerLost, RemoteInv, RemoteTypes
    <3>. QED BY <2>4, <3>2, <3>3, <3>4, <3>5, <3>7
  <2>5. CASE Remote!AnswerLost /\ Remote!Ends(c) /\ "lost" \in crossed'
    <3>1. lostAnswers' \in 0..MaxLostAnswers
      BY <2>5, EbayAssumption DEF Remote!AnswerLost, RemoteInv, RemoteTypes
    <3>2. client' = [client EXCEPT ![c] = Remote!Idle] BY <2>5 DEF Remote!Ends
    <3>3. Remote!Idle \in Operation /\ Remote!Idle.call = "none" /\ Fits(Remote!Idle)
      BY <1>t, EbayAssumption DEF Remote!Idle, Operation, CallNames, Fits
    <3>. QED BY <2>5, <3>1, <3>2, <3>3
  <2>. QED BY <2>3, <2>4, <2>5 DEF Remote!UpdateOffer
<1>7. /\ crossed \subseteq crossed' /\ crossed' \subseteq {"twin", "crowd", "lost"}
      /\ "twin" \in crossed' => "twin" \in crossed
      /\ (\E d \in Clients \ {c} : Remote!UpdatesOffer(d, o)) => "crowd" \in crossed'
  BY <1>t, <1>1 DEF Remote!UpdateOffer
<1>8. /\ client'[c] = l /\ \A d \in Clients \ {c} : client'[d] = client[d]
      /\ client' \in [Clients -> Operation]
  BY <1>t, <1>6
<1>9. Operation' = Operation BY <1>5 DEF Operation
<1>. HIDE DEF L
<1>10. RemoteTypes'
  BY <1>2, <1>5, <1>6, <1>7, <1>8, <1>9 DEF RemoteInv, RemoteTypes, L
<1>11. \A d \in Clients : client[d].call \in {"publish", "verify", "read", "put", "readback", "withdraw", "confirm"} =>
                            client[d].offer \in 1..L
  BY <1>t DEF RemoteInv, Fits, Operation, L
<1>12. \A d \in Clients : Fits(client[d])'
  <2>. SUFFICES ASSUME NEW d \in Clients PROVE Fits(client[d])' OBVIOUS
  <2>1. CASE d = c BY <1>6, <1>8, <2>1 DEF Fits
  <2>2. CASE d # c BY <1>5, <1>8, <1>11, <2>2 DEF Fits, RemoteInv
  <2>. QED BY <2>1, <2>2
<1>13. OneOffer'
  <2>1. remoteOffer' = <<>> <=> remoteOffer = <<>> BY <1>t, <1>5 DEF L
  <2>. QED BY <1>5, <1>6, <1>7, <1>8, <2>1 DEF RemoteInv, OneOffer, L
<1>14. Told' BY <1>t, <1>2, <1>5 DEF RemoteInv, Told
<1>15. PricesTold'
  <2>. SUFFICES ASSUME Quiet' PROVE PricesTold' BY DEF PricesTold
  <2>1. Quiet /\ l.call = "readback" BY <1>6, <1>7 DEF Quiet
  <2>2. \A d \in Clients \ {c} : client[d].call \in {"put", "readback"} =>
           client[d].offer \in 1..L /\ client[d].offer # o
    BY <1>7, <1>11 DEF Quiet, Remote!UpdatesOffer, RemoteInv, Fits
  <2>3. \A d \in Clients : client'[d].call = "put" =>
           client'[d].read = remoteOffer'[client'[d].offer].price
    BY <1>5, <1>8, <2>1, <2>2 DEF RemoteInv, PricesTold
  <2>4. \A d \in Clients : client'[d].call = "readback" =>
           remoteOffer'[client'[d].offer].price = Writing(client'[d])
    <3>. SUFFICES ASSUME NEW d \in Clients, client'[d].call = "readback"
                  PROVE  remoteOffer'[client'[d].offer].price = Writing(client'[d])
      OBVIOUS
    <3>1. CASE d = c BY <1>5, <1>6, <1>8, <2>1, <3>1 DEF Writing
    <3>2. CASE d # c BY <1>5, <1>8, <2>1, <2>2, <3>2 DEF RemoteInv, PricesTold
    <3>. QED BY <3>1, <3>2
  <2>5. \A x \in 1..L :
             \/ reported'.price[x] \in {0, remoteOffer'[x].price}
             \/ \E d \in Clients : /\ client'[d].call = "readback" /\ client'[d].offer = x
                                   /\ client'[d].price > 0
    <3>. SUFFICES ASSUME NEW x \in 1..L
                  PROVE  \/ reported'.price[x] \in {0, remoteOffer'[x].price}
                         \/ \E d \in Clients : /\ client'[d].call = "readback" /\ client'[d].offer = x
                                               /\ client'[d].price > 0
      OBVIOUS
    <3>1. \/ reported.price[x] \in {0, remoteOffer[x].price}
          \/ \E d \in Clients : /\ client[d].call = "readback" /\ client[d].offer = x
                                /\ client[d].price > 0
      BY <2>1 DEF RemoteInv, PricesTold, L
    <3>2. CASE x = o /\ client[c].price > 0 BY <1>6, <1>8, <2>1, <3>2
    <3>3. CASE x = o /\ ~(client[c].price > 0)
      <4>1. remoteOffer'[x].price = client[c].read BY <1>5, <3>3 DEF Writing
      <4>2. client[c].read = remoteOffer[x].price
        BY <1>1, <1>2, <2>1, <3>3 DEF RemoteInv, PricesTold
      <4>3. ~\E d \in Clients : client[d].call = "readback" /\ client[d].offer = x
        BY <1>2, <2>2, <3>3
      <4>. QED BY <1>2, <3>1, <4>1, <4>2, <4>3
    <3>4. CASE x # o
      <4>1. CASE reported.price[x] \in {0, remoteOffer[x].price} BY <1>2, <1>5, <3>4, <4>1
      <4>2. ASSUME NEW d \in Clients, client[d].call = "readback", client[d].offer = x, client[d].price > 0
            PROVE  \E e \in Clients : /\ client'[e].call = "readback" /\ client'[e].offer = x
                                      /\ client'[e].price > 0
        BY <1>2, <1>8, <4>2
      <4>. QED BY <3>1, <4>1, <4>2
    <3>. QED BY <3>2, <3>3, <3>4
  <2>. QED BY <1>5, <2>3, <2>4, <2>5 DEF PricesTold, Writing
<1>. QED BY <1>10, <1>12, <1>13, <1>14, <1>15 DEF RemoteInv

\* An operation ends with a report of the price of its offer, or of nothing.
LEMMA ReportStep ==
  ASSUME RemoteInv, NEW c \in Clients, NEW o \in 1..Len(remoteOffer),
         client' = [client EXCEPT ![c] = Remote!Idle],
         UNCHANGED <<remoteOffer, fulfilled, lostAnswers, operations, crossed>>,
         reported' \in [live : SUBSET (1..Len(remoteOffer)), ended : SUBSET (1..Len(remoteOffer)),
                        price : Seq(ListPrices \cup {0}), tracked : BOOLEAN],
         Len(reported'.price) = Len(remoteOffer),
         \A x \in 1..Len(remoteOffer) : x # o => reported'.price[x] = reported.price[x],
         client[c].call = "readback" => client[c].offer = o,
         Quiet => \/ reported'.price[o] = remoteOffer[o].price
                  \/ /\ reported'.price[o] = reported.price[o]
                     /\ ~(client[c].call = "readback" /\ client[c].price > 0),
         Told'
  PROVE  RemoteInv'
<1>t. client \in [Clients -> Operation] BY DEF RemoteInv, RemoteTypes
<1>1. Remote!Idle \in Operation /\ Remote!Idle.call = "none" /\ Fits(Remote!Idle)
  <2>1. Len(remoteOffer) \in Nat BY DEF RemoteInv, RemoteTypes
  <2>. QED BY <2>1, EbayAssumption DEF Remote!Idle, Operation, CallNames, Fits
<1>2. /\ client'[c] = Remote!Idle /\ \A d \in Clients \ {c} : client'[d] = client[d]
      /\ client' \in [Clients -> Operation]
  BY <1>t, <1>1
<1>3. Operation' = Operation BY DEF Operation
<1>4. RemoteTypes' BY <1>2, <1>3 DEF RemoteInv, RemoteTypes
<1>5. \A d \in Clients : Fits(client[d])'
  <2>. SUFFICES ASSUME NEW d \in Clients PROVE Fits(client[d])' OBVIOUS
  <2>1. CASE d = c BY <1>1, <1>2, <2>1 DEF Fits
  <2>2. CASE d # c BY <1>2, <2>2 DEF Fits, RemoteInv
  <2>. QED BY <2>1, <2>2
<1>6. OneOffer' BY <1>1, <1>2 DEF RemoteInv, OneOffer
<1>7. PricesTold'
  <2>. SUFFICES ASSUME Quiet PROVE PricesTold' BY DEF PricesTold, Quiet
  <2>1. \A d \in Clients : client'[d].call = "put" => client'[d].read = remoteOffer[client'[d].offer].price
    BY <1>1, <1>2 DEF RemoteInv, PricesTold
  <2>2. \A d \in Clients :
             client'[d].call = "readback" => remoteOffer[client'[d].offer].price = Writing(client'[d])
    BY <1>1, <1>2 DEF RemoteInv, PricesTold
  <2>3. \A x \in 1..Len(remoteOffer) :
             \/ reported'.price[x] \in {0, remoteOffer[x].price}
             \/ \E d \in Clients : /\ client'[d].call = "readback" /\ client'[d].offer = x
                                   /\ client'[d].price > 0
    <3>. SUFFICES ASSUME NEW x \in 1..Len(remoteOffer)
                  PROVE  \/ reported'.price[x] \in {0, remoteOffer[x].price}
                         \/ \E d \in Clients : /\ client'[d].call = "readback" /\ client'[d].offer = x
                                               /\ client'[d].price > 0
      OBVIOUS
    <3>1. CASE reported'.price[x] = remoteOffer[x].price BY <3>1
    <3>2. CASE /\ reported'.price[x] = reported.price[x]
               /\ ~(client[c].call = "readback" /\ client[c].offer = x /\ client[c].price > 0)
      <4>1. CASE reported.price[x] \in {0, remoteOffer[x].price} BY <3>2, <4>1
      <4>2. ASSUME NEW d \in Clients, client[d].call = "readback", client[d].offer = x, client[d].price > 0
            PROVE  \E e \in Clients : /\ client'[e].call = "readback" /\ client'[e].offer = x
                                      /\ client'[e].price > 0
        BY <1>2, <3>2, <4>2
      <4>. QED BY <4>1, <4>2 DEF RemoteInv, PricesTold
    <3>3. CASE x = o BY <3>1, <3>2, <3>3
    <3>4. CASE x # o BY <3>2, <3>4
    <3>. QED BY <3>3, <3>4
  <2>. QED BY <2>1, <2>2, <2>3 DEF PricesTold, Writing
<1>. QED BY <1>4, <1>5, <1>6, <1>7 DEF RemoteInv

\* Reading the published offer once more before the listing is reported.
LEMMA VerifyCreatedStep ==
  ASSUME RemoteInv, NEW c \in Clients, Remote!VerifyCreated(c)
  PROVE  RemoteInv'
<1>1. PICK o : o = client[c].offer OBVIOUS
<1>t. /\ client[c] \in Operation /\ Len(remoteOffer) \in Nat
      /\ remoteOffer \in Seq(Remote!RemoteOffer)
      /\ reported \in [live : SUBSET (1..Len(remoteOffer)), ended : SUBSET (1..Len(remoteOffer)),
                       price : Seq(ListPrices \cup {0}), tracked : BOOLEAN]
      /\ Len(reported.price) = Len(remoteOffer)
  BY DEF RemoteInv, RemoteTypes
<1>2. /\ client[c].call = "verify" /\ client' = [client EXCEPT ![c] = Remote!Idle]
      /\ UNCHANGED <<remoteOffer, fulfilled, lostAnswers, operations, crossed>>
  BY DEF Remote!VerifyCreated, Remote!At, Remote!Ends
<1>3. o \in 1..Len(remoteOffer) /\ remoteOffer[o].state # "unpublished"
  BY <1>t, <1>1, <1>2 DEF RemoteInv, Fits, Operation
<1>4. \/ reported' = reported
      \/ /\ remoteOffer[o].price = client[c].price
         /\ reported' = [reported EXCEPT !.live = @ \cup {o}, !.price[o] = client[c].price]
  BY <1>1 DEF Remote!VerifyCreated
<1>5. CASE reported' = reported
  <2>1. Told' BY <1>2, <1>5 DEF RemoteInv, Told
  <2>. QED BY <1>t, <1>2, <1>3, <1>5, <2>1, ReportStep
<1>6. CASE /\ remoteOffer[o].price = client[c].price
           /\ reported' = [reported EXCEPT !.live = @ \cup {o}, !.price[o] = client[c].price]
  <2>1. PICK P : P = [reported.price EXCEPT ![o] = client[c].price] OBVIOUS
  <2>2. reported' = [live |-> reported.live \cup {o}, ended |-> reported.ended,
                     price |-> P, tracked |-> reported.tracked]
    BY <1>t, <1>6, <2>1
  <2>3. /\ P \in Seq(ListPrices \cup {0}) /\ Len(P) = Len(remoteOffer) /\ P[o] = client[c].price
        /\ \A x \in 1..Len(remoteOffer) : x # o => P[x] = reported.price[x]
    <3>1. client[c].price \in ListPrices \cup {0} /\ reported.price \in Seq(ListPrices \cup {0})
      BY <1>t DEF Operation
    <3>. QED BY <1>t, <1>3, <2>1, <3>1
  <2>4. reported' \in [live : SUBSET (1..Len(remoteOffer)), ended : SUBSET (1..Len(remoteOffer)),
                       price : Seq(ListPrices \cup {0}), tracked : BOOLEAN]
    BY <1>t, <1>3, <2>2, <2>3
  <2>5. Told' BY <1>2, <1>3, <2>2 DEF RemoteInv, Told
  <2>6. /\ reported'.price[o] = remoteOffer[o].price /\ Len(reported'.price) = Len(remoteOffer)
        /\ \A x \in 1..Len(remoteOffer) : x # o => reported'.price[x] = reported.price[x]
    <3>1. reported'.price = P BY <2>2
    <3>. QED BY <1>6, <2>3, <3>1
  <2>. QED BY <1>2, <1>3, <2>4, <2>5, <2>6, ReportStep
<1>. QED BY <1>4, <1>5, <1>6

\* Reading the updated offer back: the report tells the price that was read.
LEMMA ReadBackStep ==
  ASSUME RemoteInv, NEW c \in Clients, Remote!ReadBack(c)
  PROVE  RemoteInv'
<1>1. PICK o : o = client[c].offer OBVIOUS
<1>t. /\ client[c] \in Operation /\ Len(remoteOffer) \in Nat
      /\ remoteOffer \in Seq(Remote!RemoteOffer)
      /\ reported \in [live : SUBSET (1..Len(remoteOffer)), ended : SUBSET (1..Len(remoteOffer)),
                       price : Seq(ListPrices \cup {0}), tracked : BOOLEAN]
      /\ Len(reported.price) = Len(remoteOffer)
  BY DEF RemoteInv, RemoteTypes
<1>2. /\ client[c].call = "readback" /\ client' = [client EXCEPT ![c] = Remote!Idle]
      /\ UNCHANGED <<remoteOffer, fulfilled, lostAnswers, operations, crossed>>
  BY DEF Remote!ReadBack, Remote!At, Remote!Ends
<1>3. o \in 1..Len(remoteOffer)
  BY <1>t, <1>1, <1>2 DEF RemoteInv, Fits, Operation
<1>4. \/ reported' = reported /\ ~(client[c].price > 0)
      \/ /\ client[c].price > 0
         /\ reported' = [reported EXCEPT !.price[o] = client[c].price]
  BY <1>1 DEF Remote!ReadBack
<1>5. CASE reported' = reported /\ ~(client[c].price > 0)
  <2>1. Told' BY <1>2, <1>5 DEF RemoteInv, Told
  <2>. QED BY <1>t, <1>1, <1>2, <1>3, <1>5, <2>1, ReportStep
<1>6. CASE /\ client[c].price > 0
           /\ reported' = [reported EXCEPT !.price[o] = client[c].price]
  <2>1. PICK P : P = [reported.price EXCEPT ![o] = client[c].price] OBVIOUS
  <2>2. reported' = [live |-> reported.live, ended |-> reported.ended,
                     price |-> P, tracked |-> reported.tracked]
    BY <1>t, <1>6, <2>1
  <2>3. /\ P \in Seq(ListPrices \cup {0}) /\ Len(P) = Len(remoteOffer) /\ P[o] = client[c].price
        /\ \A x \in 1..Len(remoteOffer) : x # o => P[x] = reported.price[x]
    <3>1. client[c].price \in ListPrices \cup {0} /\ reported.price \in Seq(ListPrices \cup {0})
      BY <1>t DEF Operation
    <3>. QED BY <1>t, <1>3, <2>1, <3>1
  <2>4. reported' \in [live : SUBSET (1..Len(remoteOffer)), ended : SUBSET (1..Len(remoteOffer)),
                       price : Seq(ListPrices \cup {0}), tracked : BOOLEAN]
    BY <1>t, <1>3, <2>2, <2>3
  <2>5. Told' BY <1>2, <1>3, <2>2 DEF RemoteInv, Told
  <2>6. /\ Quiet => reported'.price[o] = remoteOffer[o].price
        /\ Len(reported'.price) = Len(remoteOffer)
        /\ \A x \in 1..Len(remoteOffer) : x # o => reported'.price[x] = reported.price[x]
    <3>1. reported'.price = P BY <2>2
    <3>2. Quiet => remoteOffer[o].price = client[c].price
      BY <1>1, <1>2, <1>6 DEF RemoteInv, PricesTold, Writing
    <3>. QED BY <2>3, <3>1, <3>2
  <2>. QED BY <1>1, <1>2, <1>3, <2>4, <2>5, <2>6, ReportStep
<1>. QED BY <1>4, <1>5, <1>6

\* What a step of operation c leaves besides the operation itself.
Onward(c) ==
    /\ crossed \subseteq crossed' /\ crossed' \subseteq {"twin", "crowd", "lost"}
    /\ lostAnswers' \in 0..MaxLostAnswers /\ operations' \in 0..MaxOperations
    /\ client[c].call = "readback" => "lost" \in crossed'
    /\ StatesMove /\ ReportMoves /\ Told'

\* With the offers and the reports as they were, nothing told changes.
LEMMA OffersUntouched ==
  ASSUME RemoteInv, UNCHANGED <<remoteOffer, fulfilled>>
  PROVE  StatesMove /\ (UNCHANGED reported => ReportMoves /\ Told')
  BY DEF RemoteInv, RemoteTypes, StatesMove, ReportMoves, Told

\* A counter moved by one within its bound stays within it.
LEMMA Counted ==
  ASSUME RemoteInv
  PROVE  /\ Remote!AnswerLost => lostAnswers' \in 0..MaxLostAnswers
         /\ UNCHANGED lostAnswers => lostAnswers' \in 0..MaxLostAnswers
         /\ operations < MaxOperations /\ operations' = operations + 1 => operations' \in 0..MaxOperations
         /\ UNCHANGED operations => operations' \in 0..MaxOperations
         /\ UNCHANGED crossed => crossed \subseteq crossed' /\ crossed' \subseteq {"twin", "crowd", "lost"}
<1>. USE EbayAssumption
<1>1. /\ lostAnswers \in 0..MaxLostAnswers /\ operations \in 0..MaxOperations
      /\ crossed \subseteq {"twin", "crowd", "lost"}
  BY DEF RemoteInv, RemoteTypes
<1>2. Remote!AnswerLost => lostAnswers' \in 0..MaxLostAnswers BY <1>1 DEF Remote!AnswerLost
<1>3. operations < MaxOperations /\ operations' = operations + 1 => operations' \in 0..MaxOperations
  BY <1>1
<1>. QED BY <1>1, <1>2, <1>3

\* An operation that ends leaves the invariant.
LEMMA EndStep ==
  ASSUME RemoteInv, NEW c \in Clients, Remote!Ends(c), Onward(c)
  PROVE  RemoteInv'
<1>1. Len(remoteOffer) \in Nat BY DEF RemoteInv, RemoteTypes
<1>2. Remote!Idle \in Operation /\ Remote!Idle.call = "none" /\ Fits(Remote!Idle)'
  BY <1>1, EbayAssumption DEF Remote!Idle, Operation, CallNames, Fits
<1>3. RemoteMove(c, Remote!Idle) BY <1>2 DEF RemoteMove, Onward, Remote!Ends
<1>. QED BY <1>2, <1>3, RemoteRest DEF Onward

\* So does one that goes on to a call that is not a write, whatever it knows,
\* or to the first write of an update, knowing the price.
LEMMA CallStep ==
  ASSUME RemoteInv, NEW c \in Clients, NEW l \in Operation, Onward(c), Fits(l)',
         client' = [client EXCEPT ![c] = l], l.call # "readback",
         l.call = "put" => l.read = remoteOffer[l.offer].price,
         l.call \in {"item", "offer"} => client[c].call \in {"item", "offer"} \/ remoteOffer = <<>>
  PROVE  RemoteInv'
<1>1. RemoteMove(c, l) BY DEF RemoteMove, Onward
<1>. QED BY <1>1, RemoteRest DEF Onward

\* The next call of an operation is all that Calls changes.
LEMMA NextCall ==
  ASSUME RemoteInv, NEW c \in Clients, NEW k \in CallNames, Remote!Calls(c, k)
  PROVE  \E l \in Operation : /\ client' = [client EXCEPT ![c] = l]
                              /\ l.call = k /\ l.op = client[c].op /\ l.offer = client[c].offer
                              /\ l.price = client[c].price /\ l.read = client[c].read
<1>t. client \in [Clients -> Operation] BY DEF RemoteInv, RemoteTypes
<1>1. PICK l : l = [client[c] EXCEPT !.call = k] OBVIOUS
<1>2. client[c] \in Operation BY <1>t
<1>3. /\ l \in Operation /\ l.call = k /\ l.op = client[c].op /\ l.offer = client[c].offer
      /\ l.price = client[c].price /\ l.read = client[c].read
  BY <1>1, <1>2 DEF Operation
<1>4. client' = [client EXCEPT ![c] = l] BY <1>t, <1>1 DEF Remote!Calls
<1>. QED BY <1>3, <1>4

\* Publishing the offer.
LEMMA PublishOfferStep ==
  ASSUME RemoteInv, NEW c \in Clients, Remote!PublishOffer(c)
  PROVE  RemoteInv'
<1>1. PICK o : o = client[c].offer OBVIOUS
<1>t. /\ client[c] \in Operation /\ remoteOffer \in Seq(Remote!RemoteOffer)
      /\ Len(remoteOffer) \in Nat /\ fulfilled \in BOOLEAN
  BY DEF RemoteInv, RemoteTypes
<1>2. /\ client[c].call = "publish" /\ remoteOffer[o].state = "unpublished"
      /\ remoteOffer' = [remoteOffer EXCEPT ![o].state = "published"]
      /\ UNCHANGED <<fulfilled, operations, reported, crossed>>
  BY <1>1 DEF Remote!PublishOffer, Remote!At
<1>3. o \in 1..Len(remoteOffer) BY <1>t, <1>1, <1>2 DEF RemoteInv, Fits, Operation
<1>4. StatesMove /\ remoteOffer'[o].state = "published"
  <2>1. PICK w : w = [remoteOffer[o] EXCEPT !.state = "published"] OBVIOUS
  <2>2. remoteOffer[o] \in Remote!RemoteOffer BY <1>t, <1>3
  <2>3. w \in Remote!RemoteOffer /\ w.price = remoteOffer[o].price /\ w.state = "published"
    BY <2>1, <2>2 DEF Remote!RemoteOffer, Remote!OfferState
  <2>4. remoteOffer' = [remoteOffer EXCEPT ![o] = w] BY <1>2, <2>1
  <2>5. /\ remoteOffer' \in Seq(Remote!RemoteOffer) /\ Len(remoteOffer') = Len(remoteOffer)
        /\ remoteOffer'[o] = w /\ \A x \in 1..Len(remoteOffer) : x # o => remoteOffer'[x] = remoteOffer[x]
    BY <1>t, <1>3, <2>3, <2>4
  <2>. QED BY <1>t, <1>2, <1>3, <2>3, <2>5 DEF StatesMove
<1>5. Told' /\ ReportMoves
  BY <1>2, <1>3, <1>4 DEF Told, ReportMoves, StatesMove, RemoteInv, RemoteTypes
<1>6. lostAnswers' \in 0..MaxLostAnswers BY Counted DEF Remote!PublishOffer
<1>7. Onward(c) BY <1>2, <1>4, <1>5, <1>6, Counted DEF Onward
<1>8. CASE Remote!Calls(c, "verify")
  <2>1. PICK l \in Operation : /\ client' = [client EXCEPT ![c] = l]
                               /\ l.call = "verify" /\ l.offer = client[c].offer
    BY <1>8, NextCall DEF CallNames
  <2>2. Fits(l)' BY <1>1, <1>3, <1>4, <2>1 DEF Fits
  <2>. QED BY <1>7, <2>1, <2>2, CallStep
<1>9. CASE Remote!Ends(c) BY <1>7, <1>9, EndStep
<1>. QED BY <1>8, <1>9 DEF Remote!PublishOffer

\* Withdrawing the offer.
LEMMA WithdrawOfferStep ==
  ASSUME RemoteInv, NEW c \in Clients, Remote!WithdrawOffer(c)
  PROVE  RemoteInv'
<1>1. PICK o : o = client[c].offer OBVIOUS
<1>t. /\ client[c] \in Operation /\ remoteOffer \in Seq(Remote!RemoteOffer)
      /\ Len(remoteOffer) \in Nat /\ fulfilled \in BOOLEAN
  BY DEF RemoteInv, RemoteTypes
<1>2. /\ client[c].call = "withdraw"
      /\ remoteOffer' = [remoteOffer EXCEPT ![o].state = "withdrawn"]
      /\ UNCHANGED <<fulfilled, operations, reported, crossed>>
  BY <1>1 DEF Remote!WithdrawOffer, Remote!At
<1>3. o \in 1..Len(remoteOffer) BY <1>t, <1>1, <1>2 DEF RemoteInv, Fits, Operation
<1>4. StatesMove
  <2>1. PICK w : w = [remoteOffer[o] EXCEPT !.state = "withdrawn"] OBVIOUS
  <2>2. remoteOffer[o] \in Remote!RemoteOffer BY <1>t, <1>3
  <2>3. w \in Remote!RemoteOffer /\ w.price = remoteOffer[o].price /\ w.state = "withdrawn"
    BY <2>1, <2>2 DEF Remote!RemoteOffer, Remote!OfferState
  <2>4. remoteOffer' = [remoteOffer EXCEPT ![o] = w] BY <1>2, <2>1
  <2>5. /\ remoteOffer' \in Seq(Remote!RemoteOffer) /\ Len(remoteOffer') = Len(remoteOffer)
        /\ remoteOffer'[o] = w /\ \A x \in 1..Len(remoteOffer) : x # o => remoteOffer'[x] = remoteOffer[x]
    BY <1>t, <1>3, <2>3, <2>4
  <2>. QED BY <1>t, <1>2, <1>3, <2>3, <2>5 DEF StatesMove
<1>5. Told' /\ ReportMoves
  BY <1>2, <1>3, <1>4 DEF Told, ReportMoves, StatesMove, RemoteInv, RemoteTypes
<1>6. lostAnswers' \in 0..MaxLostAnswers BY Counted DEF Remote!WithdrawOffer
<1>7. Onward(c) BY <1>2, <1>4, <1>5, <1>6, Counted DEF Onward
<1>8. CASE Remote!Calls(c, "confirm")
  <2>1. PICK l \in Operation : /\ client' = [client EXCEPT ![c] = l]
                               /\ l.call = "confirm" /\ l.offer = client[c].offer
    BY <1>8, NextCall DEF CallNames
  <2>2. Fits(l)' BY <1>1, <1>3, <2>1 DEF Fits
  <2>. QED BY <1>7, <2>1, <2>2, CallStep
<1>9. CASE Remote!Ends(c) BY <1>7, <1>9, EndStep
<1>. QED BY <1>8, <1>9 DEF Remote!WithdrawOffer

\* Reading the offer, for any of the operations.
LEMMA GetOfferStep ==
  ASSUME RemoteInv, NEW c \in Clients, Remote!GetOffer(c)
  PROVE  RemoteInv'
<1>1. PICK o : o = client[c].offer OBVIOUS
<1>t. /\ client \in [Clients -> Operation] /\ remoteOffer \in Seq(Remote!RemoteOffer)
      /\ Len(remoteOffer) \in Nat
  BY DEF RemoteInv, RemoteTypes
<1>2. /\ client[c].call = "read"
      /\ client' = [client EXCEPT ![c].read = remoteOffer[o].price, ![c].call = "put"]
      /\ UNCHANGED <<remoteOffer, fulfilled, lostAnswers, operations, reported, crossed>>
  BY <1>1 DEF Remote!GetOffer, Remote!At
<1>3. client[c] \in Operation /\ o \in 1..Len(remoteOffer) /\ client[c].op = "update"
  BY <1>t, <1>1, <1>2 DEF RemoteInv, Fits, Operation
<1>4. PICK n : n = remoteOffer[o].price OBVIOUS
<1>5. n \in ListPrices /\ n > 0
  <2>3. remoteOffer[o] \in Remote!RemoteOffer BY <1>t, <1>3
  <2>1. n \in ListPrices BY <1>4, <2>3 DEF Remote!RemoteOffer
  <2>2. n \in Nat \ {0} BY <2>1, EbayAssumption
  <2>. QED BY <2>1, <2>2
<1>6. PICK q : q = [client[c] EXCEPT !.read = n] OBVIOUS
<1>7. q \in Operation /\ q.read = n /\ q.op = "update" /\ q.offer = o
  BY <1>1, <1>3, <1>5, <1>6 DEF Operation
<1>8. PICK l : l = [q EXCEPT !.call = "put"] OBVIOUS
<1>9. l \in Operation /\ l.call = "put" /\ l.read = n /\ l.op = "update" /\ l.offer = o
  BY <1>7, <1>8 DEF Operation, CallNames
<1>10. client' = [client EXCEPT ![c] = l]
  <2>1. client'[c] = l BY <1>t, <1>2, <1>4, <1>6, <1>8
  <2>2. client' = [d \in Clients |-> IF d = c THEN client'[c] ELSE client[d]] BY <1>t, <1>2
  <2>. QED BY <1>t, <2>1, <2>2
<1>11. Fits(l)' BY <1>3, <1>5, <1>9 DEF Fits
<1>12. Onward(c) BY <1>2, OffersUntouched, Counted DEF Onward
<1>. QED BY <1>4, <1>9, <1>10, <1>11, <1>12, CallStep

\* A new operation: the call it starts with and what it was given.
LEMMA StartStep ==
  ASSUME RemoteInv, NEW c \in Clients, NEW l \in Operation, Remote!Starts(c), Fits(l),
         client' = [client EXCEPT ![c] = l],
         UNCHANGED <<remoteOffer, fulfilled, lostAnswers, reported, crossed>>,
         l.call \in {"search", "read", "withdraw", "fulfil"}
  PROVE  RemoteInv'
<1>1. client[c].call = "none" BY DEF Remote!Starts, Remote!Idle
<1>2. Onward(c) BY <1>1, OffersUntouched, Counted DEF Onward, Remote!Starts
<1>3. Fits(l)' BY DEF Fits
<1>. QED BY <1>2, <1>3, CallStep

\* What an operation starts with: its kind and its first call, its offer, its price.
LEMMA Opened ==
  ASSUME RemoteInv, NEW k \in {"none", "create", "update", "end", "track"}, NEW m \in CallNames
  PROVE  \E q \in Operation : /\ q = [Remote!Idle EXCEPT !.op = k, !.call = m]
                              /\ q.op = k /\ q.call = m
<1>1. Len(remoteOffer) \in Nat BY DEF RemoteInv, RemoteTypes
<1>2. Remote!Idle \in Operation BY <1>1, EbayAssumption DEF Remote!Idle, Operation, CallNames
<1>3. PICK i : i = [Remote!Idle EXCEPT !.op = k] OBVIOUS
<1>4. i \in Operation /\ i.op = k BY <1>2, <1>3 DEF Operation
<1>5. PICK q : q = [i EXCEPT !.call = m] OBVIOUS
<1>6. q \in Operation /\ q.op = k /\ q.call = m BY <1>4, <1>5 DEF Operation
<1>7. q = [Remote!Idle EXCEPT !.op = k, !.call = m] BY <1>3, <1>5
<1>. QED BY <1>6, <1>7

\* An operation with another offer is an operation of the same kind.
LEMMA WithOffer ==
  ASSUME NEW q \in Operation, NEW o \in 0..Len(remoteOffer)
  PROVE  /\ [q EXCEPT !.offer = o] \in Operation
         /\ [q EXCEPT !.offer = o].op = q.op /\ [q EXCEPT !.offer = o].call = q.call
         /\ [q EXCEPT !.offer = o].offer = o
  BY DEF Operation

\* An operation with another price is an operation of the same kind.
LEMMA WithPrice ==
  ASSUME NEW q \in Operation, NEW p \in ListPrices \cup {0}
  PROVE  /\ [q EXCEPT !.price = p] \in Operation
         /\ [q EXCEPT !.price = p].op = q.op /\ [q EXCEPT !.price = p].call = q.call
         /\ [q EXCEPT !.price = p].offer = q.offer /\ [q EXCEPT !.price = p].price = p
  BY DEF Operation

\* Starting any of the operations.
LEMMA StartsStep ==
  ASSUME RemoteInv, NEW c \in Clients,
         \/ Remote!StartCreate(c) \/ Remote!StartUpdate(c) \/ Remote!StartEnd(c)
         \/ Remote!StartTracking(c)
  PROVE  RemoteInv'
<1>0. Len(remoteOffer) \in Nat /\ DOMAIN remoteOffer = 1..Len(remoteOffer)
  BY DEF RemoteInv, RemoteTypes
<1>1. ASSUME NEW p \in ListPrices,
             client' = [client EXCEPT ![c] =
                      [Remote!Idle EXCEPT !.op = "create", !.call = "search", !.price = p]]
      PROVE  \E l \in Operation : /\ client' = [client EXCEPT ![c] = l] /\ Fits(l)
                                  /\ l.call \in {"search", "read", "withdraw", "fulfil"}
  <2>1. PICK q \in Operation : /\ q = [Remote!Idle EXCEPT !.op = "create", !.call = "search"]
                               /\ q.op = "create" /\ q.call = "search"
    BY Opened DEF CallNames
  <2>2. PICK l : l = [q EXCEPT !.price = p] OBVIOUS
  <2>3. l \in Operation /\ l.call = "search" /\ l.price = p BY <2>1, <2>2, WithPrice
  <2>4. p > 0
    <3>1. p \in Nat \ {0} BY EbayAssumption
    <3>. QED BY <3>1
  <2>5. Fits(l) BY <2>3, <2>4 DEF Fits
  <2>6. client' = [client EXCEPT ![c] = l] BY <1>1, <2>1, <2>2
  <2>. QED BY <2>3, <2>5, <2>6
<1>2. ASSUME NEW o \in 1..Len(remoteOffer), NEW p \in ListPrices \cup {0},
             client' = [client EXCEPT ![c] =
                      [Remote!Idle EXCEPT !.op = "update", !.call = "read", !.offer = o, !.price = p]]
      PROVE  \E l \in Operation : /\ client' = [client EXCEPT ![c] = l] /\ Fits(l)
                                  /\ l.call \in {"search", "read", "withdraw", "fulfil"}
  <2>1. PICK q \in Operation : /\ q = [Remote!Idle EXCEPT !.op = "update", !.call = "read"]
                               /\ q.op = "update" /\ q.call = "read"
    BY Opened DEF CallNames
  <2>2. PICK i : i = [q EXCEPT !.offer = o] OBVIOUS
  <2>3. o \in 0..Len(remoteOffer) /\ o > 0 BY <1>0
  <2>4. i \in Operation /\ i.op = "update" /\ i.call = "read" /\ i.offer = o
    BY <2>1, <2>2, <2>3, WithOffer
  <2>5. PICK l : l = [i EXCEPT !.price = p] OBVIOUS
  <2>6. l \in Operation /\ l.op = "update" /\ l.call = "read" /\ l.offer = o BY <2>4, <2>5, WithPrice
  <2>7. Fits(l) BY <2>3, <2>6 DEF Fits
  <2>8. client' = [client EXCEPT ![c] = l] BY <1>2, <2>1, <2>2, <2>5
  <2>. QED BY <2>6, <2>7, <2>8
<1>3. ASSUME NEW o \in 1..Len(remoteOffer),
             client' = [client EXCEPT ![c] =
                      [Remote!Idle EXCEPT !.op = "end", !.call = "withdraw", !.offer = o]]
      PROVE  \E l \in Operation : /\ client' = [client EXCEPT ![c] = l] /\ Fits(l)
                                  /\ l.call \in {"search", "read", "withdraw", "fulfil"}
  <2>1. PICK q \in Operation : /\ q = [Remote!Idle EXCEPT !.op = "end", !.call = "withdraw"]
                               /\ q.op = "end" /\ q.call = "withdraw"
    BY Opened DEF CallNames
  <2>2. PICK l : l = [q EXCEPT !.offer = o] OBVIOUS
  <2>3. o \in 0..Len(remoteOffer) /\ o > 0 BY <1>0
  <2>4. l \in Operation /\ l.call = "withdraw" /\ l.offer = o BY <2>1, <2>2, <2>3, WithOffer
  <2>5. Fits(l) BY <2>3, <2>4 DEF Fits
  <2>6. client' = [client EXCEPT ![c] = l] BY <1>3, <2>1, <2>2
  <2>. QED BY <2>4, <2>5, <2>6
<1>4. ASSUME client' = [client EXCEPT ![c] = [Remote!Idle EXCEPT !.op = "track", !.call = "fulfil"]]
      PROVE  \E l \in Operation : /\ client' = [client EXCEPT ![c] = l] /\ Fits(l)
                                  /\ l.call \in {"search", "read", "withdraw", "fulfil"}
  <2>1. PICK l \in Operation : /\ l = [Remote!Idle EXCEPT !.op = "track", !.call = "fulfil"]
                               /\ l.op = "track" /\ l.call = "fulfil"
    BY Opened DEF CallNames
  <2>2. Fits(l) BY <2>1 DEF Fits
  <2>. QED BY <1>4, <2>1, <2>2
<1>5. /\ \E l \in Operation : /\ client' = [client EXCEPT ![c] = l] /\ Fits(l)
                              /\ l.call \in {"search", "read", "withdraw", "fulfil"}
      /\ Remote!Starts(c) /\ UNCHANGED <<remoteOffer, fulfilled, lostAnswers, reported, crossed>>
  BY <1>0, <1>1, <1>2, <1>3, <1>4
  DEF Remote!StartCreate, Remote!StartUpdate, Remote!StartEnd, Remote!StartTracking
<1>. QED BY <1>5, StartStep

\* Every step of the adapter and of eBay keeps the invariant.
LEMMA RemoteStep ==
  ASSUME RemoteInv, [Remote!Next]_(Remote!vars)
  PROVE  RemoteInv'
<1>t. /\ client \in [Clients -> Operation] /\ remoteOffer \in Seq(Remote!RemoteOffer)
      /\ Len(remoteOffer) \in Nat /\ fulfilled \in BOOLEAN
      /\ DOMAIN remoteOffer = 1..Len(remoteOffer)
      /\ reported \in [live : SUBSET (1..Len(remoteOffer)), ended : SUBSET (1..Len(remoteOffer)),
                       price : Seq(ListPrices \cup {0}), tracked : BOOLEAN]
  BY DEF RemoteInv, RemoteTypes
<1>1. ASSUME NEW c \in Clients, Remote!CallFails(c) PROVE RemoteInv'
  <2>1. Onward(c)
    <3>1. UNCHANGED <<remoteOffer, fulfilled, lostAnswers, operations, reported>>
      BY <1>1 DEF Remote!CallFails
    <3>2. /\ crossed \subseteq crossed' /\ crossed' \subseteq {"twin", "crowd", "lost"}
          /\ client[c].call = "readback" => "lost" \in crossed'
      BY <1>1 DEF Remote!CallFails, Remote!At, RemoteInv, RemoteTypes
    <3>. QED BY <3>1, <3>2, OffersUntouched, Counted DEF Onward
  <2>. QED BY <1>1, <2>1, EndStep DEF Remote!CallFails
<1>2. ASSUME NEW c \in Clients, Remote!Search(c) PROVE RemoteInv'
  <2>1. /\ client[c].call = "search"
        /\ UNCHANGED <<remoteOffer, fulfilled, lostAnswers, operations, reported, crossed>>
    BY <1>2 DEF Remote!Search, Remote!At
  <2>2. Onward(c) BY <2>1, OffersUntouched, Counted DEF Onward
  <2>3. CASE remoteOffer = <<>> /\ Remote!Calls(c, "item")
    <3>1. PICK l \in Operation : /\ client' = [client EXCEPT ![c] = l]
                                 /\ l.call = "item" /\ l.price = client[c].price
      BY <2>3, NextCall DEF CallNames
    <3>2. Fits(l)' BY <2>1, <3>1 DEF Fits, RemoteInv
    <3>. QED BY <2>2, <2>3, <3>1, <3>2, CallStep
  <2>4. CASE Remote!Ends(c) BY <2>2, <2>4, EndStep
  <2>. QED BY <1>2, <2>3, <2>4 DEF Remote!Search, Remote!FindOffer
<1>3. ASSUME NEW c \in Clients, Remote!PutInventoryItem(c) PROVE RemoteInv'
  <2>1. /\ client[c].call = "item" /\ Remote!Calls(c, "offer")
        /\ UNCHANGED <<remoteOffer, fulfilled, lostAnswers, operations, reported, crossed>>
    BY <1>3 DEF Remote!PutInventoryItem, Remote!At
  <2>2. Onward(c) BY <2>1, OffersUntouched, Counted DEF Onward
  <2>3. PICK l \in Operation : /\ client' = [client EXCEPT ![c] = l]
                               /\ l.call = "offer" /\ l.price = client[c].price
    BY <2>1, NextCall DEF CallNames
  <2>4. Fits(l)' BY <2>1, <2>3 DEF Fits, RemoteInv
  <2>. QED BY <2>1, <2>2, <2>3, <2>4, CallStep
<1>4. ASSUME NEW c \in Clients, Remote!ConfirmEnded(c) \/ Remote!ReadListing(c) PROVE RemoteInv'
  <2>1. /\ Remote!Ends(c) /\ client[c].call # "readback"
        /\ UNCHANGED <<remoteOffer, fulfilled, lostAnswers, operations, crossed>>
    BY <1>t, <1>4 DEF Remote!ConfirmEnded, Remote!ReadListing, Remote!At, Remote!Ends, Remote!Idle
  <2>2. \/ reported' = reported
        \/ \E o \in 1..Len(remoteOffer) :
              remoteOffer[o].state = "withdrawn" /\ reported' = [reported EXCEPT !.ended = @ \cup {o}]
    <3>1. client[c].call = "confirm" => client[c].offer \in 1..Len(remoteOffer)
      BY <1>t DEF RemoteInv, Fits, Operation
    <3>. QED BY <1>t, <1>4, <3>1 DEF Remote!ConfirmEnded, Remote!ReadListing, Remote!At
  <2>3. ASSUME NEW o \in 1..Len(remoteOffer), remoteOffer[o].state = "withdrawn",
               reported' = [reported EXCEPT !.ended = @ \cup {o}]
        PROVE  ReportMoves /\ Told'
    BY <1>t, <2>1, <2>3 DEF ReportMoves, Told, RemoteInv
  <2>4. StatesMove BY <2>1, OffersUntouched
  <2>5. ReportMoves /\ Told' BY <2>1, <2>2, <2>3, OffersUntouched
  <2>6. Onward(c) BY <2>1, <2>4, <2>5, Counted DEF Onward
  <2>. QED BY <2>1, <2>6, EndStep
<1>5. ASSUME NEW c \in Clients, Remote!CreateFulfillment(c) PROVE RemoteInv'
  <2>1. /\ client[c].call = "fulfil" /\ fulfilled' = TRUE
        /\ UNCHANGED <<remoteOffer, operations, reported, crossed>>
    BY <1>5 DEF Remote!CreateFulfillment, Remote!At
  <2>2. StatesMove /\ ReportMoves /\ Told'
    BY <1>t, <2>1 DEF StatesMove, ReportMoves, Told, RemoteInv
  <2>3. lostAnswers' \in 0..MaxLostAnswers BY <1>5, Counted DEF Remote!CreateFulfillment
  <2>4. Onward(c) BY <2>1, <2>2, <2>3, Counted DEF Onward
  <2>5. CASE Remote!Calls(c, "verifyTracking")
    <3>1. PICK l \in Operation : client' = [client EXCEPT ![c] = l] /\ l.call = "verifyTracking"
      BY <2>5, NextCall DEF CallNames
    <3>2. Fits(l)' BY <3>1 DEF Fits
    <3>. QED BY <2>4, <3>1, <3>2, CallStep
  <2>6. CASE Remote!Ends(c) BY <2>4, <2>6, EndStep
  <2>. QED BY <1>5, <2>5, <2>6 DEF Remote!CreateFulfillment
<1>6. ASSUME NEW c \in Clients, Remote!VerifyTracking(c) PROVE RemoteInv'
  <2>1. /\ client[c].call = "verifyTracking" /\ Remote!Ends(c)
        /\ reported' = [reported EXCEPT !.tracked = @ \/ fulfilled]
        /\ UNCHANGED <<remoteOffer, fulfilled, lostAnswers, operations, crossed>>
    BY <1>6 DEF Remote!VerifyTracking, Remote!At
  <2>2. ReportMoves /\ Told'
    <3>1. PICK b \in BOOLEAN : b <=> (reported.tracked \/ fulfilled) OBVIOUS
    <3>2. reported' = [reported EXCEPT !.tracked = b] BY <1>t, <2>1, <3>1
    <3>3. /\ reported' \in [live : SUBSET (1..Len(remoteOffer)), ended : SUBSET (1..Len(remoteOffer)),
                            price : Seq(ListPrices \cup {0}), tracked : BOOLEAN]
          /\ reported'.price = reported.price /\ reported'.tracked = b
          /\ reported'.live = reported.live /\ reported'.ended = reported.ended
      BY <1>t, <3>2
    <3>. QED BY <1>t, <2>1, <3>1, <3>3 DEF ReportMoves, Told, RemoteInv
  <2>3. Onward(c) BY <2>1, <2>2, OffersUntouched, Counted DEF Onward
  <2>. QED BY <2>1, <2>3, EndStep
<1>7. CASE UNCHANGED Remote!vars
  <2>1. UNCHANGED <<remoteOffer, fulfilled, client, lostAnswers, operations, reported, crossed>>
    BY <1>7 DEF Remote!vars
  <2>2. RemoteTypes' BY <2>1 DEF RemoteInv, RemoteTypes, Operation
  <2>3. \A c \in Clients : Fits(client[c])' BY <2>1 DEF RemoteInv, Fits
  <2>4. OneOffer' /\ Told' BY <2>1 DEF RemoteInv, OneOffer, Told
  <2>5. PricesTold' BY <2>1 DEF RemoteInv, PricesTold, Quiet, Writing
  <2>. QED BY <2>2, <2>3, <2>4, <2>5 DEF RemoteInv
<1>. QED BY <1>1, <1>2, <1>3, <1>4, <1>5, <1>6, <1>7, StartsStep, GetOfferStep, PublishOfferStep,
            WithdrawOfferStep, CreateOfferStep, VerifyCreatedStep, UpdateOfferStep, ReadBackStep
         DEF Remote!Next

\* eBay: an item has one offer, and what the adapter reported of it is so, but
\* for twin creates, crossed updates and lost answers.
THEOREM ReportsAlwaysHold == Spec => []ReportsHold
<1>1. RemoteInv => ReportsHold
  <2>. SUFFICES ASSUME RemoteInv PROVE Remote!ReportsHold BY DEF ReportsHold
  <2>t. Len(remoteOffer) \in Nat /\ DOMAIN remoteOffer = 1..Len(remoteOffer)
    BY DEF RemoteInv, RemoteTypes
  <2>1. Len(remoteOffer) > 1 => "twin" \in crossed BY <2>t DEF RemoteInv, OneOffer
  <2>2. \A o \in DOMAIN remoteOffer :
          (crossed \cap {"crowd", "lost"} = {} /\ ~\E c \in Clients : Remote!UpdatesOffer(c, o))
            => reported.price[o] \in {0, remoteOffer[o].price}
    <3>1. \A c \in Clients : client[c].call = "readback" => client[c].op = "update"
      BY DEF RemoteInv, Fits
    <3>. QED BY <2>t, <3>1 DEF RemoteInv, PricesTold, Quiet, Remote!UpdatesOffer
  <2>. QED BY <2>1, <2>2 DEF RemoteInv, Told, Remote!ReportsHold
<1>. QED BY <1>1, RemoteSpec, RemoteInit, RemoteStep, PTL DEF Remote!Spec

\* eBay: the offers, the operation and its reports have their types.
LEMMA RemoteTypeCorrect == Spec => []Remote!TypeOK
<1>1. RemoteInv => Remote!TypeOK BY DEF RemoteInv, RemoteTypes, Operation, Remote!TypeOK
<1>. QED BY <1>1, RemoteSpec, RemoteInit, RemoteStep, PTL DEF Remote!Spec

-----------------------------------------------------------------------------
(* Offers *)

Handling == [phase : {"idle", "evaluated", "sent"}, decision : Buyer!Decision,
             requested : Buyer!Requested, ok : BOOLEAN]

BuyerTypes ==
    /\ terms \in Buyer!Decision /\ changes \in 0..MaxTerms /\ live \in BOOLEAN
    /\ offer \in Buyer!Row /\ answered \in Buyer!Answer \cup {Buyer!Plain("none")}
    /\ handler \in [Handlers -> Handling]
    /\ saved \subseteq {a.status : a \in Buyer!Answer} /\ offerFaults \in 0..MaxOfferFaults
    /\ astray \subseteq {"overwritten", "shadowed", "simulated", "amount", "lost"}

\* An answer the application takes for given is the marketplace's.
Given(answer) ==
    astray \cap {"shadowed", "simulated"} = {} =>
        /\ answer.status = answered.status
        /\ "amount" \notin astray => answer = answered

Brings(h) == h.phase = "sent" /\ h.ok

\* The marketplace's answer is final: it is the only one saved, unless the
\* simulated adapter took another, it is what a
\* handler is about to store and what is stored, and while nothing has gone
\* astray it is stored or about to be.
BuyerInv ==
    /\ BuyerTypes
    /\ "simulated" \notin astray => saved \subseteq {answered.status} \ {"none"}
    /\ offer.status = "none" => /\ answered.status = "none"
                                /\ \A c \in Handlers : handler[c].phase = "idle"
    /\ offer \in Buyer!Answer => Given(offer)
    /\ \A c \in Handlers : Brings(handler[c]) =>
          handler[c].decision \in Buyer!Answer /\ Given(handler[c].decision)
    /\ (answered.status # "none" /\ astray = {}) =>
          \/ offer = answered
          \/ \E c \in Handlers : Brings(handler[c]) /\ handler[c].decision = answered

\* A behaviour of the services is a behaviour of the offers.
LEMMA BuyerSpec == Spec => Buyer!Spec
<1>1. Init => Buyer!Init BY DEF Init
<1>2. [Next]_vars => [Buyer!Next]_(Buyer!vars)
  BY DEF Next, vars, MediaMoves, DomainMoves, StudyMoves, QueueMoves,
         MarketMoves, SchedulerMoves, BrokerMoves, BuyerMoves, ThreadMoves,
         UpkeepMoves, DispatchMoves, ArithmeticMoves, RemoteMoves, ApiMoves,
         buyerVars, Buyer!vars
<1>. QED BY <1>1, <1>2, PTL DEF Spec, Buyer!Spec

\* What is answered has a status of its own.
LEMMA Statuses ==
  /\ \A a \in Buyer!Answer : a.status \in {"accepted", "declined", "countered"}
  /\ Buyer!Plain("none").status = "none" /\ Buyer!Plain("pending").status = "pending"
  /\ Buyer!Plain("escalated").status = "escalated"
  /\ Buyer!Plain("defer").status = "defer"
  /\ Buyer!Plain("none") \in Buyer!Row /\ Buyer!Plain("pending") \in Buyer!Row
  /\ Buyer!Plain("escalated") \in Buyer!Row /\ Buyer!Plain("defer") \in Buyer!Decision
  /\ Buyer!Plain("none") \in Buyer!Requested /\ Buyer!Answer \subseteq Buyer!Row
  /\ Buyer!Answer \subseteq Buyer!Decision
  BY DEF Buyer!Answer, Buyer!Counters, Buyer!Plain, Buyer!Row, Buyer!Decision, Buyer!Requested

\* Before the first handling the offer waits and nobody has answered.
LEMMA BuyerInit == Buyer!Init => BuyerInv
<1>. SUFFICES ASSUME Buyer!Init PROVE BuyerInv OBVIOUS
<1>. USE Statuses DEF Buyer!Init
<1>1. Buyer!Idle \in Handling /\ Buyer!Idle.phase = "idle" BY DEF Buyer!Idle, Handling
<1>2. handler \in [Handlers -> Handling] /\ \A c \in Handlers : handler[c].phase = "idle" BY <1>1
<1>3. BuyerTypes BY <1>2, OffersAssumption DEF BuyerTypes
<1>4. offer \notin Buyer!Answer /\ answered.status = "none" OBVIOUS
<1>. QED BY <1>2, <1>3, <1>4 DEF BuyerInv, Brings

\* A handler that is done, or only evaluates, leaves the rest as it is.
LEMMA HandlerRest ==
  ASSUME BuyerInv, NEW c \in Handlers, NEW h \in Handling,
         handler' = [handler EXCEPT ![c] = h], ~Brings(h), ~Brings(handler[c]) \/ astray' # {},
         offer.status # "none", UNCHANGED <<terms, changes, live, answered, saved>>,
         offerFaults' \in 0..MaxOfferFaults,
         astray \subseteq astray', astray' \subseteq {"overwritten", "shadowed", "simulated", "amount", "lost"},
         \/ offer' = offer
         \/ offer' = Buyer!Plain("escalated") /\ (answered.status # "none" => astray' # {})
  PROVE  BuyerInv'
<1>t. handler \in [Handlers -> Handling] BY DEF BuyerInv, BuyerTypes
<1>1. /\ handler' \in [Handlers -> Handling] /\ handler'[c] = h
      /\ \A d \in Handlers \ {c} : handler'[d] = handler[d]
  BY <1>t
<1>2. offer' \in Buyer!Row /\ offer'.status # "none" BY Statuses DEF BuyerInv, BuyerTypes
<1>3. BuyerTypes' BY <1>1, <1>2 DEF BuyerInv, BuyerTypes
<1>4. \A a : Given(a) => Given(a)' BY DEF Given
<1>5. offer' \in Buyer!Answer => Given(offer)' BY <1>4, Statuses DEF BuyerInv, Given
<1>6. \A d \in Handlers : Brings(handler'[d]) =>
          handler'[d].decision \in Buyer!Answer /\ Given(handler[d].decision)'
  BY <1>1 DEF BuyerInv, Given
<1>7. (answered'.status # "none" /\ astray' = {}) =>
          \/ offer' = answered'
          \/ \E d \in Handlers : Brings(handler'[d]) /\ handler'[d].decision = answered'
  <2>. SUFFICES ASSUME answered.status # "none", astray' = {}
                PROVE  \/ offer' = answered
                       \/ \E d \in Handlers : Brings(handler'[d]) /\ handler'[d].decision = answered
    OBVIOUS
  <2>1. offer' = offer /\ astray = {} OBVIOUS
  <2>2. \/ offer = answered
        \/ \E d \in Handlers : Brings(handler[d]) /\ handler[d].decision = answered
    BY <2>1 DEF BuyerInv
  <2>. QED BY <1>1, <2>1, <2>2
<1>. QED BY <1>2, <1>3, <1>5, <1>6, <1>7 DEF BuyerInv, Brings

\* Whatever the marketplace knows, an answer it gives or has given is given.
LEMMA SendStep ==
  ASSUME BuyerInv, NEW c \in Handlers, Buyer!SendAnswer(c)
  PROVE  BuyerInv'
<1>1. PICK answer : answer = handler[c].decision OBVIOUS
<1>t. /\ handler \in [Handlers -> Handling]
      /\ answered \in Buyer!Answer \cup {Buyer!Plain("none")}
      /\ astray \subseteq {"overwritten", "shadowed", "simulated", "amount", "lost"}
  BY DEF BuyerInv, BuyerTypes
<1>2. /\ handler[c].phase = "evaluated" /\ answer \in Buyer!Answer
      /\ UNCHANGED <<terms, changes, live, offer>>
  BY <1>1 DEF Buyer!SendAnswer
<1>3. PICK ok \in BOOLEAN :
         /\ handler' = [handler EXCEPT ![c].phase = "sent", ![c].ok = ok]
         /\ offerFaults' \in 0..MaxOfferFaults
         /\ \/ /\ ok /\ Buyer!Replayed(answer) /\ UNCHANGED <<answered, saved>>
               /\ astray' = astray \cup (IF answer # answered THEN {"amount"} ELSE {})
            \/ /\ ok /\ astray' = astray \cup {"shadowed"} /\ UNCHANGED <<answered, saved>>
            \/ /\ ok /\ Buyer!Takes(answer) /\ UNCHANGED astray
               /\ answered' = answer /\ saved' = saved \cup {answer.status}
            \/ /\ ~ok /\ Buyer!Takes(answer) /\ answered' = answer /\ UNCHANGED saved
               /\ astray' = astray \cup {"lost"}
            \/ /\ ~ok /\ ~Buyer!Takes(answer) /\ UNCHANGED <<answered, astray, saved>>
            \/ /\ ok /\ astray' = astray \cup {"simulated"} /\ UNCHANGED answered
               /\ saved' = saved \cup {answer.status}
  <2>1. UNCHANGED offerFaults => offerFaults' \in 0..MaxOfferFaults BY DEF BuyerInv, BuyerTypes
  <2>2. Buyer!Fault => offerFaults' \in 0..MaxOfferFaults
    <3>1. offerFaults \in 0..MaxOfferFaults BY DEF BuyerInv, BuyerTypes
    <3>. QED BY <3>1, OffersAssumption DEF Buyer!Fault
  <2>3. CASE /\ Buyer!Replayed(answer) \/ ~live
             /\ handler' = [handler EXCEPT ![c].phase = "sent", ![c].ok = TRUE]
             /\ astray' = astray \cup (IF ~Buyer!Replayed(answer) THEN {"shadowed"}
                                       ELSE IF answer # answered THEN {"amount"} ELSE {})
             /\ UNCHANGED <<answered, saved, offerFaults>>
    BY <2>1, <2>3
  <2>4. CASE /\ Buyer!Takes(answer) /\ answered' = answer /\ saved' = saved \cup {answer.status}
             /\ handler' = [handler EXCEPT ![c].phase = "sent", ![c].ok = TRUE]
             /\ UNCHANGED <<astray, offerFaults>>
    BY <2>1, <2>4
  <2>5. CASE /\ Buyer!Takes(answer) /\ Buyer!Fault
             /\ answered' = answer /\ astray' = astray \cup {"lost"}
             /\ handler' = [handler EXCEPT ![c].phase = "sent", ![c].ok = FALSE]
             /\ UNCHANGED saved
    BY <2>2, <2>5
  <2>6. CASE /\ ~Buyer!Takes(answer)
             /\ handler' = [handler EXCEPT ![c].phase = "sent", ![c].ok = FALSE]
             /\ UNCHANGED <<answered, astray, saved, offerFaults>>
    BY <2>1, <2>6
  <2>7. CASE /\ Buyer!Fault /\ saved' = saved \cup {answer.status}
             /\ astray' = astray \cup {"simulated"}
             /\ handler' = [handler EXCEPT ![c].phase = "sent", ![c].ok = TRUE]
             /\ UNCHANGED answered
    BY <2>2, <2>7
  <2>. QED BY <1>1, <2>3, <2>4, <2>5, <2>6, <2>7 DEF Buyer!SendAnswer
<1>4. PICK h : /\ h \in Handling /\ h.phase = "sent" /\ h.ok = ok /\ h.decision = answer
               /\ handler' = [handler EXCEPT ![c] = h]
  <2>1. PICK m : m = [handler[c] EXCEPT !.phase = "sent"] OBVIOUS
  <2>2. m \in Handling /\ m.phase = "sent" /\ m.decision = answer
    BY <1>t, <1>1, <2>1 DEF Handling
  <2>3. PICK h : h = [m EXCEPT !.ok = ok] OBVIOUS
  <2>4. h \in Handling /\ h.phase = "sent" /\ h.ok = ok /\ h.decision = answer
    BY <2>2, <2>3 DEF Handling
  <2>5. handler' = [handler EXCEPT ![c] = h]
    <3>1. handler'[c] = h BY <1>t, <1>3, <2>1, <2>3
    <3>2. handler' = [d \in Handlers |-> IF d = c THEN handler'[c] ELSE handler[d]] BY <1>t, <1>3
    <3>. QED BY <1>t, <3>1, <3>2
  <2>. QED BY <2>4, <2>5
<1>5. /\ handler' \in [Handlers -> Handling] /\ handler'[c] = h
      /\ \A d \in Handlers \ {c} : handler'[d] = handler[d]
  BY <1>t, <1>4
<1>6. /\ answered' \in Buyer!Answer \cup {Buyer!Plain("none")}
      /\ "simulated" \notin astray' => saved' \subseteq {answered'.status} \ {"none"}
      /\ saved' \subseteq {a.status : a \in Buyer!Answer}
      /\ answered.status # "none" => answered' = answered
      /\ astray \subseteq astray' /\ astray' \subseteq {"overwritten", "shadowed", "simulated", "amount", "lost"}
  <2>1. /\ "simulated" \notin astray => saved \subseteq {answered.status} \ {"none"}
        /\ saved \subseteq {a.status : a \in Buyer!Answer}
    BY DEF BuyerInv, BuyerTypes
  <2>2. answer.status # "none" BY <1>2, Statuses
  <2>3. Buyer!Takes(answer) => answered.status = "none" \/ answered = answer
    BY Statuses DEF Buyer!Takes
  <2>. QED BY <1>t, <1>2, <1>3, <2>1, <2>2, <2>3
<1>7. BuyerTypes' BY <1>2, <1>3, <1>5, <1>6 DEF BuyerInv, BuyerTypes
<1>8. \A a \in Buyer!Answer : Given(a) => Given(a)'
  <2>. SUFFICES ASSUME NEW a \in Buyer!Answer, Given(a),
                       astray' \cap {"shadowed", "simulated"} = {}
                PROVE  /\ a.status = answered'.status
                       /\ "amount" \notin astray' => a = answered'
    BY DEF Given
  <2>1. astray \cap {"shadowed", "simulated"} = {} /\ a.status = answered.status BY <1>6 DEF Given
  <2>2. answered.status # "none" BY <2>1, Statuses
  <2>. QED BY <1>6, <2>1, <2>2 DEF Given
<1>9. ok => Given(answer)'
  <2>1. Buyer!Replayed(answer) => answer.status = answered.status \/ "simulated" \in astray
    BY DEF BuyerInv, Buyer!Replayed
  <2>. QED BY <1>3, <2>1 DEF Given
<1>10. offer' \in Buyer!Answer => Given(offer)'
  BY <1>2, <1>8 DEF BuyerInv, Given
<1>11. \A d \in Handlers : Brings(handler'[d]) =>
          handler'[d].decision \in Buyer!Answer /\ Given(handler[d].decision)'
  <2>. SUFFICES ASSUME NEW d \in Handlers, Brings(handler'[d])
                PROVE  handler'[d].decision \in Buyer!Answer /\ Given(handler[d].decision)'
    OBVIOUS
  <2>1. CASE d = c BY <1>2, <1>4, <1>5, <1>9, <2>1 DEF Brings, Given
  <2>2. CASE d # c BY <1>5, <1>8, <2>2 DEF BuyerInv, Given
  <2>. QED BY <2>1, <2>2
<1>12. (answered'.status # "none" /\ astray' = {}) =>
          \/ offer' = answered'
          \/ \E d \in Handlers : Brings(handler'[d]) /\ handler'[d].decision = answered'
  <2>. SUFFICES ASSUME answered'.status # "none", astray' = {}
                PROVE  \/ offer = answered'
                       \/ \E d \in Handlers : Brings(handler'[d]) /\ handler'[d].decision = answered'
    BY <1>2
  <2>1. CASE ok
    <3>1. answered' = answer BY <1>3, <1>6, <2>1
    <3>2. Brings(handler'[c]) /\ handler'[c].decision = answer BY <1>4, <1>5, <2>1 DEF Brings
    <3>. QED BY <3>1, <3>2
  <2>2. CASE ~ok
    <3>1. answered' = answered /\ astray = {} BY <1>3, <1>6, <2>2
    <3>2. \/ offer = answered
          \/ \E d \in Handlers : Brings(handler[d]) /\ handler[d].decision = answered
      BY <3>1 DEF BuyerInv
    <3>3. ~Brings(handler[c]) BY <1>2 DEF Brings
    <3>. QED BY <1>5, <3>1, <3>2, <3>3
  <2>. QED BY <2>1, <2>2
<1>13. offer'.status # "none" BY <1>2 DEF BuyerInv
<1>. QED BY <1>6, <1>7, <1>10, <1>11, <1>12, <1>13 DEF BuyerInv, Brings

\* Storing the answer that was sent.
LEMMA StoreAnswerStep ==
  ASSUME BuyerInv, NEW c \in Handlers, Buyer!StoreAnswer(c)
  PROVE  BuyerInv'
<1>t. handler \in [Handlers -> Handling] BY DEF BuyerInv, BuyerTypes
<1>0. Buyer!Idle \in Handling /\ Buyer!Idle.phase = "idle" BY Statuses DEF Buyer!Idle, Handling
<1>1. /\ handler[c].phase = "sent" /\ handler' = [handler EXCEPT ![c] = Buyer!Idle]
      /\ offer' = IF handler[c].ok THEN handler[c].decision ELSE offer
      /\ UNCHANGED <<terms, changes, live, answered, saved, offerFaults, astray>>
  BY DEF Buyer!StoreAnswer, Buyer!Done
<1>2. offer.status # "none" BY <1>1 DEF BuyerInv
<1>3. CASE ~handler[c].ok
  <2>1. ~Brings(handler[c]) /\ ~Brings(Buyer!Idle) BY <1>0, <1>3 DEF Brings
  <2>2. offerFaults' \in 0..MaxOfferFaults /\ astray' \subseteq {"overwritten", "shadowed", "simulated", "amount", "lost"}
    BY <1>1 DEF BuyerInv, BuyerTypes
  <2>. QED BY <1>0, <1>1, <1>2, <1>3, <2>1, <2>2, HandlerRest
<1>4. CASE handler[c].ok
  <2>1. /\ offer' = handler[c].decision /\ offer' \in Buyer!Answer /\ Given(handler[c].decision)
    BY <1>1, <1>4 DEF BuyerInv, Brings
  <2>2. Given(offer)' BY <1>1, <2>1 DEF Given
  <2>3. /\ handler' \in [Handlers -> Handling] /\ handler'[c] = Buyer!Idle
        /\ \A d \in Handlers \ {c} : handler'[d] = handler[d]
    BY <1>t, <1>0, <1>1
  <2>4. BuyerTypes' BY <1>1, <2>1, <2>3, Statuses DEF BuyerInv, BuyerTypes
  <2>5. \A d \in Handlers : Brings(handler'[d]) =>
          handler'[d].decision \in Buyer!Answer /\ Given(handler[d].decision)'
    BY <1>0, <1>1, <2>3 DEF BuyerInv, Given, Brings
  <2>6. (answered'.status # "none" /\ astray' = {}) => offer' = answered'
    BY <1>1, <2>1 DEF Given
  <2>7. offer'.status # "none" BY <2>1, Statuses
  <2>. QED BY <1>1, <2>2, <2>4, <2>5, <2>6, <2>7 DEF BuyerInv, Brings
<1>. QED BY <1>3, <1>4

\* Every step of the offer's handlers keeps the invariant.
LEMMA BuyerStep ==
  ASSUME BuyerInv, [Buyer!Next]_(Buyer!vars)
  PROVE  BuyerInv'
<1>t. /\ handler \in [Handlers -> Handling] /\ terms \in Buyer!Decision
      /\ astray \subseteq {"overwritten", "shadowed", "simulated", "amount", "lost"}
      /\ offerFaults \in 0..MaxOfferFaults /\ changes \in 0..MaxTerms
  BY DEF BuyerInv, BuyerTypes
<1>0. Buyer!Idle \in Handling /\ ~Brings(Buyer!Idle)
  BY Statuses DEF Buyer!Idle, Handling, Brings
<1>1. CASE Buyer!TermsChange
  <2>1. /\ terms' \in Buyer!Decision /\ live' \in BOOLEAN /\ changes' \in 0..MaxTerms
        /\ UNCHANGED <<offer, answered, handler, saved, offerFaults, astray>>
    <3>1. changes < MaxTerms /\ changes' = changes + 1 BY <1>1 DEF Buyer!TermsChange
    <3>2. changes' \in 0..MaxTerms BY <1>t, <3>1, OffersAssumption
    <3>. QED BY <1>1, <3>2 DEF Buyer!TermsChange, BuyerInv, BuyerTypes
  <2>. QED BY <2>1 DEF BuyerInv, BuyerTypes, Given, Brings
<1>2. CASE Buyer!SyncOffers
  <2>1. /\ offer.status = "none" /\ offer' = Buyer!Plain("pending") /\ terms' \in Buyer!Decision
        /\ UNCHANGED <<changes, live, answered, handler, saved, offerFaults, astray>>
    BY <1>2 DEF Buyer!SyncOffers
  <2>2. offer' \in Buyer!Row /\ offer' \notin Buyer!Answer /\ offer'.status # "none"
    BY <2>1, Statuses
  <2>3. BuyerTypes' BY <2>1, <2>2 DEF BuyerInv, BuyerTypes
  <2>4. answered.status = "none" BY <2>1 DEF BuyerInv
  <2>. QED BY <2>1, <2>2, <2>3, <2>4 DEF BuyerInv, Given, Brings
<1>3. ASSUME NEW c \in Handlers, Buyer!Evaluate(c) PROVE BuyerInv'
  <2>1. /\ handler[c].phase = "idle" /\ offer.status # "none"
        /\ UNCHANGED <<terms, changes, live, offer, answered, saved, offerFaults, astray>>
    BY <1>3 DEF Buyer!Evaluate
  <2>2. PICK q \in Buyer!Requested : handler' = [handler EXCEPT ![c] =
           [phase |-> "evaluated", decision |-> terms, requested |-> q, ok |-> FALSE]]
    BY <1>3 DEF Buyer!Evaluate
  <2>3. PICK h : h = [phase |-> "evaluated", decision |-> terms, requested |-> q, ok |-> FALSE]
    OBVIOUS
  <2>4. h \in Handling /\ ~Brings(h) BY <1>t, <2>3 DEF Handling, Brings
  <2>5. ~Brings(handler[c]) BY <2>1 DEF Brings
  <2>6. handler' = [handler EXCEPT ![c] = h] BY <2>2, <2>3
  <2>. QED BY <1>t, <2>1, <2>4, <2>5, <2>6, HandlerRest
<1>4. ASSUME NEW c \in Handlers, Buyer!Escalate(c) PROVE BuyerInv'
  <2>1. /\ handler[c].phase = "evaluated" /\ offer' = Buyer!Plain("escalated")
        /\ astray' = IF answered.status = "none" THEN astray ELSE astray \cup {"overwritten"}
        /\ handler' = [handler EXCEPT ![c] = Buyer!Idle]
        /\ UNCHANGED <<terms, changes, live, answered, saved, offerFaults>>
    BY <1>4 DEF Buyer!Escalate, Buyer!Done
  <2>2. offer.status # "none" /\ ~Brings(handler[c]) BY <2>1 DEF BuyerInv, Brings
  <2>3. /\ astray \subseteq astray' /\ astray' \subseteq {"overwritten", "shadowed", "simulated", "amount", "lost"}
        /\ answered.status # "none" => astray' # {}
    BY <1>t, <2>1
  <2>. QED BY <1>t, <1>0, <2>1, <2>2, <2>3, HandlerRest
<1>5. ASSUME NEW c \in Handlers, Buyer!Defer(c) PROVE BuyerInv'
  <2>1. /\ handler[c].phase = "evaluated" /\ handler' = [handler EXCEPT ![c] = Buyer!Idle]
        /\ UNCHANGED <<terms, changes, live, offer, answered, saved, offerFaults, astray>>
    BY <1>5 DEF Buyer!Defer, Buyer!Done
  <2>2. offer.status # "none" /\ ~Brings(handler[c]) BY <2>1 DEF BuyerInv, Brings
  <2>. QED BY <1>t, <1>0, <2>1, <2>2, HandlerRest
<1>6. ASSUME NEW c \in Handlers, Buyer!HandlerDies(c) PROVE BuyerInv'
  <2>1. /\ handler[c].phase = "sent" /\ handler' = [handler EXCEPT ![c] = Buyer!Idle]
        /\ astray' = astray \cup {"lost"}
        /\ UNCHANGED <<terms, changes, live, offer, answered, saved>>
        /\ offerFaults < MaxOfferFaults /\ offerFaults' = offerFaults + 1
    BY <1>6 DEF Buyer!HandlerDies, Buyer!Done, Buyer!Fault
  <2>2. offerFaults' \in 0..MaxOfferFaults BY <1>t, <2>1, OffersAssumption
  <2>3. offer.status # "none" /\ astray' # {} BY <2>1 DEF BuyerInv
  <2>4. astray \subseteq astray' /\ astray' \subseteq {"overwritten", "shadowed", "simulated", "amount", "lost"}
    BY <1>t, <2>1
  <2>. QED BY <1>0, <2>1, <2>2, <2>3, <2>4, HandlerRest
<1>7. CASE UNCHANGED Buyer!vars
  BY <1>7 DEF Buyer!vars, BuyerInv, BuyerTypes, Given, Brings
<1>. QED BY <1>1, <1>2, <1>3, <1>4, <1>5, <1>6, <1>7, SendStep, StoreAnswerStep DEF Buyer!Next

\* Offers: a row that says answered tells the answer that was given, and the
\* other way round, but for the named ways an answer goes astray.
THEOREM AnswerToldHolds == Spec => []AnswerTold
<1>1. BuyerInv => AnswerTold
  BY DEF BuyerInv, Given, Brings, AnswerTold, Buyer!AnswerTold, Buyer!Answering
<1>. QED BY <1>1, BuyerSpec, BuyerInit, BuyerStep, PTL DEF Buyer!Spec

\* Offers: the offer, its row and what the handlers hold have their types.
LEMMA BuyerTypeCorrect == Spec => []Buyer!TypeOK
<1>1. BuyerInv => Buyer!TypeOK BY DEF BuyerInv, BuyerTypes, Handling, Buyer!TypeOK
<1>. QED BY <1>1, BuyerSpec, BuyerInit, BuyerStep, PTL DEF Buyer!Spec

-----------------------------------------------------------------------------
(* Messages *)

Responding == [phase : {"idle", "read", "classified", "sending", "sent"},
               body : Bodies \cup {Thread!NoBody}, facts : Facts \cup {Thread!NoFacts},
               ok : BOOLEAN]

ThreadTypes ==
    /\ category \in [Bodies -> Thread!Category \cup {Thread!Unread}]
    /\ inbound \subseteq Bodies /\ known \subseteq Thread!Texts
    /\ responder \in [Responders -> Responding]
    /\ outcome \in [Bodies -> Thread!Outcome]
    /\ replies \in [Thread!Texts -> Nat] /\ crowd \in [Thread!Texts -> Nat]
    /\ pretended \subseteq Thread!Texts
    /\ messageFaults \in 0..MaxMessageFaults /\ dropped \subseteq Bodies

\* Sent, or taken by the simulated adapter.
Answered(t) == t \in Thread!Texts /\ (replies[t] > 0 \/ t \in pretended)

\* The text of a responder's reply.
Says(q) == Thread!Text(category[q.body], q.facts)

\* Some text of the body's category was answered.
Heard(b) == \E f \in Facts : Answered(Thread!Text(category[b], f))

\* What a responder knows of its body: it is recorded before it is classified,
\* and its key was not known when a reply set out.
Knows(q) ==
    /\ q.phase # "idle" => q.body \in Bodies /\ q.facts \in Facts
    /\ q.phase \in {"classified", "sending", "sent"} => q.body \in inbound
    /\ q.phase \in {"sending", "sent"} => category[q.body] \in Thread!Routine
    /\ q.phase = "sending" => replies[Says(q)] <= crowd[Says(q)]
    /\ q.phase = "sent" /\ q.ok => Answered(Says(q))

\* What the bodies' records tell.
Recorded ==
    /\ \A b \in inbound : category[b] \in Thread!Category
    /\ \A b \in Bodies : outcome[b] # "none" => b \in inbound
    /\ \A b \in Bodies : outcome[b] = "delivered" => Heard(b)

\* A first reply nobody crowded is known of.
MessagesCounted ==
    /\ \A k \in Thread!Texts : \/ replies[k] <= crowd[k]
                               \/ k \in known /\ replies[k] <= 1 + crowd[k]
    /\ \A k \in known : Answered(k)

TakenUp(b) == outcome[b] # "none" \/ \E r \in Responders : /\ responder[r].phase # "idle"
                                                         /\ responder[r].body = b

ThreadInv ==
    /\ ThreadTypes /\ Recorded /\ MessagesCounted
    /\ \A r \in Responders : Knows(responder[r])
    /\ \A b \in inbound \ dropped : TakenUp(b)

\* A routine category and a caller's facts make a text.
LEMMA TextTyped ==
  ASSUME NEW k \in Thread!Routine, NEW f \in Facts
  PROVE  Thread!Text(k, f) \in Thread!Texts
BY DEF Thread!Texts

\* A behaviour of the services is a behaviour of the thread.
LEMMA ThreadSpec == Spec => Thread!Spec
<1>1. Init => Thread!Init BY DEF Init
<1>2. [Next]_vars => [Thread!Next]_(Thread!vars)
  BY DEF Next, vars, MediaMoves, DomainMoves, StudyMoves, QueueMoves,
         MarketMoves, SchedulerMoves, BrokerMoves, BuyerMoves, ThreadMoves,
         UpkeepMoves, DispatchMoves, ArithmeticMoves, RemoteMoves, ApiMoves,
         threadVars, Thread!vars
<1>. QED BY <1>1, <1>2, PTL DEF Spec, Thread!Spec

\* Before the first message there is none, and no reply.
LEMMA ThreadInit == Thread!Init => ThreadInv
<1>. SUFFICES ASSUME Thread!Init PROVE ThreadInv OBVIOUS
<1>. USE DEF Thread!Init
<1>1. Thread!Idle \in Responding /\ Thread!Idle.phase = "idle"
  BY DEF Thread!Idle, Responding
<1>2. responder \in [Responders -> Responding] /\ \A r \in Responders : responder[r].phase = "idle"
  BY <1>1
<1>3. ThreadTypes BY <1>2, MessagesAssumption DEF ThreadTypes, Thread!Outcome
<1>4. Recorded BY DEF Recorded
<1>5. MessagesCounted BY DEF MessagesCounted
<1>. QED BY <1>2, <1>3, <1>4, <1>5 DEF ThreadInv, Knows

\* A responder goes on or is done, without a reply: what it leaves of its body
\* is an outcome, or its death.
LEMMA ResponderRest ==
  ASSUME ThreadInv, NEW r \in Responders, NEW q \in Responding,
         responder' = [responder EXCEPT ![r] = q], Knows(q)',
         UNCHANGED <<replies, known, crowd, pretended>>, messageFaults' \in 0..MaxMessageFaults,
         inbound \subseteq inbound', inbound' \subseteq Bodies,
         inbound' = inbound \/ (q.phase # "idle" /\ inbound' = inbound \cup {q.body}),
         category' \in [Bodies -> Thread!Category \cup {Thread!Unread}],
         \A b \in inbound' : category'[b] \in Thread!Category,
         \A b \in inbound : category'[b] = category[b],
         dropped \subseteq dropped', dropped' \subseteq Bodies,
         outcome' \in [Bodies -> Thread!Outcome],
         \A b \in Bodies : outcome'[b] = outcome[b] \/
            /\ outcome'[b] # "none" /\ b \in inbound'
            /\ outcome'[b] = "delivered" => Heard(b),
         \/ responder[r].phase = "idle"
         \/ q.phase # "idle" /\ q.body = responder[r].body
         \/ responder[r].body \in dropped'
         \/ responder[r].body \in Bodies /\ outcome'[responder[r].body] # "none",
         \A b \in Bodies : outcome'[b] # outcome[b] => b \in inbound
  PROVE  ThreadInv'
<1>t. responder \in [Responders -> Responding] BY DEF ThreadInv, ThreadTypes
<1>1. /\ responder' \in [Responders -> Responding] /\ responder'[r] = q
      /\ \A o \in Responders \ {r} : responder'[o] = responder[o]
  BY <1>t
<1>2. ThreadTypes' BY <1>1 DEF ThreadInv, ThreadTypes
<1>3. Recorded'
  <2>1. \A b \in Bodies : outcome'[b] # "none" => b \in inbound' BY DEF ThreadInv, Recorded
  <2>2. \A b \in Bodies : outcome'[b] = "delivered" => Heard(b) /\ b \in inbound
    BY DEF ThreadInv, Recorded
  <2>3. \A b \in inbound : Heard(b) => Heard(b)' BY DEF Heard, Answered
  <2>. QED BY <2>1, <2>2, <2>3 DEF Recorded
<1>4. MessagesCounted' BY DEF ThreadInv, MessagesCounted, Answered
<1>5. ASSUME NEW o \in Responders PROVE Knows(responder[o])'
  <2>1. CASE o = r BY <1>1, <2>1
  <2>2. CASE o # r
    <3>1. responder'[o] = responder[o] /\ Knows(responder[o]) BY <1>1, <2>2 DEF ThreadInv
    <3>2. responder[o].phase \in {"classified", "sending", "sent"} =>
            category'[responder[o].body] = category[responder[o].body]
      BY <3>1 DEF Knows
    <3>3. PICK p : p = responder[o] OBVIOUS
    <3>4. p.phase \in {"sending", "sent"} => Says(p)' = Says(p) BY <3>2, <3>3 DEF Says
    <3>. QED BY <3>1, <3>2, <3>3, <3>4 DEF Knows, Answered
  <2>. QED BY <2>1, <2>2
<1>6. ASSUME NEW b \in inbound' \ dropped' PROVE TakenUp(b)'
  <2>1. CASE b \in inbound
    <3>1. TakenUp(b) /\ b \in Bodies BY <2>1 DEF ThreadInv, ThreadTypes
    <3>2. CASE outcome[b] # "none" BY <3>1, <3>2 DEF TakenUp
    <3>3. CASE \E o \in Responders : responder[o].phase # "idle" /\ responder[o].body = b
      BY <1>1, <3>1, <3>3 DEF TakenUp
    <3>. QED BY <3>1, <3>2, <3>3 DEF TakenUp
  <2>2. CASE b \notin inbound BY <1>1, <2>2 DEF TakenUp
  <2>. QED BY <2>1, <2>2
<1>. QED BY <1>2, <1>3, <1>4, <1>5, <1>6 DEF ThreadInv

\* The phase of a responder, and whether its reply went out, are fields of its own.
LEMMA PhaseSet ==
  ASSUME NEW q \in Responding, NEW phase \in {"idle", "read", "classified", "sending", "sent"},
         NEW ok \in BOOLEAN
  PROVE  /\ [q EXCEPT !.phase = phase] \in Responding
         /\ [q EXCEPT !.phase = phase].phase = phase
         /\ [q EXCEPT !.phase = phase].body = q.body
         /\ [q EXCEPT !.phase = phase].facts = q.facts
         /\ [q EXCEPT !.phase = phase].ok = q.ok
         /\ [q EXCEPT !.phase = phase, !.ok = ok] \in Responding
         /\ [q EXCEPT !.phase = phase, !.ok = ok].phase = phase
         /\ [q EXCEPT !.phase = phase, !.ok = ok].body = q.body
         /\ [q EXCEPT !.phase = phase, !.ok = ok].facts = q.facts
         /\ [q EXCEPT !.phase = phase, !.ok = ok].ok = ok
  BY DEF Responding

\* A responder takes up a body.
LEMMA TakeUpStep ==
  ASSUME ThreadInv, NEW r \in Responders, Thread!ReadMessage(r) \/ Thread!AskToRespond(r)
  PROVE  ThreadInv'
<1>1. /\ responder[r].phase = "idle" /\ messageFaults' \in 0..MaxMessageFaults
      /\ UNCHANGED <<category, inbound, outcome, replies, known, crowd, pretended, dropped>>
  <2>1. messageFaults \in 0..MaxMessageFaults BY DEF ThreadInv, ThreadTypes
  <2>2. CASE Thread!ReadMessage(r) BY <2>1, <2>2 DEF Thread!ReadMessage
  <2>3. CASE Thread!AskToRespond(r)
    <3>1. messageFaults < MaxMessageFaults /\ messageFaults' = messageFaults + 1
      BY <2>3 DEF Thread!AskToRespond, Thread!Fault
    <3>2. messageFaults' \in 0..MaxMessageFaults BY <2>1, <3>1, MessagesAssumption
    <3>. QED BY <2>3, <3>2 DEF Thread!AskToRespond
  <2>. QED BY <2>2, <2>3
<1>2. PICK b \in Bodies, f \in Facts :
        responder' = [responder EXCEPT
          ![r] = [Thread!Idle EXCEPT !.phase = "read", !.body = b, !.facts = f]]
  BY DEF Thread!ReadMessage, Thread!AskToRespond, Thread!Takes, ThreadInv, ThreadTypes
<1>3. PICK q : q = [Thread!Idle EXCEPT !.phase = "read", !.body = b, !.facts = f] OBVIOUS
<1>4. q \in Responding /\ q.phase = "read" /\ q.body = b /\ q.facts = f
  BY <1>3 DEF Thread!Idle, Responding
<1>5. Knows(q)' BY <1>4 DEF Knows
<1>. QED BY <1>1, <1>2, <1>3, <1>4, <1>5, ResponderRest DEF ThreadInv, ThreadTypes, Recorded

\* A body is recorded, and gets the category it has or a first one.
LEMMA RecordInboundStep ==
  ASSUME ThreadInv, NEW r \in Responders, Thread!RecordInbound(r)
  PROVE  ThreadInv'
<1>1. PICK b : b = responder[r].body OBVIOUS
<1>t. /\ responder \in [Responders -> Responding] /\ inbound \subseteq Bodies
      /\ category \in [Bodies -> Thread!Category \cup {Thread!Unread}]
      /\ responder[r].phase = "read" /\ b \in Bodies /\ responder[r].facts \in Facts
  BY <1>1 DEF ThreadInv, ThreadTypes, Knows, Thread!RecordInbound
<1>u. Thread!Unread \notin Thread!Category BY DEF Thread!Unread, Thread!Category, Thread!Routine
<1>2. /\ inbound' = inbound \cup {b}
      /\ responder' = [responder EXCEPT ![r].phase = "classified"]
      /\ UNCHANGED <<outcome, replies, known, messageFaults, crowd, pretended, dropped>>
  BY <1>1 DEF Thread!RecordInbound, Thread!Go
<1>3. PICK k \in Thread!Category : /\ category' = [category EXCEPT ![b] = k]
                                   /\ category[b] = Thread!Unread \/ category[b] = k
  <2>1. CASE category[b] = Thread!Unread BY <1>1, <2>1 DEF Thread!RecordInbound
  <2>2. CASE category[b] # Thread!Unread
    <3>1. category[b] \in Thread!Category BY <1>t, <2>2
    <3>2. category' = [category EXCEPT ![b] = category[b]] BY <1>1, <2>2 DEF Thread!RecordInbound
    <3>. QED BY <3>1, <3>2
  <2>. QED BY <2>1, <2>2
<1>4. PICK q : q = [responder[r] EXCEPT !.phase = "classified"] OBVIOUS
<1>5. /\ q \in Responding /\ q.phase = "classified" /\ q.body = b /\ q.facts \in Facts
      /\ responder' = [responder EXCEPT ![r] = q]
  <2>1. responder[r] \in Responding BY <1>t
  <2>. QED BY <1>1, <1>t, <1>2, <1>4, <2>1, PhaseSet
<1>6. /\ category' \in [Bodies -> Thread!Category \cup {Thread!Unread}]
      /\ \A c \in inbound' : category'[c] \in Thread!Category
      /\ \A c \in inbound : category'[c] = category[c]
  BY <1>t, <1>u, <1>2, <1>3 DEF ThreadInv, Recorded
<1>7. Knows(q)' BY <1>t, <1>2, <1>5 DEF Knows
<1>8. /\ messageFaults' \in 0..MaxMessageFaults /\ inbound' \subseteq Bodies
      /\ outcome' \in [Bodies -> Thread!Outcome] /\ dropped' \subseteq Bodies
  BY <1>t, <1>2 DEF ThreadInv, ThreadTypes
<1>. QED BY <1>1, <1>2, <1>5, <1>6, <1>7, <1>8, ResponderRest

\* A body that is escalated, or answered, or whose responder dies, is done with.
LEMMA DoneStep ==
  ASSUME ThreadInv, NEW r \in Responders,
         \/ Thread!EscalateMessage(r) \/ Thread!RecordOutbound(r) \/ Thread!ResponderDies(r)
  PROVE  ThreadInv'
<1>1. PICK b : b = responder[r].body OBVIOUS
<1>t. /\ responder \in [Responders -> Responding] /\ outcome \in [Bodies -> Thread!Outcome]
      /\ b \in Bodies /\ b \in inbound /\ inbound \subseteq Bodies
      /\ dropped \subseteq Bodies /\ messageFaults \in 0..MaxMessageFaults
      /\ category \in [Bodies -> Thread!Category \cup {Thread!Unread}]
      /\ \A c \in inbound : category[c] \in Thread!Category
  BY <1>1 DEF ThreadInv, ThreadTypes, Knows, Recorded,
              Thread!EscalateMessage, Thread!RecordOutbound, Thread!ResponderDies
<1>2. /\ responder' = [responder EXCEPT ![r] = Thread!Idle]
      /\ UNCHANGED <<category, inbound, replies, known, crowd, pretended>>
  BY DEF Thread!EscalateMessage, Thread!RecordOutbound, Thread!ResponderDies, Thread!Done
<1>3. Thread!Idle \in Responding /\ Thread!Idle.phase = "idle"
  BY DEF Thread!Idle, Responding
<1>4. Knows(Thread!Idle)' BY <1>3 DEF Knows
<1>5. /\ messageFaults' \in 0..MaxMessageFaults
      /\ dropped \subseteq dropped' /\ dropped' \subseteq Bodies
      /\ \/ outcome' = outcome /\ b \in dropped'
         \/ \E o \in Thread!Outcome \ {"none"} :
               /\ outcome' = [outcome EXCEPT ![b] = o]
               /\ o = "delivered" => Heard(b)
  <2>1. CASE Thread!EscalateMessage(r)
    <3>1. /\ outcome' = [outcome EXCEPT ![b] = "escalated"] /\ UNCHANGED <<messageFaults, dropped>>
      BY <1>1, <2>1 DEF Thread!EscalateMessage
    <3>2. "escalated" \in Thread!Outcome \ {"none"} BY DEF Thread!Outcome
    <3>. QED BY <1>t, <3>1, <3>2
  <2>2. CASE Thread!RecordOutbound(r)
    <3>1. responder[r].phase = "sent" /\ Knows(responder[r]) BY <2>2 DEF Thread!RecordOutbound, ThreadInv
    <3>2. CASE responder[r].ok
      <4>1. Heard(b) BY <1>1, <3>1, <3>2 DEF Knows, Heard, Says
      <4>. QED BY <1>1, <1>t, <2>2, <3>2, <4>1 DEF Thread!RecordOutbound, Thread!Outcome
    <3>3. CASE ~responder[r].ok
      BY <1>1, <1>t, <2>2, <3>3 DEF Thread!RecordOutbound, Thread!Outcome
    <3>. QED BY <3>2, <3>3
  <2>3. CASE Thread!ResponderDies(r)
    BY <1>1, <1>t, <2>3, MessagesAssumption DEF Thread!ResponderDies, Thread!Fault
  <2>. QED BY <2>1, <2>2, <2>3
<1>6. /\ outcome' \in [Bodies -> Thread!Outcome]
      /\ \A c \in Bodies : outcome'[c] = outcome[c] \/
            /\ outcome'[c] # "none" /\ c \in inbound
            /\ outcome'[c] = "delivered" => Heard(c)
      /\ b \in dropped' \/ outcome'[b] # "none"
  BY <1>t, <1>5
<1>. QED BY <1>1, <1>t, <1>2, <1>3, <1>4, <1>5, <1>6, ResponderRest

\* A key that is known replays its reply; one that is not lets a reply set out.
LEMMA CheckReplyStep ==
  ASSUME ThreadInv, NEW r \in Responders, Thread!CheckReply(r)
  PROVE  ThreadInv'
<1>1. PICK k : k = Says(responder[r]) OBVIOUS
<1>t. /\ responder \in [Responders -> Responding] /\ responder[r] \in Responding
      /\ responder[r].body \in inbound
      /\ category[responder[r].body] \in Thread!Routine /\ responder[r].facts \in Facts
      /\ responder[r].phase = "classified" /\ responder[r].body \in Bodies
      /\ UNCHANGED <<category, inbound, outcome, replies, known, messageFaults, crowd,
                      pretended, dropped>>
  BY DEF ThreadInv, ThreadTypes, Knows, Thread!CheckReply, Thread!Kind
<1>k. k \in Thread!Texts BY <1>1, <1>t, TextTyped DEF Says
<1>2. PICK phase : phase = IF k \in known THEN "sent" ELSE "sending" OBVIOUS
<1>3. responder' = [responder EXCEPT ![r].phase = phase, ![r].ok = TRUE]
  BY <1>1, <1>2 DEF Thread!CheckReply, Thread!MessageKey, Thread!Reply, Thread!Kind, Says
<1>4. PICK q : q = [responder[r] EXCEPT !.phase = phase, !.ok = TRUE] OBVIOUS
<1>5. phase \in {"idle", "read", "classified", "sending", "sent"} BY <1>2
<1>6. /\ q \in Responding /\ q.phase = phase /\ q.body = responder[r].body
      /\ q.facts = responder[r].facts
  BY <1>t, <1>4, <1>5 DEF Responding
<1>7. responder' = [responder EXCEPT ![r] = q] BY <1>t, <1>3, <1>4
<1>8. Knows(q)
  <2>1. k \in known => Answered(k) BY DEF ThreadInv, MessagesCounted
  <2>2. k \notin known => replies[k] <= crowd[k] BY <1>k DEF ThreadInv, MessagesCounted
  <2>3. Says(q) = k BY <1>1, <1>6 DEF Says
  <2>. QED BY <1>t, <1>2, <1>6, <2>1, <2>2, <2>3 DEF Knows
<1>9. Knows(q)' BY <1>t, <1>8 DEF Knows, Says, Answered
<1>10. /\ messageFaults' \in 0..MaxMessageFaults /\ inbound' \subseteq Bodies
       /\ category' \in [Bodies -> Thread!Category \cup {Thread!Unread}]
       /\ \A b \in inbound' : category'[b] \in Thread!Category
       /\ outcome' \in [Bodies -> Thread!Outcome] /\ dropped' \subseteq Bodies
  BY <1>t DEF ThreadInv, ThreadTypes, Recorded
<1>11. q.phase # "idle" BY <1>2, <1>6
<1>. QED BY <1>t, <1>6, <1>7, <1>9, <1>10, <1>11, ResponderRest

\* A reply goes out, is lost, or is refused.  Others of its key that are on
\* their way make it crowded.
LEMMA SendReplyStep ==
  ASSUME ThreadInv, NEW r \in Responders, Thread!SendReply(r)
  PROVE  ThreadInv'
<1>1. PICK k : k = Says(responder[r]) OBVIOUS
<1>t. /\ responder \in [Responders -> Responding] /\ responder[r] \in Responding
      /\ responder[r].body \in inbound /\ Knows(responder[r])
      /\ category[responder[r].body] \in Thread!Routine /\ responder[r].facts \in Facts
      /\ responder[r].phase = "sending" /\ responder[r].body \in Bodies
      /\ UNCHANGED <<category, inbound, outcome, dropped>>
      /\ replies \in [Thread!Texts -> Nat] /\ crowd \in [Thread!Texts -> Nat]
      /\ known \subseteq Thread!Texts /\ pretended \subseteq Thread!Texts
      /\ messageFaults \in 0..MaxMessageFaults
  BY DEF ThreadInv, ThreadTypes, Knows, Thread!SendReply
<1>k. k \in Thread!Texts /\ replies[k] <= crowd[k] BY <1>1, <1>t, TextTyped DEF Says, Knows
<1>2. PICK ok \in BOOLEAN :
        /\ responder' = [responder EXCEPT ![r].phase = "sent", ![r].ok = ok]
        /\ messageFaults' \in 0..MaxMessageFaults
        /\ \/ /\ replies' = [replies EXCEPT ![k] = @ + 1] /\ pretended' = pretended
              /\ \/ crowd' = [crowd EXCEPT ![k] = @ + 1] /\ known \subseteq known'
                 \/ ~Thread!Crowded(r) /\ crowd' = [crowd EXCEPT ![k] = @ + 0] /\ k \in known'
              /\ known' \subseteq known \cup {k} /\ known \subseteq known'
           \/ /\ known' = known \cup {k} /\ pretended' = pretended \cup {k}
              /\ UNCHANGED <<replies, crowd>>
           \/ ~ok /\ UNCHANGED <<replies, known, crowd, pretended>>
  <2>1. CASE /\ replies' = [replies EXCEPT ![k] = @ + 1] /\ known' = known \cup {k}
             /\ crowd' = [crowd EXCEPT ![k] = @ + (IF Thread!Crowded(r) THEN 1 ELSE 0)]
             /\ responder' = [responder EXCEPT ![r].phase = "sent", ![r].ok = TRUE]
             /\ UNCHANGED <<messageFaults, pretended>>
    BY <1>t, <2>1
  <2>f. Thread!Fault => messageFaults' \in 0..MaxMessageFaults
    BY <1>t, MessagesAssumption DEF Thread!Fault
  <2>2. CASE /\ Thread!Fault
             /\ replies' = [replies EXCEPT ![k] = @ + 1] /\ crowd' = [crowd EXCEPT ![k] = @ + 1]
             /\ responder' = [responder EXCEPT ![r].phase = "sent", ![r].ok = FALSE]
             /\ UNCHANGED <<known, pretended>>
    BY <2>2, <2>f
  <2>3. CASE /\ Thread!Fault
             /\ known' = known \cup {k} /\ pretended' = pretended \cup {k}
             /\ responder' = [responder EXCEPT ![r].phase = "sent", ![r].ok = TRUE]
             /\ UNCHANGED <<replies, crowd>>
    BY <2>3, <2>f
  <2>4. CASE /\ responder' = [responder EXCEPT ![r].phase = "sent", ![r].ok = FALSE]
             /\ UNCHANGED <<replies, known, messageFaults, crowd, pretended>>
    BY <1>t, <2>4
  <2>. QED BY <1>1, <2>1, <2>2, <2>3, <2>4
           DEF Thread!SendReply, Thread!Reply, Thread!Kind, Thread!MessageKey, Says
<1>3. PICK q : q = [responder[r] EXCEPT !.phase = "sent", !.ok = ok] OBVIOUS
<1>4. /\ q \in Responding /\ q.phase = "sent" /\ q.body = responder[r].body /\ q.ok = ok
      /\ q.facts = responder[r].facts
  BY <1>t, <1>3 DEF Responding
<1>5. responder' = [responder EXCEPT ![r] = q] BY <1>t, <1>2, <1>3
<1>6. /\ responder' \in [Responders -> Responding] /\ responder'[r] = q
      /\ \A o \in Responders \ {r} : responder'[o] = responder[o]
  BY <1>t, <1>4, <1>5
<1>7. /\ replies' \in [Thread!Texts -> Nat] /\ crowd' \in [Thread!Texts -> Nat]
      /\ known' \subseteq Thread!Texts /\ pretended' \subseteq Thread!Texts
      /\ pretended \subseteq pretended'
      /\ \A j \in Thread!Texts \ {k} : replies'[j] = replies[j] /\ crowd'[j] = crowd[j]
      /\ \A j \in Thread!Texts : replies'[j] >= replies[j] /\ crowd'[j] >= crowd[j]
      /\ ok => replies'[k] > 0 \/ k \in pretended'
      /\ replies'[k] <= crowd'[k] \/ (/\ ~Thread!Crowded(r) /\ k \in known'
                                      /\ replies'[k] <= 1 + crowd'[k])
      /\ known' = known \/ (known' \subseteq known \cup {k}
                              /\ (replies'[k] > 0 \/ k \in pretended'))
      /\ known \subseteq known'
  BY <1>t, <1>k, <1>2
<1>8. ThreadTypes' BY <1>t, <1>6, <1>7, <1>2 DEF ThreadInv, ThreadTypes
<1>a. ASSUME NEW t, Answered(t) PROVE Answered(t)' BY <1>t, <1>7, <1>a DEF Answered
<1>9. Recorded'
  <2>1. ASSUME NEW b \in Bodies, Heard(b) PROVE Heard(b)'
    <3>1. PICK f \in Facts : Answered(Thread!Text(category[b], f)) BY <2>1 DEF Heard
    <3>2. PICK t : t = Thread!Text(category[b], f) OBVIOUS
    <3>3. Answered(t)' BY <1>a, <3>1, <3>2
    <3>. QED BY <1>t, <3>2, <3>3 DEF Heard, Answered
  <2>. QED BY <1>t, <2>1 DEF ThreadInv, Recorded
<1>10. MessagesCounted'
  <2>1. ASSUME NEW j \in Thread!Texts
        PROVE  replies'[j] <= crowd'[j] \/ (j \in known' /\ replies'[j] <= 1 + crowd'[j])
    BY <1>7 DEF ThreadInv, MessagesCounted
  <2>2. ASSUME NEW j \in known' PROVE Answered(j)'
    <3>1. j \in known => Answered(j) BY DEF ThreadInv, MessagesCounted
    <3>2. j \in Thread!Texts BY <1>7
    <3>. QED BY <1>k, <1>7, <1>a, <3>1, <3>2 DEF Answered
  <2>. QED BY <2>1, <2>2 DEF MessagesCounted
<1>11. ASSUME NEW o \in Responders PROVE Knows(responder[o])'
  <2>1. CASE o = r
    <3>1. Says(q)' = k BY <1>1, <1>t, <1>4 DEF Says
    <3>. QED BY <1>t, <1>k, <1>4, <1>6, <1>7, <2>1, <3>1 DEF Knows, Answered
  <2>2. CASE o # r
    <3>1. PICK p : p = responder[o] OBVIOUS
    <3>2. responder'[o] = p /\ Knows(p) BY <1>6, <2>2, <3>1 DEF ThreadInv
    <3>3. PICK j : j = Says(p) OBVIOUS
    <3>4. p.phase \in {"sending", "sent"} => j \in Thread!Texts
      BY <3>2, <3>3, TextTyped DEF Knows, Says
    <3>5. p.phase = "sending" => replies'[j] <= crowd'[j]
      <4>1. CASE j # k BY <1>7, <3>2, <3>3, <3>4, <4>1 DEF Knows
      <4>2. CASE j = k /\ p.phase = "sending"
        <5>1. Thread!Crowded(r)
          BY <1>1, <2>2, <3>1, <3>3, <4>2 DEF Thread!Crowded, Thread!Reply, Thread!Kind, Says
        <5>. QED BY <1>7, <4>2, <5>1
      <4>. QED BY <4>1, <4>2
    <3>6. p.phase = "sent" /\ p.ok => Answered(j)'
      BY <1>a, <3>2, <3>3 DEF Knows
    <3>7. Says(p)' = j BY <1>t, <3>3 DEF Says
    <3>. QED BY <1>t, <3>2, <3>5, <3>6, <3>7 DEF Knows
  <2>. QED BY <2>1, <2>2
<1>12. ASSUME NEW b \in inbound' \ dropped' PROVE TakenUp(b)'
  <2>1. TakenUp(b) BY <1>t DEF ThreadInv
  <2>. QED BY <1>t, <1>4, <1>6, <2>1 DEF TakenUp
<1>. QED BY <1>8, <1>9, <1>10, <1>11, <1>12 DEF ThreadInv

\* Every step of the responders keeps the invariant.
LEMMA ThreadStep == ThreadInv /\ [Thread!Next]_(Thread!vars) => ThreadInv'
<1>. SUFFICES ASSUME ThreadInv, [Thread!Next]_(Thread!vars) PROVE ThreadInv' OBVIOUS
<1>1. CASE UNCHANGED Thread!vars
  <2>1. ThreadTypes' BY <1>1 DEF ThreadInv, ThreadTypes, Thread!vars
  <2>2. Recorded' /\ MessagesCounted'
    BY <1>1 DEF ThreadInv, Recorded, MessagesCounted, Heard, Answered, Thread!vars
  <2>3. \A r \in Responders : Knows(responder[r])'
    BY <1>1 DEF ThreadInv, Knows, Says, Answered, Thread!vars
  <2>4. \A b \in inbound' \ dropped' : TakenUp(b)' BY <1>1 DEF ThreadInv, TakenUp, Thread!vars
  <2>. QED BY <2>1, <2>2, <2>3, <2>4 DEF ThreadInv
<1>2. CASE Thread!Next
  BY <1>2, TakeUpStep, RecordInboundStep, DoneStep, CheckReplyStep, SendReplyStep DEF Thread!Next
<1>. QED BY <1>1, <1>2

\* Messages: a thread gets each text once, unless one was sent while the first
\* could not be known of; what is recorded as delivered was sent or simulated;
\* no recorded message is forgotten.
THEOREM OneReplyHolds == Spec => []OneReply
<1>1. ThreadInv => OneReply
  <2>. SUFFICES ASSUME ThreadInv PROVE Thread!OneReply BY DEF OneReply
  <2>1. \A t \in Thread!Texts : replies[t] <= 1 + crowd[t]
    BY DEF ThreadInv, ThreadTypes, MessagesCounted
  <2>. QED BY <2>1 DEF ThreadInv, Recorded, Heard, Answered, TakenUp, Thread!OneReply
<1>. QED BY <1>1, ThreadSpec, ThreadInit, ThreadStep, PTL DEF Thread!Spec

\* Messages: the thread and its responders have their types.
LEMMA ThreadTypeCorrect == Spec => []Thread!TypeOK
<1>1. ThreadInv => Thread!TypeOK BY DEF ThreadInv, ThreadTypes, Thread!TypeOK, Responding
<1>. QED BY <1>1, ThreadSpec, ThreadInit, ThreadStep, PTL DEF Thread!Spec

-----------------------------------------------------------------------------
(* Shipping *)

\* What a job or a request that ships is doing.
Shipping == [phase : {"idle", "loaded", "buying", "sent"},
             op : {"none", "label", "sync", "confirm"}, version : Nat,
             ok : BOOLEAN, label : BOOLEAN, shipped : BOOLEAN]

DispatchTypes ==
    /\ parcel \in Dispatch!Parcel /\ shipment \in Dispatch!Task /\ quote \in Dispatch!Cost
    /\ paid \in BOOLEAN /\ realWrites \in BOOLEAN /\ labels \in Nat
    /\ shipper \in [Shippers -> Shipping]
    /\ tracking \in {"none", "sync", "confirm"} /\ keys \subseteq {"label", "sync", "confirm"}
    /\ raised \subseteq Dispatch!Raised /\ books \in Dispatch!Books
    /\ shippingFaults \in 0..MaxShippingFaults
    /\ owed \subseteq {"crowded", "lost", "simulated", "conflict", "unshipped"}

\* What a caller holds is no newer than the task; a purchase that holds the
\* task as it is knows whether it has shipped, and that it has no label.
InTime(q) ==
    /\ q.op # "none" => shipment.status # "none" /\ q.version <= shipment.version
    /\ (q.op = "label" /\ q.version = shipment.version) =>
          ~shipment.label /\ (q.shipped <=> shipment.status = "shipped")
    /\ q.label => q.ok /\ q.op = "label" /\ q.phase = "sent"
    /\ q.phase = "buying" => q.op = "label"

\* There is a label to tell of, or the simulated adapter told of one.
Some == labels > 0 \/ "simulated" \in owed

\* Labels that the rows and the books tell of were bought or made up.
Bought ==
    /\ "label" \in keys => Some
    /\ \A c \in Shippers : shipper[c].label => Some
    /\ shipment.label \/ books.expense \/ shipment.cost \in {"fair", "over"} => Some

\* The first label is known of before anybody else may buy one.
OneBought ==
    owed \cap {"crowded", "lost"} = {} =>
        /\ labels <= 1
        /\ labels > 0 => /\ "label" \in keys
                         /\ \A c \in Shippers : shipper[c].phase # "buying"

\* A label that was bought is recorded, reported or about to be.
Accounted ==
    (labels > 0 /\ owed \cap {"lost", "conflict"} = {}) =>
        \/ shipment.label \/ "label_cost_exceeded" \in raised
        \/ \E c \in Shippers : shipper[c].label

DispatchInv ==
    /\ DispatchTypes /\ Bought /\ OneBought /\ Accounted
    /\ \A c \in Shippers : InTime(shipper[c])
    /\ "unshipped" \notin owed

\* A behaviour of the services is a behaviour of the shipping.
LEMMA DispatchSpec == Spec => Dispatch!Spec
<1>1. Init => Dispatch!Init BY DEF Init
<1>2. [Next]_vars => [Dispatch!Next]_(Dispatch!vars)
  BY DEF Next, vars, MediaMoves, DomainMoves, StudyMoves, QueueMoves,
         MarketMoves, SchedulerMoves, BrokerMoves, BuyerMoves, ThreadMoves,
         UpkeepMoves, DispatchMoves, ArithmeticMoves, RemoteMoves, ApiMoves,
         dispatchVars, Dispatch!vars
<1>. QED BY <1>1, <1>2, PTL DEF Spec, Dispatch!Spec

\* A caller that is done holds nothing.
LEMMA ShipperIdle ==
  /\ Dispatch!Idle \in Shipping /\ Dispatch!Idle.phase = "idle" /\ Dispatch!Idle.op = "none"
  /\ ~Dispatch!Idle.label /\ ~Dispatch!Idle.ok /\ Dispatch!Idle.version = 0
  BY DEF Dispatch!Idle, Shipping

\* Before the first order is paid there is no task and no label.
LEMMA DispatchInit == Dispatch!Init => DispatchInv
<1>. SUFFICES ASSUME Dispatch!Init PROVE DispatchInv OBVIOUS
<1>. USE DEF Dispatch!Init
<1>1. shipper \in [Shippers -> Shipping] /\ \A c \in Shippers : shipper[c] = Dispatch!Idle
  BY ShipperIdle
<1>2. DispatchTypes
  <2>1. shipment \in Dispatch!Task BY DEF Dispatch!Task, Dispatch!TaskStatus, Dispatch!Cost
  <2>2. books \in Dispatch!Books BY DEF Dispatch!Books
  <2>3. shippingFaults \in 0..MaxShippingFaults BY ShippingAssumption
  <2>. QED BY <1>1, <2>1, <2>2, <2>3 DEF DispatchTypes, Dispatch!Parcel, Dispatch!Cost
<1>3. \A c \in Shippers : InTime(shipper[c]) BY <1>1, ShipperIdle DEF InTime
<1>4. Bought BY <1>1, ShipperIdle DEF Bought, Some
<1>. QED BY <1>2, <1>3, <1>4 DEF DispatchInv, OneBought, Accounted

\* A step of a caller that buys and stores nothing: what it held of a label is
\* still held, or owed, or reported.
LEMMA ShipperRest ==
  ASSUME DispatchInv, NEW c \in Shippers, NEW q \in Shipping,
         shipper' = [shipper EXCEPT ![c] = q],
         UNCHANGED <<paid, parcel, realWrites, quote, shipment, labels, books>>,
         shippingFaults' \in 0..MaxShippingFaults,
         tracking' \in {"none", "sync", "confirm"}, keys \subseteq keys',
         keys' \subseteq keys \cup {"sync", "confirm"},
         raised \subseteq raised', raised' \subseteq Dispatch!Raised,
         owed \subseteq owed', owed' \subseteq owed \cup {"lost", "conflict"},
         InTime(q), q.phase = "buying" => "label" \notin keys,
         q.label => Some,
         shipper[c].label => \/ q.label \/ owed' \cap {"lost", "conflict"} # {}
                             \/ "label_cost_exceeded" \in raised'
  PROVE  DispatchInv'
<1>t. shipper \in [Shippers -> Shipping] BY DEF DispatchInv, DispatchTypes
<1>1. /\ shipper' \in [Shippers -> Shipping] /\ shipper'[c] = q
      /\ \A d \in Shippers \ {c} : shipper'[d] = shipper[d]
  BY <1>t
<1>2. DispatchTypes' BY <1>1 DEF DispatchInv, DispatchTypes
<1>3. "label" \in keys' <=> "label" \in keys OBVIOUS
<1>4. Bought' BY <1>1, <1>3 DEF DispatchInv, Bought, Some
<1>5. OneBought' BY <1>1, <1>3 DEF DispatchInv, OneBought, DispatchTypes
<1>6. Accounted'
  <2>. SUFFICES ASSUME labels > 0, owed' \cap {"lost", "conflict"} = {},
                       ~shipment.label, "label_cost_exceeded" \notin raised'
                PROVE  \E d \in Shippers : shipper'[d].label
    BY DEF Accounted
  <2>1. owed \cap {"lost", "conflict"} = {} /\ "label_cost_exceeded" \notin raised OBVIOUS
  <2>2. PICK d \in Shippers : shipper[d].label BY <2>1 DEF DispatchInv, Accounted
  <2>. QED BY <1>1, <2>2
<1>7. \A d \in Shippers : InTime(shipper[d])' BY <1>1 DEF DispatchInv, InTime
<1>8. "unshipped" \notin owed' BY DEF DispatchInv
<1>. QED BY <1>2, <1>4, <1>5, <1>6, <1>7, <1>8 DEF DispatchInv

\* A step that writes the task and lets its caller go: everybody else's hold
\* of the task is older than the new version.
LEMMA WrittenRest ==
  ASSUME DispatchInv, NEW c \in Shippers,
         shipper' = [shipper EXCEPT ![c] = Dispatch!Idle],
         UNCHANGED <<paid, parcel, realWrites, quote, labels, books, shippingFaults, tracking,
                     keys, raised, owed>>,
         shipment' \in Dispatch!Task, shipment'.version = shipment.version + 1,
         shipment'.status # "none",
         shipment'.label \/ shipment'.cost \in {"fair", "over"} => Some,
         shipment.label \/ shipper[c].label => shipment'.label
  PROVE  DispatchInv'
<1>t. /\ shipper \in [Shippers -> Shipping] /\ shipment.version \in Nat
  BY DEF DispatchInv, DispatchTypes, Dispatch!Task
<1>1. /\ shipper' \in [Shippers -> Shipping] /\ shipper'[c] = Dispatch!Idle
      /\ \A d \in Shippers \ {c} : shipper'[d] = shipper[d]
  BY <1>t, ShipperIdle
<1>2. DispatchTypes' BY <1>1 DEF DispatchInv, DispatchTypes
<1>4. Bought' BY <1>1, ShipperIdle DEF DispatchInv, Bought, Some
<1>5. OneBought' BY <1>1, ShipperIdle DEF DispatchInv, OneBought
<1>6. Accounted'
  <2>. SUFFICES ASSUME labels > 0, owed \cap {"lost", "conflict"} = {},
                       ~shipment'.label, "label_cost_exceeded" \notin raised
                PROVE  \E d \in Shippers : shipper'[d].label
    BY DEF Accounted
  <2>2. PICK d \in Shippers : shipper[d].label BY DEF DispatchInv, Accounted
  <2>. QED BY <1>1, <2>2
<1>7. ASSUME NEW d \in Shippers PROVE InTime(shipper[d])'
  <2>1. CASE d = c BY <1>1, <2>1, ShipperIdle DEF InTime
  <2>2. CASE d # c
    <3>1. PICK q : q = shipper[d] OBVIOUS
    <3>2. q \in Shipping /\ shipper'[d] = q /\ InTime(q) BY <1>t, <1>1, <2>2, <3>1 DEF DispatchInv
    <3>3. q.version \in Nat BY <3>2 DEF Shipping
    <3>4. q.op # "none" => q.version < shipment'.version BY <1>t, <3>2, <3>3 DEF InTime
    <3>5. InTime(q)' BY <1>t, <3>2, <3>3, <3>4 DEF InTime
    <3>. QED BY <3>2, <3>5 DEF InTime
  <2>. QED BY <2>1, <2>2
<1>. QED BY <1>2, <1>4, <1>5, <1>6, <1>7 DEF DispatchInv

\* The order, the account's mode, the new task and the books.
LEMMA AroundStep ==
  ASSUME DispatchInv,
         \/ Dispatch!SetMode \/ Dispatch!OrderPaid \/ Dispatch!CreateShippingTask
         \/ Dispatch!BlockPurchase \/ Dispatch!Reconcile
  PROVE  DispatchInv'
<1>1. UNCHANGED <<shipper, labels, tracking, keys, owed>>
  BY DEF Dispatch!SetMode, Dispatch!OrderPaid, Dispatch!CreateShippingTask,
         Dispatch!BlockPurchase, Dispatch!Reconcile, Dispatch!accounts, Dispatch!world
<1>2. /\ shipment' = shipment
      \/ /\ shipment.status = "none" /\ shipment' \in Dispatch!Task
         /\ shipment'.label = shipment.label /\ shipment'.cost = shipment.cost
  <2>1. CASE Dispatch!CreateShippingTask
    <3>1. PICK s : s = IF parcel' = "incomplete" THEN "pending" ELSE "ready" OBVIOUS
    <3>2. s \in Dispatch!TaskStatus BY <3>1 DEF Dispatch!TaskStatus
    <3>3. /\ shipment' = [shipment EXCEPT !.status = s, !.version = 1]
          /\ shipment.status = "none"
      BY <2>1, <3>1 DEF Dispatch!CreateShippingTask
    <3>4. shipment \in Dispatch!Task BY DEF DispatchInv, DispatchTypes
    <3>. QED BY <3>2, <3>3, <3>4 DEF Dispatch!Task
  <2>. QED BY <2>1 DEF Dispatch!SetMode, Dispatch!OrderPaid, Dispatch!BlockPurchase,
                       Dispatch!Reconcile
<1>3. /\ raised \subseteq raised' /\ raised' \subseteq Dispatch!Raised
      /\ \/ books' = books
         \/ books' \in Dispatch!Books /\ (books'.expense => shipment.cost \in {"fair", "over"})
  <2>1. CASE Dispatch!Reconcile
    <3>1. \E s \in {"preliminary", "final", "discrepancy"} :
            /\ books' = [status |-> s, expense |-> shipment.cost \in {"fair", "over"}]
            /\ Dispatch!Raise("reconciliation_discrepancy") \/ UNCHANGED raised
      <4>1. PICK feesMissing \in BOOLEAN, final \in BOOLEAN :
              LET wrong == feesMissing \/ (shipment.label /\ shipment.cost \notin {"fair", "over"}) IN
              /\ books' = [status |-> IF wrong THEN "discrepancy" ELSE
                                      IF final THEN "final" ELSE "preliminary",
                           expense |-> shipment.cost \in {"fair", "over"}]
              /\ IF wrong THEN Dispatch!Raise("reconciliation_discrepancy") ELSE UNCHANGED raised
        BY <2>1 DEF Dispatch!Reconcile
      <4>2. CASE feesMissing \/ (shipment.label /\ shipment.cost \notin {"fair", "over"})
        BY <4>1, <4>2
      <4>3. CASE ~(feesMissing \/ (shipment.label /\ shipment.cost \notin {"fair", "over"})) /\ final
        BY <4>1, <4>3
      <4>4. CASE ~(feesMissing \/ (shipment.label /\ shipment.cost \notin {"fair", "over"})) /\ ~final
        BY <4>1, <4>4
      <4>. QED BY <4>2, <4>3, <4>4
    <3>. PICK s \in {"preliminary", "final", "discrepancy"} :
            /\ books' = [status |-> s, expense |-> shipment.cost \in {"fair", "over"}]
            /\ Dispatch!Raise("reconciliation_discrepancy") \/ UNCHANGED raised
      BY <3>1
    <3>2. books' \in Dispatch!Books /\ (books'.expense => shipment.cost \in {"fair", "over"})
      <4>1. s \in {"none", "preliminary", "final", "discrepancy"} OBVIOUS
      <4>2. CASE shipment.cost \in {"fair", "over"}
        <5>t. (shipment.cost \in {"fair", "over"}) = TRUE BY <4>2
        <5>1. books' = [status |-> s, expense |-> TRUE] BY <5>t
        <5>. QED BY <4>1, <4>2, <5>1 DEF Dispatch!Books
      <4>3. CASE shipment.cost \notin {"fair", "over"}
        <5>f. (shipment.cost \in {"fair", "over"}) = FALSE BY <4>3
        <5>1. books' = [status |-> s, expense |-> FALSE] BY <5>f
        <5>. QED BY <4>1, <5>1 DEF Dispatch!Books
      <4>. QED BY <4>2, <4>3
    <3>3. raised \subseteq raised' /\ raised' \subseteq Dispatch!Raised
      BY DEF Dispatch!Raise, Dispatch!Raised, DispatchInv, DispatchTypes
    <3>. QED BY <3>2, <3>3
  <2>2. CASE Dispatch!BlockPurchase
    BY <2>2 DEF Dispatch!BlockPurchase, Dispatch!Raise, Dispatch!Raised, DispatchInv, DispatchTypes
  <2>. QED BY <2>1, <2>2
       DEF Dispatch!SetMode, Dispatch!OrderPaid, Dispatch!CreateShippingTask, Dispatch!accounts,
           DispatchInv, DispatchTypes
<1>4. /\ paid' \in BOOLEAN /\ realWrites' \in BOOLEAN /\ parcel' \in Dispatch!Parcel
      /\ quote' \in Dispatch!Cost /\ shippingFaults' \in 0..MaxShippingFaults
  <2>1. CASE Dispatch!SetMode
    <3>1. shippingFaults \in 0..MaxShippingFaults BY DEF DispatchInv, DispatchTypes
    <3>2. shippingFaults' \in 0..MaxShippingFaults
      BY <2>1, <3>1, ShippingAssumption DEF Dispatch!SetMode, Dispatch!Fault
    <3>. QED BY <2>1, <3>2 DEF Dispatch!SetMode, DispatchInv, DispatchTypes
  <2>2. CASE Dispatch!CreateShippingTask
    BY <2>2 DEF Dispatch!CreateShippingTask, DispatchInv, DispatchTypes
  <2>. QED BY <2>1, <2>2 DEF Dispatch!OrderPaid, Dispatch!BlockPurchase, Dispatch!Reconcile,
                             Dispatch!world, DispatchInv, DispatchTypes
<1>5. DispatchTypes' BY <1>1, <1>2, <1>3, <1>4 DEF DispatchInv, DispatchTypes
<1>6. Bought' BY <1>1, <1>2, <1>3 DEF DispatchInv, Bought, Some
<1>7. OneBought' BY <1>1 DEF DispatchInv, OneBought
<1>8. Accounted'
  <2>1. shipment'.label = shipment.label BY <1>2
  <2>. QED BY <1>1, <1>3, <2>1 DEF DispatchInv, Accounted
<1>9. \A c \in Shippers : InTime(shipper[c])' BY <1>1, <1>2 DEF DispatchInv, InTime
<1>. QED BY <1>1, <1>5, <1>6, <1>7, <1>8, <1>9 DEF DispatchInv

\* A caller loads the task for a purchase, or for the tracking.
LEMMA LoadStep ==
  ASSUME DispatchInv, NEW c \in Shippers, Dispatch!LoadPurchase(c) \/ Dispatch!LoadTracking(c)
  PROVE  DispatchInv'
<1>t. /\ shipper \in [Shippers -> Shipping] /\ shipment \in Dispatch!Task
      /\ shipment.version \in Nat
  BY DEF DispatchInv, DispatchTypes, Dispatch!Task
<1>1. /\ shipper[c].phase = "idle" /\ shipment.status # "none"
      /\ UNCHANGED <<paid, parcel, realWrites, quote, shipment, labels, tracking, keys, raised,
                     books, shippingFaults, owed>>
  BY DEF Dispatch!LoadPurchase, Dispatch!LoadTracking, Dispatch!world, Dispatch!accounts
<1>2. PICK q \in Shipping :
        /\ shipper' = [shipper EXCEPT ![c] = q]
        /\ q.phase = "loaded" /\ ~q.label /\ q.version <= shipment.version
        /\ q.op = "label" => ~shipment.label /\ (q.shipped <=> shipment.status = "shipped")
  <2>. DEFINE
         label == [Dispatch!Idle EXCEPT !.phase = "loaded", !.op = "label",
                     !.version = shipment.version, !.shipped = shipment.status = "shipped"]
         sync == [Dispatch!Idle EXCEPT !.phase = "loaded", !.op = "sync"]
         confirm == [Dispatch!Idle EXCEPT !.phase = "loaded", !.op = "confirm",
                       !.version = shipment.version]
  <2>1. CASE shipper' = [shipper EXCEPT ![c] = label] /\ ~shipment.label
    <3>. PICK q : q = label OBVIOUS
    <3>1. /\ q \in Shipping /\ q.phase = "loaded" /\ ~q.label
          /\ q.version = shipment.version /\ (q.shipped <=> shipment.status = "shipped")
      BY <1>t DEF Dispatch!Idle, Shipping
    <3>2. shipper' = [shipper EXCEPT ![c] = q] BY <2>1
    <3>3. q.version <= shipment.version BY <1>t, <3>1
    <3>. HIDE DEF label, sync, confirm
    <3>. QED BY <2>1, <3>1, <3>2, <3>3
  <2>2. CASE shipper' = [shipper EXCEPT ![c] = sync]
    <3>. PICK q : q = sync OBVIOUS
    <3>1. /\ q \in Shipping /\ q.phase = "loaded" /\ ~q.label
          /\ q.version = 0 /\ q.op = "sync"
      BY <1>t DEF Dispatch!Idle, Shipping
    <3>2. shipper' = [shipper EXCEPT ![c] = q] BY <2>2
    <3>3. q.version <= shipment.version BY <1>t, <3>1
    <3>. HIDE DEF label, sync, confirm
    <3>. QED BY <2>2, <3>1, <3>2, <3>3
  <2>3. CASE shipper' = [shipper EXCEPT ![c] = confirm]
    <3>. PICK q : q = confirm OBVIOUS
    <3>1. /\ q \in Shipping /\ q.phase = "loaded" /\ ~q.label
          /\ q.version = shipment.version /\ q.op = "confirm"
      BY <1>t DEF Dispatch!Idle, Shipping
    <3>2. shipper' = [shipper EXCEPT ![c] = q] BY <2>3
    <3>3. q.version <= shipment.version BY <1>t, <3>1
    <3>. HIDE DEF label, sync, confirm
    <3>. QED BY <2>3, <3>1, <3>2, <3>3
  <2>. QED BY <2>1, <2>2, <2>3 DEF Dispatch!LoadPurchase, Dispatch!LoadTracking
<1>3. ~shipper[c].label BY <1>1 DEF DispatchInv, InTime
<1>4. InTime(q) BY <1>1, <1>2 DEF InTime
<1>. QED BY <1>1, <1>2, <1>3, <1>4, ShipperRest DEF DispatchInv, DispatchTypes

\* An answered caller holds what it held, and the answer.
LEMMA AnsweredRow ==
  ASSUME DispatchInv, NEW c \in Shippers, NEW ok \in BOOLEAN, NEW label \in BOOLEAN,
         Dispatch!Answered(c, ok, label), label => ok /\ shipper[c].op = "label"
  PROVE  \E q \in Shipping :
            /\ shipper' = [shipper EXCEPT ![c] = q] /\ InTime(q)
            /\ q.phase = "sent" /\ q.label = label /\ q.op = shipper[c].op
<1>1. PICK q : q = [shipper[c] EXCEPT !.phase = "sent", !.ok = ok, !.label = label] OBVIOUS
<1>t. shipper \in [Shippers -> Shipping] /\ shipper[c] \in Shipping
  BY DEF DispatchInv, DispatchTypes
<1>2. /\ q \in Shipping /\ q.phase = "sent" /\ q.ok = ok /\ q.label = label
      /\ q.op = shipper[c].op /\ q.version = shipper[c].version /\ q.shipped = shipper[c].shipped
  BY <1>1, <1>t DEF Shipping
<1>3. shipper' = [shipper EXCEPT ![c] = q] BY <1>1, <1>t DEF Dispatch!Answered
<1>4. InTime(shipper[c]) BY DEF DispatchInv
<1>5. InTime(q) BY <1>2, <1>4 DEF InTime
<1>. QED BY <1>2, <1>3, <1>5

\* The replay check of a purchase.
LEMMA CheckPurchaseStep ==
  ASSUME DispatchInv, NEW c \in Shippers, Dispatch!CheckPurchase(c)
  PROVE  DispatchInv'
<1>1. /\ shipper[c].phase = "loaded" /\ shipper[c].op = "label"
      /\ UNCHANGED <<paid, parcel, realWrites, quote, shipment, labels, tracking, keys, raised,
                     books, shippingFaults, owed>>
  BY DEF Dispatch!CheckPurchase, Dispatch!At, Dispatch!world, Dispatch!accounts
<1>2. ~shipper[c].label /\ InTime(shipper[c]) BY <1>1 DEF DispatchInv, InTime
<1>3. PICK q \in Shipping :
        /\ shipper' = [shipper EXCEPT ![c] = q] /\ InTime(q)
        /\ q.label => "label" \in keys
        /\ q.phase = "buying" => "label" \notin keys
  <2>1. CASE "label" \in keys /\ Dispatch!Answered(c, TRUE, TRUE)
    BY <1>1, <2>1, AnsweredRow
  <2>2. CASE Dispatch!Answered(c, TRUE, FALSE)
    BY <1>1, <2>2, AnsweredRow
  <2>3. CASE "label" \notin keys /\ shipper' = [shipper EXCEPT ![c].phase = "buying"]
    <3>1. PICK q : q = [shipper[c] EXCEPT !.phase = "buying"] OBVIOUS
    <3>t. shipper \in [Shippers -> Shipping] /\ shipper[c] \in Shipping
      BY DEF DispatchInv, DispatchTypes
    <3>2. /\ q \in Shipping /\ q.phase = "buying" /\ q.ok = shipper[c].ok /\ q.label = shipper[c].label
          /\ q.op = shipper[c].op /\ q.version = shipper[c].version
          /\ q.shipped = shipper[c].shipped
      BY <3>1, <3>t DEF Shipping
    <3>3. shipper' = [shipper EXCEPT ![c] = q] BY <2>3, <3>1, <3>t
    <3>4. InTime(q) BY <1>1, <1>2, <3>2 DEF InTime
    <3>. QED BY <1>2, <2>3, <3>2, <3>3, <3>4
  <2>. QED BY <2>1, <2>2, <2>3 DEF Dispatch!CheckPurchase
<1>4. q.label => Some BY <1>3 DEF DispatchInv, Bought, Some
<1>. QED BY <1>1, <1>2, <1>3, <1>4, ShipperRest DEF DispatchInv, DispatchTypes

\* A label is bought, bought with its outcome lost, made up, or refused.
LEMMA BuyStep ==
  ASSUME DispatchInv, NEW c \in Shippers, Dispatch!Buy(c)
  PROVE  DispatchInv'
<1>t. /\ shipper \in [Shippers -> Shipping] /\ labels \in Nat
      /\ keys \subseteq {"label", "sync", "confirm"}
      /\ owed \subseteq {"crowded", "lost", "simulated", "conflict", "unshipped"}
      /\ shippingFaults \in 0..MaxShippingFaults
  BY DEF DispatchInv, DispatchTypes
<1>1. /\ shipper[c].phase = "buying" /\ shipper[c].op = "label"
      /\ UNCHANGED <<paid, parcel, realWrites, quote, shipment, tracking, raised, books>>
  BY DEF Dispatch!Buy, Dispatch!At, Dispatch!world, Dispatch!accounts
<1>2. ~shipper[c].label /\ InTime(shipper[c]) BY <1>1 DEF DispatchInv, InTime
<1>3. CASE /\ Dispatch!Answered(c, FALSE, FALSE)
           /\ UNCHANGED <<labels, keys, owed, shippingFaults>>
  <2>1. PICK q \in Shipping : /\ shipper' = [shipper EXCEPT ![c] = q] /\ InTime(q)
                              /\ q.phase = "sent" /\ ~q.label
    BY <1>3, AnsweredRow
  <2>. QED BY <1>1, <1>2, <1>3, <2>1, ShipperRest DEF DispatchInv, DispatchTypes
<1>4. ASSUME NEW ok \in BOOLEAN, Dispatch!Answered(c, ok, ok), labels' = labels + 1,
             keys \subseteq keys', keys' \subseteq keys \cup {"label"}, ok => "label" \in keys',
             owed \subseteq owed', owed' \subseteq owed \cup {"crowded", "lost"},
             ok /\ Dispatch!Crowded(c) => "crowded" \in owed', ~ok => "lost" \in owed',
             shippingFaults' \in 0..MaxShippingFaults
      PROVE  DispatchInv'
  <2>1. PICK q \in Shipping : /\ shipper' = [shipper EXCEPT ![c] = q] /\ InTime(q)
                              /\ q.phase = "sent" /\ q.label = ok
    BY <1>1, <1>4, AnsweredRow
  <2>2. /\ shipper' \in [Shippers -> Shipping] /\ shipper'[c] = q
        /\ \A d \in Shippers \ {c} : shipper'[d] = shipper[d]
    BY <1>t, <2>1
  <2>3. DispatchTypes' BY <1>t, <1>1, <1>4, <2>2 DEF DispatchInv, DispatchTypes
  <2>4. Bought' BY <1>t, <1>1, <1>4 DEF Bought, Some
  <2>5. OneBought'
    <3>. SUFFICES ASSUME owed' \cap {"crowded", "lost"} = {}
                  PROVE  /\ labels' <= 1 /\ "label" \in keys'
                         /\ \A d \in Shippers : shipper'[d].phase # "buying"
      BY DEF OneBought
    <3>1. ok /\ ~Dispatch!Crowded(c) /\ owed \cap {"crowded", "lost"} = {} BY <1>4
    <3>2. labels = 0 BY <1>t, <1>1, <3>1 DEF DispatchInv, OneBought
    <3>3. \A d \in Shippers \ {c} : shipper[d].phase # "buying"
      BY <3>1 DEF Dispatch!Crowded, Dispatch!At, DispatchInv, InTime
    <3>. QED BY <1>4, <2>1, <2>2, <3>1, <3>2, <3>3
  <2>6. Accounted' BY <1>4, <2>1, <2>2 DEF Accounted
  <2>7. \A d \in Shippers : InTime(shipper[d])' BY <1>1, <2>1, <2>2 DEF DispatchInv, InTime
  <2>8. "unshipped" \notin owed' BY <1>4 DEF DispatchInv
  <2>. QED BY <2>3, <2>4, <2>5, <2>6, <2>7, <2>8 DEF DispatchInv
<1>5. CASE /\ labels' = labels + 1 /\ keys' = keys \cup {"label"}
           /\ owed' = IF Dispatch!Crowded(c) THEN owed \cup {"crowded"} ELSE owed
           /\ Dispatch!Answered(c, TRUE, TRUE) /\ UNCHANGED shippingFaults
  BY <1>t, <1>4, <1>5
<1>6. CASE /\ Dispatch!Fault /\ labels' = labels + 1 /\ owed' = owed \cup {"lost"}
           /\ Dispatch!Answered(c, FALSE, FALSE) /\ UNCHANGED keys
  <2>1. shippingFaults' \in 0..MaxShippingFaults
    BY <1>t, <1>6, ShippingAssumption DEF Dispatch!Fault
  <2>. QED BY <1>4, <1>6, <2>1
<1>7. CASE /\ Dispatch!Fault /\ keys' = keys \cup {"label"}
           /\ owed' = owed \cup {"simulated"}
           /\ Dispatch!Answered(c, TRUE, TRUE) /\ UNCHANGED labels
  <2>1. PICK q \in Shipping : /\ shipper' = [shipper EXCEPT ![c] = q] /\ InTime(q)
                              /\ q.phase = "sent" /\ q.label
    BY <1>1, <1>7, AnsweredRow
  <2>2. /\ shipper' \in [Shippers -> Shipping] /\ shipper'[c] = q
        /\ \A d \in Shippers \ {c} : shipper'[d] = shipper[d]
    BY <1>t, <2>1
  <2>3. shippingFaults' \in 0..MaxShippingFaults
    BY <1>t, <1>7, ShippingAssumption DEF Dispatch!Fault
  <2>4. DispatchTypes' BY <1>t, <1>1, <1>7, <2>2, <2>3 DEF DispatchInv, DispatchTypes
  <2>5. Bought' BY <1>7 DEF Bought, Some
  <2>6. OneBought' BY <1>7, <2>1, <2>2 DEF DispatchInv, OneBought
  <2>7. Accounted' BY <1>1, <1>7, <2>1, <2>2 DEF Accounted
  <2>8. \A d \in Shippers : InTime(shipper[d])' BY <1>1, <2>1, <2>2 DEF DispatchInv, InTime
  <2>9. "unshipped" \notin owed' BY <1>7 DEF DispatchInv
  <2>. QED BY <2>4, <2>5, <2>6, <2>7, <2>8, <2>9 DEF DispatchInv
<1>. QED BY <1>3, <1>5, <1>6, <1>7 DEF Dispatch!Buy

\* The outcome of a purchase is stored, or a human is told, or it is late.
LEMMA StoreLabelStep ==
  ASSUME DispatchInv, NEW c \in Shippers, Dispatch!StoreLabel(c)
  PROVE  DispatchInv'
<1>1. PICK s : s = shipper[c] OBVIOUS
<1>t. /\ shipment \in Dispatch!Task /\ shipment.version \in Nat /\ s \in Shipping
      /\ quote \in Dispatch!Cost /\ s.label \in BOOLEAN
  BY <1>1 DEF DispatchInv, DispatchTypes, Dispatch!Task, Shipping
<1>2. /\ s.phase = "sent" /\ s.op = "label" /\ shipper' = [shipper EXCEPT ![c] = Dispatch!Idle]
      /\ UNCHANGED <<paid, parcel, realWrites, quote, labels, tracking, keys, books,
                     shippingFaults>>
      /\ InTime(s)
  BY <1>1 DEF Dispatch!StoreLabel, Dispatch!At, Dispatch!Done, Dispatch!world, DispatchInv
<1>3. InTime(Dispatch!Idle) BY ShipperIdle DEF InTime
<1>4. CASE ~s.ok /\ UNCHANGED <<shipment, raised, owed>>
  <2>1. ~s.label BY <1>2, <1>4 DEF InTime
  <2>. QED BY <1>1, <1>2, <1>3, <1>4, <2>1, ShipperIdle, ShipperRest DEF DispatchInv, DispatchTypes
<1>5. CASE Dispatch!Raise("label_cost_exceeded") /\ UNCHANGED <<shipment, owed>>
  <2>1. /\ raised \subseteq raised' /\ raised' \subseteq Dispatch!Raised
        /\ "label_cost_exceeded" \in raised'
    BY <1>5 DEF Dispatch!Raise, Dispatch!Raised, DispatchInv, DispatchTypes
  <2>. QED BY <1>2, <1>3, <1>5, <2>1, ShipperIdle, ShipperRest DEF DispatchInv, DispatchTypes
<1>6. CASE /\ s.version = shipment.version
           /\ shipment' = [shipment EXCEPT !.status = "label_purchased", !.label = s.label,
                                   !.cost = IF s.label THEN quote ELSE "zero",
                                   !.version = @ + 1]
           /\ owed' = IF shipment.status = "shipped" /\ ~s.shipped
                      THEN owed \cup {"unshipped"} ELSE owed
           /\ UNCHANGED raised
  <2>1. PICK cost : cost = IF s.label THEN quote ELSE "zero" OBVIOUS
  <2>2. cost \in Dispatch!Cost /\ "label_purchased" \in Dispatch!TaskStatus
    BY <1>t, <2>1 DEF Dispatch!Cost, Dispatch!TaskStatus
  <2>3. shipment' = [shipment EXCEPT !.status = "label_purchased", !.label = s.label,
                             !.cost = cost, !.version = shipment.version + 1]
    BY <1>t, <1>6, <2>1
  <2>. PICK q : q = [shipment EXCEPT !.status = "label_purchased", !.label = s.label]
    OBVIOUS
  <2>q. /\ q \in Dispatch!Task /\ q.status = "label_purchased" /\ q.label = s.label
    BY <1>t, <2>2 DEF Dispatch!Task
  <2>. PICK m : m = [q EXCEPT !.cost = cost] OBVIOUS
  <2>m. /\ m \in Dispatch!Task /\ m.status = "label_purchased" /\ m.label = s.label
        /\ m.cost = cost
    BY <1>t, <2>2, <2>q DEF Dispatch!Task
  <2>. PICK v \in Nat : v = shipment.version + 1 BY <1>t
  <2>. PICK p : p = [m EXCEPT !.version = v] OBVIOUS
  <2>p. p \in Dispatch!Task BY <2>m DEF Dispatch!Task
  <2>f. /\ p.status = "label_purchased" /\ p.label = s.label
        /\ p.cost = cost /\ p.version = shipment.version + 1
    BY <2>m DEF Dispatch!Task
  <2>s. shipment' = p BY <1>t, <2>2, <2>3, <2>q DEF Dispatch!Task
  <2>4. /\ shipment' \in Dispatch!Task /\ shipment'.version = shipment.version + 1
        /\ shipment'.status = "label_purchased" /\ shipment'.label = s.label
        /\ shipment'.cost = cost
    BY <2>p, <2>f, <2>s
  <2>5. ~shipment.label /\ owed' = owed BY <1>2, <1>6 DEF InTime
  <2>6. s.label => Some BY <1>1 DEF DispatchInv, Bought, Some
  <2>. QED BY <1>1, <1>2, <1>6, <2>1, <2>4, <2>5, <2>6, WrittenRest
<1>7. CASE owed' = owed \cup (IF s.label THEN {"conflict"} ELSE {}) /\ UNCHANGED <<shipment, raised>>
  <2>1. /\ owed \subseteq owed' /\ owed' \subseteq owed \cup {"lost", "conflict"}
        /\ s.label => "conflict" \in owed'
    BY <1>7
  <2>. QED BY <1>1, <1>2, <1>3, <1>7, <2>1, ShipperIdle, ShipperRest DEF DispatchInv, DispatchTypes
<1>. QED BY <1>1, <1>4, <1>5, <1>6, <1>7 DEF Dispatch!StoreLabel

\* The tracking number is sent, and its caller ends or confirms the shipment.
LEMMA TrackingStep ==
  ASSUME DispatchInv, NEW c \in Shippers,
         Dispatch!UpdateTracking(c) \/ Dispatch!EndTracking(c) \/ Dispatch!ConfirmShipment(c)
  PROVE  DispatchInv'
<1>3. InTime(Dispatch!Idle) BY ShipperIdle DEF InTime
<1>4. CASE Dispatch!UpdateTracking(c)
  <2>1. /\ shipper[c].phase = "loaded" /\ shipper[c].op \in {"sync", "confirm"}
        /\ UNCHANGED <<paid, parcel, realWrites, quote, shipment, labels, raised, books,
                       shippingFaults, owed>>
        /\ tracking' = tracking \/ tracking' = shipper[c].op
        /\ keys' = keys \/ keys' = keys \cup {shipper[c].op}
    BY <1>4 DEF Dispatch!UpdateTracking, Dispatch!world, Dispatch!accounts
  <2>2. PICK q \in Shipping : /\ shipper' = [shipper EXCEPT ![c] = q] /\ InTime(q)
                              /\ q.phase = "sent" /\ ~q.label
    <3>1. CASE Dispatch!Answered(c, TRUE, FALSE) BY <3>1, AnsweredRow
    <3>2. CASE Dispatch!Answered(c, FALSE, FALSE) BY <3>2, AnsweredRow
    <3>. QED BY <1>4, <3>1, <3>2 DEF Dispatch!UpdateTracking
  <2>3. ~shipper[c].label BY <2>1 DEF DispatchInv, InTime
  <2>. QED BY <2>1, <2>2, <2>3, ShipperRest DEF DispatchInv, DispatchTypes
<1>5. ASSUME shipper[c].phase = "sent", shipper[c].op \in {"sync", "confirm"}
      PROVE  ~shipper[c].label
  BY <1>5 DEF DispatchInv, InTime
<1>6. CASE Dispatch!EndTracking(c)
  <2>1. /\ ~shipper[c].label /\ shipper' = [shipper EXCEPT ![c] = Dispatch!Idle]
        /\ UNCHANGED <<paid, parcel, realWrites, quote, shipment, labels, tracking, keys, raised,
                       books, shippingFaults, owed>>
    BY <1>5, <1>6 DEF Dispatch!EndTracking, Dispatch!At, Dispatch!Done, Dispatch!world,
                      Dispatch!accounts
  <2>. QED BY <1>3, <2>1, ShipperIdle, ShipperRest DEF DispatchInv, DispatchTypes
<1>7. CASE Dispatch!ConfirmShipment(c)
  <2>1. /\ ~shipper[c].label /\ shipper' = [shipper EXCEPT ![c] = Dispatch!Idle]
        /\ UNCHANGED <<paid, parcel, realWrites, quote, labels, tracking, keys, raised,
                       books, shippingFaults, owed>>
    BY <1>5, <1>7 DEF Dispatch!ConfirmShipment, Dispatch!At, Dispatch!Done, Dispatch!world,
                      Dispatch!accounts
  <2>2. CASE shipment' = shipment
    BY <1>3, <2>1, <2>2, ShipperIdle, ShipperRest DEF DispatchInv, DispatchTypes
  <2>3. CASE shipment' = [shipment EXCEPT !.status = "shipped", !.version = @ + 1]
    <3>1. shipment \in Dispatch!Task /\ shipment.version \in Nat
      BY DEF DispatchInv, DispatchTypes, Dispatch!Task
    <3>2. "shipped" \in Dispatch!TaskStatus BY DEF Dispatch!TaskStatus
    <3>3. /\ shipment' \in Dispatch!Task /\ shipment'.version = shipment.version + 1
          /\ shipment'.status = "shipped" /\ shipment'.label = shipment.label
          /\ shipment'.cost = shipment.cost
      <4>. PICK m : m = [shipment EXCEPT !.status = "shipped"] OBVIOUS
      <4>m. /\ m \in Dispatch!Task /\ m.status = "shipped"
            /\ m.label = shipment.label /\ m.cost = shipment.cost
        BY <3>1, <3>2 DEF Dispatch!Task
      <4>. PICK v \in Nat : v = shipment.version + 1 BY <3>1
      <4>. PICK q : q = [m EXCEPT !.version = v] OBVIOUS
      <4>1. q \in Dispatch!Task BY <4>m DEF Dispatch!Task
      <4>2. /\ q.status = "shipped" /\ q.version = shipment.version + 1
            /\ q.label = shipment.label /\ q.cost = shipment.cost
        BY <4>m DEF Dispatch!Task
      <4>3. shipment' = q BY <2>3, <3>1
      <4>. QED BY <4>1, <4>2, <4>3
    <3>4. shipment.label \/ shipment.cost \in {"fair", "over"} => Some
      BY DEF DispatchInv, Bought, Some
    <3>. QED BY <2>1, <3>3, <3>4, WrittenRest
  <2>. QED BY <1>7, <2>2, <2>3 DEF Dispatch!ConfirmShipment
<1>. QED BY <1>4, <1>6, <1>7

\* A caller dies with an answer: a label it had is lost.
LEMMA ShipperDiesStep ==
  ASSUME DispatchInv, NEW c \in Shippers, Dispatch!ShipperDies(c)
  PROVE  DispatchInv'
<1>1. /\ shipper' = [shipper EXCEPT ![c] = Dispatch!Idle]
      /\ UNCHANGED <<paid, parcel, realWrites, quote, shipment, labels, tracking, keys, raised,
                     books>>
      /\ owed \subseteq owed' /\ owed' \subseteq owed \cup {"lost", "conflict"}
      /\ shipper[c].label => "lost" \in owed'
  BY DEF Dispatch!ShipperDies, Dispatch!Done, Dispatch!world, Dispatch!accounts
<1>2. shippingFaults' \in 0..MaxShippingFaults
  <2>1. shippingFaults \in 0..MaxShippingFaults BY DEF DispatchInv, DispatchTypes
  <2>. QED BY <2>1, ShippingAssumption DEF Dispatch!ShipperDies, Dispatch!Fault
<1>3. InTime(Dispatch!Idle) BY ShipperIdle DEF InTime
<1>. QED BY <1>1, <1>2, <1>3, ShipperIdle, ShipperRest DEF DispatchInv, DispatchTypes

\* Every step of the shipping keeps the invariant.
LEMMA DispatchStep == DispatchInv /\ [Dispatch!Next]_(Dispatch!vars) => DispatchInv'
<1>. SUFFICES ASSUME DispatchInv, [Dispatch!Next]_(Dispatch!vars) PROVE DispatchInv' OBVIOUS
<1>1. CASE UNCHANGED Dispatch!vars
  <2>1. DispatchTypes' BY <1>1 DEF DispatchInv, DispatchTypes, Dispatch!vars
  <2>2. Bought' /\ OneBought' /\ Accounted'
    BY <1>1 DEF DispatchInv, Bought, Some, OneBought, Accounted, Dispatch!vars
  <2>3. \A c \in Shippers : InTime(shipper[c])' BY <1>1 DEF DispatchInv, InTime, Dispatch!vars
  <2>. QED BY <1>1, <2>1, <2>2, <2>3 DEF DispatchInv, Dispatch!vars
<1>2. CASE Dispatch!Next
  BY <1>2, AroundStep, LoadStep, CheckPurchaseStep, BuyStep, StoreLabelStep, TrackingStep,
     ShipperDiesStep DEF Dispatch!Next
<1>. QED BY <1>1, <1>2

\* Shipping: one label per order, and none that is in no record, no report and
\* no list of what is owed.
THEOREM LabelsHold == Spec => []LabelsAccounted
<1>1. DispatchInv => LabelsAccounted
  <2>. SUFFICES ASSUME DispatchInv PROVE Dispatch!LabelsAccounted BY DEF LabelsAccounted
  <2>1. labels > 1 => owed \cap {"crowded", "lost"} # {}
    BY DEF DispatchInv, DispatchTypes, OneBought
  <2>2. \A c \in Shippers : shipper[c].label => shipper[c].op = "label" BY DEF DispatchInv, InTime
  <2>. QED BY <2>1, <2>2 DEF DispatchInv, Bought, Some, Accounted, Dispatch!LabelsAccounted,
                             Dispatch!Purchasing
<1>. QED BY <1>1, DispatchSpec, DispatchInit, DispatchStep, PTL DEF Dispatch!Spec

\* Shipping: the task, the books and the callers have their types.
LEMMA DispatchTypeCorrect == Spec => []Dispatch!TypeOK
<1>1. DispatchInv => Dispatch!TypeOK
  BY DEF DispatchInv, DispatchTypes, Dispatch!TypeOK, Shipping
<1>. QED BY <1>1, DispatchSpec, DispatchInit, DispatchStep, PTL DEF Dispatch!Spec

-----------------------------------------------------------------------------
(* Policies *)

\* What the markdown policy is asked with.
MarkdownInputs == [price : Nat, minimum : Nat, days : Nat, daily : Percents, total : Percents,
                   reduced : {0}]

\* What was told is what the policy says of what was asked.
ArithmeticInv ==
    /\ price \in Nat
    /\ \/ asked = Arithmetic!Nothing
       \/ /\ asked.policy = "offer" /\ asked.in \in Arithmetic!OfferInputs
          /\ told = Arithmetic!EvaluateOffer(asked.in)
       \/ /\ asked.policy = "price" /\ asked.in \in Arithmetic!PricingInputs
          /\ told = Arithmetic!CalculatePricing(asked.in)
       \/ /\ asked.policy = "markdown" /\ asked.in \in MarkdownInputs
          /\ told = Arithmetic!EvaluateMarkdown(asked.in) /\ price = told.amount

\* A behaviour of the services is a behaviour of the policies.
LEMMA ArithmeticSpec == Spec => Arithmetic!Spec
<1>1. Init => Arithmetic!Init BY DEF Init
<1>2. [Next]_vars => [Arithmetic!Next]_(Arithmetic!vars)
  BY DEF Next, vars, MediaMoves, DomainMoves, StudyMoves, QueueMoves,
         MarketMoves, SchedulerMoves, BrokerMoves, BuyerMoves, ThreadMoves,
         UpkeepMoves, DispatchMoves, ArithmeticMoves, RemoteMoves, ApiMoves,
         arithmeticVars, Arithmetic!vars
<1>. QED BY <1>1, <1>2, PTL DEF Spec, Arithmetic!Spec

\* A quotient and its remainder.
LEMMA Quotient ==
  ASSUME NEW a \in Int, NEW b \in Nat \ {0}
  PROVE  /\ a \div b \in Int
         /\ b * (a \div b) <= a /\ a < b * (a \div b) + b
  OBVIOUS

\* A rounded quotient is off by half the divisor at most, and a positive one
\* of a half goes up.
LEMMA Rounding ==
  ASSUME NEW n \in Int, NEW d \in Nat \ {0}
  PROVE  /\ Arithmetic!Rounded(n, d) \in Int
         /\ 2 * n - d <= 2 * d * Arithmetic!Rounded(n, d)
         /\ 2 * d * Arithmetic!Rounded(n, d) <= 2 * n + d
         /\ n >= 0 => 2 * n - d < 2 * d * Arithmetic!Rounded(n, d)
         /\ n >= 0 => Arithmetic!Rounded(n, d) \in Nat
<1>. PICK e \in Nat \ {0} : e = 2 * d OBVIOUS
<1>1. CASE n >= 0
  <2>. PICK a \in Int : a = 2 * n + d OBVIOUS
  <2>. PICK q : q = a \div e OBVIOUS
  <2>0. q \in Int /\ e * q <= a /\ a < e * q + e BY Quotient
  <2>1. e * q <= 2 * n + d /\ 2 * n + d < e * q + e BY <2>0
  <2>2. Arithmetic!Rounded(n, d) = q BY <1>1 DEF Arithmetic!Rounded
  <2>3. q >= 0
    <3>1. CASE q <= -1
      <4>1. e * q <= -e BY <2>0, <3>1
      <4>. QED BY <1>1, <2>1, <4>1
    <3>. QED BY <2>0, <3>1
  <2>4. 2 * d * q = e * q BY <2>0
  <2>5. e * q \in Int BY <2>0
  <2>. PICK z \in Int : z = e * q BY <2>5
  <2>6. 2 * n - d < z /\ z <= 2 * n + d BY <2>1
  <2>. QED BY <2>0, <2>2, <2>3, <2>4, <2>6
<1>2. CASE ~(n >= 0)
  <2>. PICK a \in Int : a = d - 2 * n OBVIOUS
  <2>. PICK q : q = a \div e OBVIOUS
  <2>0. q \in Int /\ e * q <= a /\ a < e * q + e BY Quotient
  <2>2. Arithmetic!Rounded(n, d) = -q BY <1>2 DEF Arithmetic!Rounded
  <2>4. 2 * d * (-q) = -(e * q) BY <2>0
  <2>5. e * q \in Int BY <2>0
  <2>. PICK z \in Int : z = e * q BY <2>5
  <2>6. 2 * n - d <= -z /\ -z <= 2 * n + d BY <2>0
  <2>. QED BY <1>2, <2>0, <2>2, <2>4, <2>6
<1>. QED BY <1>1, <1>2

\* The same for the divisors of a price's cents and of a rate.
LEMMA RoundedCents ==
  ASSUME NEW n \in Int
  PROVE  /\ Arithmetic!Rounded(n, 100) \in Int
         /\ 2 * n - 100 <= 200 * Arithmetic!Rounded(n, 100)
         /\ 200 * Arithmetic!Rounded(n, 100) <= 2 * n + 100
<1>. PICK d \in Nat \ {0} : d = 100 OBVIOUS
<1>. PICK r : r = Arithmetic!Rounded(n, d) OBVIOUS
<1>1. r \in Int /\ 2 * n - d <= 2 * d * r /\ 2 * d * r <= 2 * n + d BY Rounding
<1>. QED BY <1>1

\* The same for ten thousandths.
LEMMA RoundedRate ==
  ASSUME NEW n \in Int
  PROVE  /\ Arithmetic!Rounded(n, 10000) \in Int
         /\ 2 * n - 10000 <= 20000 * Arithmetic!Rounded(n, 10000)
<1>. PICK d \in Nat \ {0} : d = 10000 OBVIOUS
<1>. PICK r : r = Arithmetic!Rounded(n, d) OBVIOUS
<1>1. r \in Int /\ 2 * n - d <= 2 * d * r BY Rounding
<1>. QED BY <1>1

\* The same for the share of an offer that is left after the fee.
LEMMA RoundedShare ==
  ASSUME NEW n \in Nat
  PROVE  /\ Arithmetic!Rounded(n, 90) \in Nat
         /\ 2 * n - 90 < 180 * Arithmetic!Rounded(n, 90)
         /\ 180 * Arithmetic!Rounded(n, 90) <= 2 * n + 90
<1>. PICK d \in Nat \ {0} : d = 90 OBVIOUS
<1>. PICK r : r = Arithmetic!Rounded(n, d) OBVIOUS
<1>1. r \in Nat /\ 2 * n - d < 2 * d * r /\ 2 * d * r <= 2 * n + d BY Rounding
<1>. QED BY <1>1

\* The larger and the smaller of two numbers.
LEMMA Bounds ==
  ASSUME NEW a \in Int, NEW b \in Int
  PROVE  /\ Arithmetic!AtLeast(a, b) \in {a, b} /\ Arithmetic!AtLeast(a, b) >= a
         /\ Arithmetic!AtLeast(a, b) >= b /\ Arithmetic!AtLeast(a, b) \in Int
         /\ Arithmetic!AtMost(a, b) \in {a, b} /\ Arithmetic!AtMost(a, b) <= a
         /\ Arithmetic!AtMost(a, b) <= b /\ Arithmetic!AtMost(a, b) \in Int
  BY DEF Arithmetic!AtLeast, Arithmetic!AtMost

\* The inputs of an offer are numbers.
LEMMA OfferNumbers ==
  ASSUME NEW in \in Arithmetic!OfferInputs
  PROVE  /\ in.offer \in Nat /\ in.cost \in Nat /\ in.profit \in Nat /\ in.list \in Nat
         /\ in.discount \in 0..99 /\ in.margin \in 0..99 /\ in.increment \in {1, 100}
<1>1. /\ in.offer \in Offered /\ in.cost \in Costs /\ in.profit \in Profits /\ in.list \in Prices
      /\ in.discount \in Percents /\ in.margin \in Percents /\ in.increment \in {1, 100}
  BY DEF Arithmetic!OfferInputs
<1>. QED BY ZenonT(30), <1>1, PoliciesAssumption

\* The minimum price of an offer clears the minimum profit when it is charged
\* its fees, and a price that clears it is at most a cent below.
LEMMA MinimumClears ==
  ASSUME NEW in \in Arithmetic!OfferInputs, NEW p \in Nat
  PROVE  /\ Arithmetic!MinimumOffer(in) \in Nat /\ Arithmetic!OfferProfit(in, p) \in Int
         /\ p >= Arithmetic!MinimumOffer(in) => Arithmetic!OfferProfit(in, p) >= in.profit
         /\ Arithmetic!OfferProfit(in, p) >= in.profit => p >= Arithmetic!MinimumOffer(in) - 1
<1>. PICK c \in Nat : c = in.cost BY OfferNumbers
<1>. PICK f \in Nat : f = in.profit BY OfferNumbers
<1>. PICK m : m = Arithmetic!MinimumOffer(in) OBVIOUS
<1>. PICK r : r = Arithmetic!Rounded(90 * p - 3000, 100) OBVIOUS
<1>1. m = Arithmetic!Rounded(100 * (c + f + 30), 90)
  BY DEF Arithmetic!MinimumOffer, Arithmetic!OfferFixedFee, Arithmetic!OfferFee
<1>2. m \in Nat /\ 200 * (c + f + 30) - 90 < 180 * m /\ 180 * m <= 200 * (c + f + 30) + 90
  <2>. PICK n \in Nat : n = 100 * (c + f + 30) OBVIOUS
  <2>1. m = Arithmetic!Rounded(n, 90) BY <1>1
  <2>2. m \in Nat /\ 2 * n - 90 < 180 * m /\ 180 * m <= 2 * n + 90 BY ZenonT(30), <2>1, RoundedShare
  <2>. QED BY <2>2
<1>3. Arithmetic!OfferProfit(in, p) = r - c
  <2>1. p * (100 - 10) - 100 * 30 = 90 * p - 3000 OBVIOUS
  <2>. QED BY <2>1 DEF Arithmetic!OfferProfit, Arithmetic!OfferFixedFee, Arithmetic!OfferFee
<1>4. r \in Int /\ 2 * (90 * p - 3000) - 100 <= 200 * r /\ 200 * r <= 2 * (90 * p - 3000) + 100
  <2>1. 90 * p - 3000 \in Int OBVIOUS
  <2>. QED BY <2>1, RoundedCents
<1>5. p >= m => r - c >= f BY <1>2, <1>4
<1>6. r - c >= f => p >= m - 1 BY <1>2, <1>4
<1>. QED BY <1>2, <1>3, <1>4, <1>5, <1>6

\* What the conservative rules accept, the others do too.
LEMMA ConservativeAccepts ==
  ASSUME NEW in \in Arithmetic!OfferInputs,
         Arithmetic!EvaluateOffer(Arithmetic!Conservative(in)).decision = "accept"
  PROVE  Arithmetic!EvaluateOffer(in).decision = "accept"
<1>. PICK q : q = Arithmetic!Conservative(in) OBVIOUS
<1>n. /\ in.offer \in Nat /\ in.cost \in Nat /\ in.profit \in Nat /\ in.list \in Nat
      /\ in.discount \in 0..99
  BY OfferNumbers
<1>1. /\ q.profit = 2 * in.profit /\ q.discount = in.discount \div 2 /\ q.offer = in.offer
      /\ q.cost = in.cost /\ q.list = in.list /\ q.margin = in.margin /\ q.held = in.held
  BY DEF Arithmetic!Conservative, Arithmetic!OfferInputs
<1>2. /\ ~q.held /\ Arithmetic!OfferProfit(q, q.offer) >= q.profit
      /\ Arithmetic!MarginClears(q) /\ ~Arithmetic!DiscountExceeds(q)
  BY DEF Arithmetic!EvaluateOffer
<1>3. Arithmetic!OfferProfit(in, in.offer) = Arithmetic!OfferProfit(q, q.offer)
  BY <1>1 DEF Arithmetic!OfferProfit
<1>4. Arithmetic!OfferProfit(in, in.offer) \in Int BY <1>n, MinimumClears
<1>5. Arithmetic!OfferProfit(in, in.offer) >= in.profit BY <1>n, <1>1, <1>2, <1>3, <1>4
<1>6. Arithmetic!MarginClears(in) BY <1>1, <1>2, <1>3 DEF Arithmetic!MarginClears
<1>7. ~Arithmetic!DiscountExceeds(in)
  <2>1. in.discount \div 2 \in Int /\ in.discount \div 2 <= in.discount BY <1>n
  <2>. PICK h \in Int : h = in.discount \div 2 BY <2>1
  <2>. PICK d \in Int : d = in.discount BY <1>n
  <2>. PICK l \in Nat : l = in.list BY <1>n
  <2>2. h * l <= d * l BY <2>1
  <2>3. ~(100 * (l - in.offer) > h * l) BY <1>1, <1>2 DEF Arithmetic!DiscountExceeds
  <2>4. h * l \in Int /\ d * l \in Int /\ 100 * (l - in.offer) \in Int BY <1>n
  <2>. QED BY <2>2, <2>3, <2>4 DEF Arithmetic!DiscountExceeds
<1>. QED BY <1>1, <1>2, <1>5, <1>6, <1>7 DEF Arithmetic!EvaluateOffer

\* What the offer policy decides.
LEMMA OfferDecided ==
  ASSUME NEW in \in Arithmetic!OfferInputs, NEW out, out = Arithmetic!EvaluateOffer(in)
  PROVE  /\ out.amount \in Nat
         /\ out.decision = "counter" =>
              Arithmetic!OfferProfit(in, out.amount) >= in.profit /\ out.amount > in.offer
         /\ out.decision = "accept" => in.offer >= Arithmetic!MinimumOffer(in) - 1
<1>n. in.offer \in Nat /\ in.increment \in {1, 100} BY OfferNumbers
<1>. PICK m \in Nat : m = Arithmetic!MinimumOffer(in) BY <1>n, MinimumClears
<1>. PICK i \in Nat : i = in.offer + in.increment /\ i > in.offer BY <1>n
<1>. PICK a : a = Arithmetic!AtLeast(m, i) OBVIOUS
<1>1. a \in Nat /\ a >= m /\ a >= i BY DEF Arithmetic!AtLeast
<1>2. \/ out = [decision |-> "escalate", amount |-> 0]
      \/ /\ out = [decision |-> "accept", amount |-> in.offer]
         /\ Arithmetic!OfferProfit(in, in.offer) >= in.profit
      \/ out = [decision |-> "counter", amount |-> a]
      \/ out = [decision |-> "decline", amount |-> 0]
      \/ out = [decision |-> "defer", amount |-> 0]
  BY DEF Arithmetic!EvaluateOffer
<1>3. Arithmetic!OfferProfit(in, a) >= in.profit BY <1>1, MinimumClears
<1>4. Arithmetic!OfferProfit(in, in.offer) >= in.profit => in.offer >= m - 1
  BY <1>n, MinimumClears
<1>. QED BY <1>n, <1>1, <1>2, <1>3, <1>4

\* The recommended price earns the minimum profit after its fees; the minimum
\* is not above the fast price, nor that one above the recommended one.
LEMMA PriceDecided ==
  ASSUME NEW in \in Arithmetic!PricingInputs, NEW out, out = Arithmetic!CalculatePricing(in)
  PROVE  /\ out.profit >= in.profit /\ out.minimum <= out.fast /\ out.fast <= out.recommended
<1>n. /\ in.sold \in Nat /\ in.active \in Nat /\ in.cost \in Nat /\ in.profit \in Nat
      /\ in.margin \in 0..99 /\ in.discount \in 0..99 /\ in.fee = 13 /\ in.fixed = 30
      /\ in.adjustment \in {80, 100}
  <2>1. /\ in.sold \in Offered \cup {0} /\ in.active \in Prices \cup {0} /\ in.cost \in Costs
        /\ in.profit \in Profits /\ in.margin \in Percents /\ in.discount \in Percents
        /\ in.fee = 13 /\ in.fixed = 30 /\ in.adjustment \in {80, 100}
    BY DEF Arithmetic!PricingInputs, Arithmetic!NoComparables
  <2>2. in.sold \in Nat /\ in.active \in Nat
    <3>1. Offered \subseteq Nat /\ Prices \subseteq Nat BY PoliciesAssumption
    <3>2. in.sold \in Offered \/ in.sold = 0 BY <2>1
    <3>3. in.active \in Prices \/ in.active = 0 BY <2>1
    <3>4. in.sold \in Nat
      <4>1. CASE in.sold \in Offered BY <3>1, <4>1
      <4>2. CASE in.sold = 0 BY <4>2
      <4>. QED BY <3>2, <4>1, <4>2
    <3>5. in.active \in Nat
      <4>1. CASE in.active \in Prices BY <3>1, <4>1
      <4>2. CASE in.active = 0 BY <4>2
      <4>. QED BY <3>3, <4>1, <4>2
    <3>. QED BY <3>4, <3>5
  <2>4. in.cost \in Nat /\ in.profit \in Nat BY <2>1, PoliciesAssumption
  <2>3. in.margin \in 0..99 /\ in.discount \in 0..99 BY <2>1, PoliciesAssumption
  <2>. QED BY <2>1, <2>2, <2>3, <2>4
<1>. PICK c \in Nat : c = in.cost BY <1>n
<1>. PICK f \in Nat : f = in.profit BY <1>n
<1>. PICK rate \in Nat : rate = Arithmetic!NetRate(in) /\ 0 < rate /\ rate <= 8700
  BY <1>n DEF Arithmetic!NetRate
<1>. PICK m : m = Arithmetic!MinimumPrice(in) OBVIOUS
<1>. PICK r : r = Arithmetic!RecommendedPrice(in) OBVIOUS
<1>1. m \in Nat /\ 20000 * (c + f + 30) - rate < 2 * rate * m
  <2>. PICK n \in Nat : n = 10000 * (c + f + 30) OBVIOUS
  <2>1. n \in Int /\ n >= 0 /\ rate \in Nat \ {0} OBVIOUS
  <2>2. m = Arithmetic!Rounded(n, rate) BY <1>n DEF Arithmetic!MinimumPrice
  <2>3. /\ Arithmetic!Rounded(n, rate) \in Nat
        /\ 2 * n - rate < 2 * rate * Arithmetic!Rounded(n, rate)
    BY ONLY <2>1, Rounding
  <2>4. 2 * n - rate < 2 * rate * m /\ m \in Nat BY <2>2, <2>3
  <2>5. 2 * n = 20000 * (c + f + 30) OBVIOUS
  <2>. QED BY <2>4, <2>5
<1>2. r \in Nat /\ r >= m
  <2>1. Arithmetic!Base(in)[1] \in Nat /\ Arithmetic!Base(in)[2] \in Nat \ {0}
    BY <1>n DEF Arithmetic!Base
  <2>n. PICK n \in Int : n = Arithmetic!Base(in)[1] * in.adjustment BY <1>n, <2>1
  <2>d. PICK d \in Nat \ {0} : d = 100 * Arithmetic!Base(in)[2] BY <2>1
  <2>x. PICK x : x = Arithmetic!Rounded(n, d) OBVIOUS
  <2>m. n \in Int /\ d \in Nat \ {0} OBVIOUS
  <2>2. x \in Int BY ONLY <2>m, <2>x, Rounding
  <2>3. r = Arithmetic!AtLeast(x, m) BY <2>n, <2>d, <2>x DEF Arithmetic!RecommendedPrice
  <2>. QED BY <1>1, <2>2, <2>3 DEF Arithmetic!AtLeast
<1>3. Arithmetic!ExpectedProfit(in) >= f
  <2>. PICK n \in Int : n = r * rate - 10000 * 30 BY <1>2
  <2>. PICK e : e = Arithmetic!Rounded(n, 10000) OBVIOUS
  <2>1. e \in Int /\ 2 * n - 10000 <= 20000 * e
    BY RoundedRate
  <2>2. Arithmetic!ExpectedProfit(in) = e - c BY <1>n DEF Arithmetic!ExpectedProfit
  <2>3. rate * m <= r * rate BY <1>1, <1>2
  <2>. PICK x \in Int : x = rate * m BY <1>1
  <2>. PICK y \in Int : y = r * rate BY <1>2
  <2>4. 20000 * (c + f + 30) - rate < 2 * x
    <3>1. 2 * rate * m = 2 * x BY <1>1
    <3>. QED BY <1>1, <3>1
  <2>5. x <= y /\ n = y - 300000 BY <2>3
  <2>6. 20000 * (c + f) - 18700 < 20000 * e BY <2>1, <2>4, <2>5
  <2>7. e >= c + f BY <2>1, <2>6
  <2>. QED BY <2>1, <2>2, <2>7
<1>4. m <= Arithmetic!FastSalePrice(in) /\ Arithmetic!FastSalePrice(in) <= r
  <2>. PICK n : n = Arithmetic!AtLeast(85 * r, 100 * m) OBVIOUS
  <2>1. n \in Int /\ n >= 100 * m /\ n <= 100 * r BY <1>1, <1>2 DEF Arithmetic!AtLeast
  <2>. PICK s : s = Arithmetic!Rounded(n, 100) OBVIOUS
  <2>2. s \in Int /\ 2 * n - 100 <= 200 * s /\ 200 * s <= 2 * n + 100
    <3>1. n \in Int BY <2>1
    <3>2. s = Arithmetic!Rounded(n, 100) OBVIOUS
    <3>. QED BY ONLY <3>1, <3>2, RoundedCents
  <2>3. Arithmetic!FastSalePrice(in) = s BY DEF Arithmetic!FastSalePrice
  <2>. QED BY <1>1, <1>2, <2>1, <2>2, <2>3
<1>5. /\ out.profit = Arithmetic!ExpectedProfit(in) /\ out.minimum = m
      /\ out.fast = Arithmetic!FastSalePrice(in) /\ out.recommended = r
  BY DEF Arithmetic!CalculatePricing
<1>. QED BY <1>3, <1>4, <1>5

\* The percent a listing is marked down by keeps both limits.
LEMMA PercentLimited ==
  ASSUME NEW in \in MarkdownInputs
  PROVE  /\ Arithmetic!Percent(in) \in Nat
         /\ Arithmetic!Percent(in) <= in.daily /\ Arithmetic!Percent(in) <= in.total
<1>n. in.days \in Nat /\ in.daily \in 0..99 /\ in.total \in 0..99 /\ in.reduced = 0
  <2>1. in.days \in Nat /\ in.daily \in Percents /\ in.total \in Percents /\ in.reduced = 0
    BY DEF MarkdownInputs
  <2>2. in.daily \in 0..99 /\ in.total \in 0..99 BY <2>1, PoliciesAssumption
  <2>. QED BY <2>1, <2>2
<1>. DEFINE reached == Arithmetic!Reached(in.days)
            last == CHOOSE d \in reached : \A e \in reached : e <= d
            stale == IF reached = {} THEN 0 ELSE Arithmetic!StaleThreshold[last]
<1>1. stale \in Nat
  <2>1. reached \subseteq {14, 30, 60, 90} BY DEF Arithmetic!Reached, Arithmetic!StaleThreshold
  <2>2. CASE reached # {}
    <3>1. \E d \in reached : \A e \in reached : e <= d
      <4>1. CASE 90 \in reached BY <2>1, <4>1
      <4>2. CASE 90 \notin reached /\ 60 \in reached BY <2>1, <4>2
      <4>3. CASE 90 \notin reached /\ 60 \notin reached /\ 30 \in reached BY <2>1, <4>3
      <4>4. CASE 90 \notin reached /\ 60 \notin reached /\ 30 \notin reached BY <2>1, <2>2, <4>4
      <4>. QED BY <4>1, <4>2, <4>3, <4>4
    <3>2. last \in {14, 30, 60, 90} BY <2>1, <3>1
    <3>3. Arithmetic!StaleThreshold[last] \in Nat BY <3>2 DEF Arithmetic!StaleThreshold
    <3>. QED BY <2>2, <3>3
  <2>. QED BY <2>2
<1>. HIDE DEF stale
<1>2. Arithmetic!Percent(in) =
        Arithmetic!AtMost(Arithmetic!AtMost(stale, in.daily),
                          Arithmetic!AtLeast(0, in.total - in.reduced))
  BY DEF Arithmetic!Percent, stale
<1>. QED BY SMTT(30), <1>n, <1>1, <1>2 DEF Arithmetic!AtMost, Arithmetic!AtLeast

\* What the markdown policy decides.
LEMMA MarkdownDecided ==
  ASSUME NEW in \in MarkdownInputs, NEW out, out = Arithmetic!EvaluateMarkdown(in)
  PROVE  /\ out.amount \in Nat
         /\ out.decision = "markdown" =>
              /\ in.minimum <= out.amount /\ out.amount < in.price
              /\ 200 * (in.price - out.amount) <= 2 * in.price * in.daily + 100 * MarkdownStep
              /\ 200 * (in.price - out.amount) <= 2 * in.price * in.total + 100 * MarkdownStep
<1>n. /\ in.price \in Nat /\ in.minimum \in Nat /\ in.daily \in Nat /\ in.total \in Nat
      /\ MarkdownStep \in Nat \ {0}
  <2>1. in.price \in Nat /\ in.minimum \in Nat /\ in.daily \in Percents /\ in.total \in Percents
    BY DEF MarkdownInputs
  <2>2. in.daily \in 0..99 /\ in.total \in 0..99 BY <2>1, PoliciesAssumption
  <2>3. MarkdownStep \in Nat \ {0} BY PoliciesAssumption
  <2>. QED BY <2>1, <2>2, <2>3
<1>. PICK p \in Nat : p = in.price BY <1>n
<1>. PICK u \in Nat : u = Arithmetic!Percent(in) /\ u <= in.daily /\ u <= in.total
  BY PercentLimited
<1>. PICK n \in Int : n = p * (100 - u) OBVIOUS
<1>. PICK d \in Nat \ {0} : d = 100 * MarkdownStep BY <1>n
<1>. PICK r : r = Arithmetic!Rounded(n, d) OBVIOUS
<1>. PICK low : low = Arithmetic!Reduced(in) OBVIOUS
<1>1. r \in Int /\ 2 * n - d <= 2 * d * r BY ZenonT(30), Rounding
<1>2. low = MarkdownStep * r BY DEF Arithmetic!Reduced
<1>3. low \in Int /\ 2 * n - d <= 200 * low
  <2>1. 2 * d * r = 200 * (MarkdownStep * r) BY <1>n, <1>1
  <2>. QED BY <1>n, <1>1, <1>2, <2>1
<1>. PICK a : a = Arithmetic!AtLeast(low, in.minimum) OBVIOUS
<1>4. a \in Nat /\ a >= low /\ a >= in.minimum BY <1>n, <1>3 DEF Arithmetic!AtLeast
<1>5. /\ a >= p => out = [decision |-> "hold", amount |-> p]
      /\ ~(a >= p) => out = [decision |-> "markdown", amount |-> a]
  BY DEF Arithmetic!EvaluateMarkdown
<1>6. ASSUME NEW limit \in Nat, u <= limit
      PROVE  200 * (p - a) <= 2 * p * limit + 100 * MarkdownStep
  <2>1. p * u <= p * limit BY <1>6
  <2>. PICK x \in Int : x = p * u OBVIOUS
  <2>. PICK y \in Int : y = p * limit OBVIOUS
  <2>2. x <= y /\ n = 100 * p - x BY <2>1
  <2>3. 200 * (p - a) <= 2 * x + d BY <1>3, <1>4, <2>2
  <2>4. 2 * p * limit = 2 * y OBVIOUS
  <2>. QED BY <1>4, <2>2, <2>3, <2>4
<1>. QED BY <1>n, <1>4, <1>5, <1>6

\* Before anything is asked the listing has no price.
LEMMA ArithmeticInit == Arithmetic!Init => ArithmeticInv
  BY DEF Arithmetic!Init, ArithmeticInv

\* Every question gets the answer of its policy.
LEMMA ArithmeticStep == ArithmeticInv /\ [Arithmetic!Next]_(Arithmetic!vars) => ArithmeticInv'
<1>. SUFFICES ASSUME ArithmeticInv, [Arithmetic!Next]_(Arithmetic!vars) PROVE ArithmeticInv'
  OBVIOUS
<1>1. CASE UNCHANGED Arithmetic!vars BY <1>1 DEF ArithmeticInv, Arithmetic!vars
<1>2. CASE Arithmetic!AskOffer
  <2>1. PICK in \in Arithmetic!OfferInputs :
          Arithmetic!Answers("offer", in, Arithmetic!EvaluateOffer(in))
    BY <1>2 DEF Arithmetic!AskOffer
  <2>2. /\ asked'.policy = "offer" /\ asked'.in = in /\ told' = Arithmetic!EvaluateOffer(in)
        /\ price' = price
    BY <1>2, <2>1 DEF Arithmetic!AskOffer, Arithmetic!Answers
  <2>. QED BY <2>2 DEF ArithmeticInv
<1>3. CASE Arithmetic!AskPrice
  <2>1. PICK in \in Arithmetic!PricingInputs :
          Arithmetic!Answers("price", in, Arithmetic!CalculatePricing(in))
    BY <1>3 DEF Arithmetic!AskPrice
  <2>2. /\ asked'.policy = "price" /\ asked'.in = in /\ told' = Arithmetic!CalculatePricing(in)
        /\ price' = price
    BY <1>3, <2>1 DEF Arithmetic!AskPrice, Arithmetic!Answers
  <2>. QED BY <2>2 DEF ArithmeticInv
<1>4. ASSUME NEW in \in MarkdownInputs, Arithmetic!MarkDown(in) PROVE ArithmeticInv'
  <2>1. /\ asked'.policy = "markdown" /\ asked'.in = in /\ told' = Arithmetic!EvaluateMarkdown(in)
        /\ price' = Arithmetic!EvaluateMarkdown(in).amount
    BY <1>4 DEF Arithmetic!MarkDown, Arithmetic!Answers
  <2>2. Arithmetic!EvaluateMarkdown(in).amount \in Nat BY MarkdownDecided
  <2>. QED BY <2>1, <2>2 DEF ArithmeticInv
<1>5. CASE Arithmetic!AskMarkdown
  <2>1. PICK p \in Prices, c \in Costs, m \in Profits, d \in Days, daily \in Percents, total \in Percents :
          Arithmetic!MarkDown([price |-> p, minimum |-> Arithmetic!MarkdownFloor(c, m), days |-> d,
                               daily |-> daily, total |-> total, reduced |-> 0])
    BY <1>5 DEF Arithmetic!AskMarkdown
  <2>. PICK in : in = [price |-> p, minimum |-> Arithmetic!MarkdownFloor(c, m), days |-> d,
                       daily |-> daily, total |-> total, reduced |-> 0]
    OBVIOUS
  <2>2. p \in Nat /\ d \in Nat /\ Arithmetic!MarkdownFloor(c, m) \in Nat
    BY PoliciesAssumption DEF Arithmetic!MarkdownFloor
  <2>3. in \in MarkdownInputs BY <2>2 DEF MarkdownInputs
  <2>. QED BY <1>4, <2>1, <2>3
<1>6. CASE Arithmetic!AskAgain
  <2>1. PICK d \in Days : Arithmetic!MarkDown([asked.in EXCEPT !.price = price, !.days = d])
    BY <1>6 DEF Arithmetic!AskAgain
  <2>. PICK in : in = [asked.in EXCEPT !.price = price, !.days = d] OBVIOUS
  <2>2. asked.in \in MarkdownInputs /\ price \in Nat
    BY <1>6 DEF Arithmetic!AskAgain, ArithmeticInv, Arithmetic!Nothing
  <2>3. d \in Nat BY PoliciesAssumption
  <2>4. in \in MarkdownInputs BY <2>2, <2>3 DEF MarkdownInputs
  <2>. QED BY <1>4, <2>1, <2>4
<1>. QED BY <1>1, <1>2, <1>3, <1>5, <1>6 DEF Arithmetic!Next

\* Policies: no automatic price gives away the profit or passes its limits,
\* rounding and fees included, for every amount and rate.
THEOREM PoliciesHold == Spec => []PoliciesSound
<1>1. ArithmeticInv => PoliciesSound
  <2>. SUFFICES ASSUME ArithmeticInv PROVE Arithmetic!PoliciesSound BY DEF PoliciesSound
  <2>. PICK in : in = asked.in OBVIOUS
  <2>1. Arithmetic!OfferSound
    <3>. SUFFICES ASSUME asked.policy = "offer" PROVE Arithmetic!OfferSound
      BY DEF Arithmetic!OfferSound
    <3>1. in \in Arithmetic!OfferInputs /\ told = Arithmetic!EvaluateOffer(in)
      BY DEF ArithmeticInv, Arithmetic!Nothing
    <3>. QED BY <3>1, OfferDecided, ConservativeAccepts DEF Arithmetic!OfferSound
  <2>2. Arithmetic!PriceSound
    <3>. SUFFICES ASSUME asked.policy = "price" PROVE Arithmetic!PriceSound
      BY DEF Arithmetic!PriceSound
    <3>1. in \in Arithmetic!PricingInputs /\ told = Arithmetic!CalculatePricing(in)
      BY DEF ArithmeticInv, Arithmetic!Nothing
    <3>. QED BY <3>1, PriceDecided DEF Arithmetic!PriceSound
  <2>3. Arithmetic!MarkdownSound
    <3>. SUFFICES ASSUME asked.policy = "markdown" PROVE Arithmetic!MarkdownSound
      BY DEF Arithmetic!MarkdownSound
    <3>1. in \in MarkdownInputs /\ told = Arithmetic!EvaluateMarkdown(in) /\ price = told.amount
      BY DEF ArithmeticInv, Arithmetic!Nothing
    <3>. QED BY <3>1, MarkdownDecided DEF Arithmetic!MarkdownSound
  <2>. QED BY <2>1, <2>2, <2>3 DEF Arithmetic!PoliciesSound
<1>. QED BY <1>1, ArithmeticSpec, ArithmeticInit, ArithmeticStep, PTL DEF Arithmetic!Spec

\* Policies: the outcomes have their types.
LEMMA ArithmeticTypeCorrect == Spec => []Arithmetic!TypeOK
<1>1. ArithmeticInv => Arithmetic!TypeOK
  <2>. SUFFICES ASSUME ArithmeticInv PROVE Arithmetic!TypeOK OBVIOUS
  <2>1. asked.policy \in {"none", "offer", "price", "markdown"}
    BY DEF ArithmeticInv, Arithmetic!Nothing
  <2>2. asked.policy = "offer" => told.amount \in Nat
    BY OfferDecided DEF ArithmeticInv, Arithmetic!Nothing
  <2>3. asked.policy = "markdown" => told.amount \in Nat
    BY DEF ArithmeticInv, Arithmetic!Nothing
  <2>. QED BY <2>1, <2>2, <2>3 DEF ArithmeticInv, Arithmetic!TypeOK
<1>. QED BY <1>1, ArithmeticSpec, ArithmeticInit, ArithmeticStep, PTL DEF Arithmetic!Spec
=============================================================================
