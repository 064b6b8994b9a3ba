------------------------------ MODULE Policies ------------------------------
(* The arithmetic of src/goliath/domain/pricing.py and of the policies in
   src/goliath/marketplace/policy.py, and a listing marked down again and
   again with the floor that run_price_automation gives the policy.

   Money is an integer number of cents and a rate a number of percent; where
   the code rounds half up, so do the definitions here. *)
EXTENDS Integers

CONSTANTS Offered,        \* amounts offered, and prices of comparables
          Costs,          \* acquisition costs
          Profits,        \* minimum net profits
          Prices,         \* list prices
          Percents,       \* discounts, margins and reductions
          Days,           \* days listed
          MarkdownStep    \* marketplace_rounding

VARIABLES asked,   \* the policy asked, with its inputs
          told,    \* its outcome
          price    \* the price of the listing that is marked down

vars == <<asked, told, price>>

\* Decimal.quantize with ROUND_HALF_UP, which takes a half away from zero.
Rounded(n, d) == IF n >= 0 THEN (2 * n + d) \div (2 * d) ELSE -((d - 2 * n) \div (2 * d))

AtLeast(a, b) == IF a >= b THEN a ELSE b
AtMost(a, b) == IF a <= b THEN a ELSE b

-----------------------------------------------------------------------------
(* Offers *)

OfferInputs == [offer : Offered, cost : Costs, profit : Profits, list : Prices,
                discount : Percents, margin : Percents, increment : {1, 100},
                held : BOOLEAN]

\* handle_offer gives a fee of ten percent and thirty cents, and no shipping.
OfferFee == 10
OfferFixedFee == 30

\* net_proceeds less the cost
OfferProfit(in, p) ==
    Rounded(p * (100 - OfferFee) - 100 * OfferFixedFee, 100) - in.cost

\* Seeded fault: the fixed fee is forgotten.
MinimumOfferNoFee(in) == Rounded(100 * (in.cost + in.profit), 100 - OfferFee)

\* The price that clears the minimum profit.
MinimumOffer(in) == Rounded(100 * (in.cost + in.profit + OfferFixedFee), 100 - OfferFee)

DiscountExceeds(in) == 100 * (in.list - in.offer) > in.discount * in.list
MarginClears(in) == 100 * OfferProfit(in, in.offer) >= in.margin * in.offer

\* evaluate_offer; every rule is on, as it is by default.  held: the item is
\* reserved, or of high value.
EvaluateOffer(in) ==
    IF in.held THEN [decision |-> "escalate", amount |-> 0]
    ELSE IF /\ OfferProfit(in, in.offer) >= in.profit
            /\ MarginClears(in) /\ ~DiscountExceeds(in)
    THEN [decision |-> "accept", amount |-> in.offer]
    ELSE IF in.offer < MinimumOffer(in)
    THEN [decision |-> "counter",
          amount |-> AtLeast(MinimumOffer(in), in.offer + in.increment)]
    ELSE [decision |-> IF DiscountExceeds(in) THEN "decline" ELSE "defer", amount |-> 0]

\* handle_offer under autonomous_conservative, with a multiplier of two.
Conservative(in) == [in EXCEPT !.profit = 2 * @, !.discount = @ \div 2]

-----------------------------------------------------------------------------
(* Recommended prices: calculate_pricing *)

\* What is left of a price per ten thousand, after the discount and the fees.
NetRate(in) == (100 - in.discount) * (100 - in.fee)

NoComparables == 0

\* Averages of sold and of active comparables; adjustment: for the condition.
PricingInputs == [sold : Offered \cup {NoComparables}, active : Prices \cup {NoComparables},
                  cost : Costs, profit : Profits, margin : Percents, discount : Percents,
                  fee : {13}, fixed : {30}, adjustment : {80, 100}]

\* The market's price, as numerator and denominator; without comparables, the
\* cost and the target margin.  Sold ones weigh seven and active ones three.
Base(in) ==
    IF in.sold # NoComparables /\ in.active # NoComparables
      THEN <<7 * in.sold + 3 * in.active, 10>>
    ELSE IF in.sold # NoComparables THEN <<in.sold, 1>>
    ELSE IF in.active # NoComparables THEN <<in.active, 1>>
    ELSE <<100 * in.cost, 100 - in.margin>>

MinimumPrice(in) == Rounded(10000 * (in.cost + in.profit + in.fixed), NetRate(in))

\* Raised to the minimum; the fast price is a share of it, and not below either.
RecommendedPrice(in) ==
    AtLeast(Rounded(Base(in)[1] * in.adjustment, 100 * Base(in)[2]), MinimumPrice(in))
FastSalePrice(in) ==
    Rounded(AtLeast(85 * RecommendedPrice(in), 100 * MinimumPrice(in)), 100)
ExpectedProfit(in) ==
    Rounded(RecommendedPrice(in) * NetRate(in) - 10000 * in.fixed, 10000) - in.cost

CalculatePricing(in) ==
    [recommended |-> RecommendedPrice(in), minimum |-> MinimumPrice(in),
     fast |-> FastSalePrice(in), profit |-> ExpectedProfit(in)]

-----------------------------------------------------------------------------
(* Markdowns *)

\* stale_thresholds, then the daily limit, then what the total limit leaves.
StaleThreshold == [d \in {14, 30, 60, 90} |->
    CASE d = 14 -> 5 [] d = 30 -> 8 [] d = 60 -> 12 [] d = 90 -> 15]
Reached(days) == {d \in DOMAIN StaleThreshold : d <= days}
Percent(in) ==
    LET stale == IF Reached(in.days) = {} THEN 0
                 ELSE StaleThreshold[CHOOSE d \in Reached(in.days) :
                                       \A e \in Reached(in.days) : e <= d]
        daily == AtMost(stale, in.daily)
    IN AtMost(daily, AtLeast(0, in.total - in.reduced))

\* The price after the reduction, rounded to the marketplace's step.
Reduced(in) ==
    MarkdownStep * Rounded(in.price * (100 - Percent(in)), 100 * MarkdownStep)

\* evaluate_markdown, past the cooldown: the price, which may be the same.
EvaluateMarkdown(in) ==
    LET proposed == AtLeast(Reduced(in), in.minimum) IN
    IF proposed >= in.price THEN [decision |-> "hold", amount |-> in.price]
    ELSE [decision |-> "markdown", amount |-> proposed]

\* The floor run_price_automation computes: the fees are not in it.
MarkdownFloor(cost, profit) == cost + profit

-----------------------------------------------------------------------------
(* Asking *)

Nothing == [policy |-> "none"]
Init == asked = Nothing /\ told = Nothing /\ price = 0

Answers(policy, in, outcome) == asked' = [policy |-> policy, in |-> in] /\ told' = outcome

AskOffer ==
    /\ asked = Nothing
    /\ \E in \in OfferInputs :
         Answers("offer", in, EvaluateOffer(in))
    /\ UNCHANGED price

AskPrice ==
    /\ asked = Nothing
    /\ \E in \in PricingInputs :
         Answers("price", in, CalculatePricing(in))
    /\ UNCHANGED price

MarkDown(in) ==
    /\ Answers("markdown", in, EvaluateMarkdown(in))
    /\ price' = EvaluateMarkdown(in).amount

\* run_price_automation always says that nothing has been taken off so far.
AskMarkdown ==
    /\ asked = Nothing
    /\ \E p \in Prices, c \in Costs, m \in Profits, d \in Days, daily, total \in Percents :
         MarkDown([price |-> p, minimum |-> MarkdownFloor(c, m), days |-> d,
                   daily |-> daily, total |-> total, reduced |-> 0])

\* The same listing later, from the price it has now.
AskAgain ==
    /\ asked.policy = "markdown" /\ told.decision = "markdown"
    /\ \E d \in Days : d >= asked.in.days /\ MarkDown([asked.in EXCEPT !.price = price, !.days = d])

Next == AskOffer \/ AskPrice \/ AskMarkdown \/ AskAgain

Spec == Init /\ [][Next]_vars

-----------------------------------------------------------------------------
(* Properties *)

\* The outcomes have their types.
TypeOK ==
    /\ asked.policy \in {"none", "offer", "price", "markdown"} /\ price \in Nat
    /\ asked.policy \in {"offer", "markdown"} => told.amount \in Nat

\* A counter offer clears the minimum profit, rounding and fees included, and
\* is above the buyer's offer.  What is accepted is at most a cent below the
\* price that clears it, and is accepted by the rules that are not conservative
\* whenever the conservative ones accept it.
OfferSound ==
    asked.policy = "offer" =>
      LET in == asked.in IN
      /\ told.decision = "counter" =>
           OfferProfit(in, told.amount) >= in.profit /\ told.amount > in.offer
      /\ told.decision = "accept" => in.offer >= MinimumOffer(in) - 1
      /\ EvaluateOffer(Conservative(in)).decision = "accept" => told.decision = "accept"

\* The recommended price earns the minimum profit after the fees, and the fast
\* one is not above it.
PriceSound ==
    asked.policy = "price" =>
      /\ told.profit >= asked.in.profit
      /\ told.minimum <= told.fast /\ told.fast <= told.recommended

\* A price goes down by the daily limit at most, and half a step of rounding,
\* and it stops at the floor.
MarkdownSound ==
    asked.policy = "markdown" =>
      LET in == asked.in IN
      /\ told.decision = "markdown" =>
           /\ in.minimum <= told.amount /\ told.amount < in.price
           /\ 200 * (in.price - told.amount) <= 2 * in.price * in.daily + 100 * MarkdownStep
           /\ 200 * (in.price - told.amount) <= 2 * in.price * in.total + 100 * MarkdownStep
      /\ price = told.amount

\* No automatic price gives away the profit or passes its limits.
PoliciesSound == OfferSound /\ PriceSound /\ MarkdownSound
=============================================================================
