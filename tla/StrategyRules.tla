---------------------------- MODULE StrategyRules ----------------------------
(***************************************************************************)
(* The pure rules of the strategy engine (services/strategy): the state of *)
(* a market, the range that is proposed and the decision to rebalance.     *)
(*                                                                         *)
(* Widths are in bps, money in cents, times in minutes.  The statistics of *)
(* a series of snapshots (market-math.ts) are inputs: a sample says how    *)
(* many priced points there are, the median liquidity, the volatility in   *)
(* bps and the trend and drift in hundredths of a percent.                 *)
(***************************************************************************)
EXTENDS Integers

Mode == {"CONSERVATIVE", "BALANCED", "AGGRESSIVE"}
PairClass == {"VOLATILE", "STABLE"}

AtLeast(a, b) == IF a < b THEN b ELSE a
AtMost(a, b) == IF a > b THEN b ELSE a
Clamp(x, low, high) == AtLeast(AtMost(x, high), low)
Round(n, d) == (2 * n + d) \div (2 * d)

\* STRATEGY_MODE_CONFIG: width and sensitivity in percent.
WidthMultiplier == [CONSERVATIVE |-> 140, BALANCED |-> 100, AGGRESSIVE |-> 72]
Sensitivity == [CONSERVATIVE |-> 80, BALANCED |-> 100, AGGRESSIVE |-> 120]
Cooldown == [CONSERVATIVE |-> 90, BALANCED |-> 45, AGGRESSIVE |-> 20]
MinimumNet == [CONSERVATIVE |-> 1000, BALANCED |-> 500, AGGRESSIVE |-> 200]

-----------------------------------------------------------------------------
(* Ticks *)

MinTick == -887272
MaxTick == 887272

\* TICK_SPACING_BY_FEE_TIER
Supported == {100, 500, 3000, 10000}
TickSpacing(tier) == CASE tier = 100 -> 1 [] tier = 500 -> 10 [] tier = 3000 -> 60 [] tier = 10000 -> 200

FloorToUsable(tick, spacing) == Clamp((tick \div spacing) * spacing, MinTick, MaxTick)
CeilToUsable(tick, spacing) == Clamp(-((-tick) \div spacing) * spacing, MinTick, MaxTick)

\* normalizeProposedRange; it throws when the range is not Valid.
Normalize(lower, upper, tier) ==
    [lower |-> FloorToUsable(lower, TickSpacing(tier)), upper |-> CeilToUsable(upper, TickSpacing(tier))]
Valid(range) == range.lower < range.upper

\* runSafetyPrechecks
Rejected(tier, range) == tier \notin Supported \/ ~Valid(range)

-----------------------------------------------------------------------------
(* The market *)

Thin(sample) == sample.liquidity > 0 /\ sample.liquidity < 1000000

\* RuleBasedMarketStateDetector: the first rule that applies.
Detect(sample) ==
    IF Thin(sample) THEN "LOW_LIQUIDITY"
    ELSE IF sample.volatility > 200 THEN "HIGH_VOLATILITY"
    ELSE CASE sample.trend > 50 /\ sample.drift > 30 -> "UP_TREND"
           [] sample.trend < -50 /\ sample.drift < -30 -> "DOWN_TREND"
           [] OTHER -> IF sample.prices >= 4 \/ sample.points >= 6 THEN "RANGE" ELSE "UNKNOWN"

\* baseWidthByState, in bps
BaseWidth(state, class) ==
    IF class = "STABLE"
    THEN [RANGE |-> 400, UP_TREND |-> 500, DOWN_TREND |-> 500, HIGH_VOLATILITY |-> 800,
          LOW_LIQUIDITY |-> 1200, UNKNOWN |-> 600][state]
    ELSE [RANGE |-> 600, UP_TREND |-> 800, DOWN_TREND |-> 800, HIGH_VOLATILITY |-> 1400,
          LOW_LIQUIDITY |-> 1800, UNKNOWN |-> 1200][state]

\* clampedWidth, in bps
Width(mode, state, class, volatility) ==
    LET factor == 1000 + (volatility * Sensitivity[mode] * 5) \div 1000
        wanted == (BaseWidth(state, class) * WidthMultiplier[mode] * factor) \div 100000
    IN  IF class = "STABLE" THEN Clamp(wanted, 100, 1500) ELSE Clamp(wanted, 200, 3500)

\* rawHalfWidthTicks
HalfTicks(width, spacing) == AtLeast(2 * spacing, Round(width, 2 * spacing) * spacing)

\* Mutant: a bias of 12%.
BiasTenfold(state) == CASE state = "UP_TREND" -> {1133} [] state = "DOWN_TREND" -> {-1278} [] OTHER -> {0}

\* centerBias is 1.2%: 1.0001^119.3 = 1.012 and 1.0001^-120.7 = 0.988, and the tick of the
\* biased price is rounded.
Bias(state) == CASE state = "UP_TREND" -> 119..120 [] state = "DOWN_TREND" -> -121..-120 [] OTHER -> {0}

Around(centre, half, tier) == Normalize(centre - half, centre + half, tier)

\* currentPrice: null, a price that the 8 decimals of toFixed leave at 0, or a price, which
\* is given as the tick that tickFromPrice makes of it.
Price == [kind : {"none", "zero", "price"}, tick : Int]
NoPrice == [kind |-> "none", tick |-> 0]

\* The tick of a price between units of the tokens: 10 = 1.0001^23027.
TickOfPrice(tick, decimals) == tick + 23027 * decimals

\* sqrtPriceX96ToToken1PerToken0 keeps 8 decimals.  They move a price from 0.00001 on,
\* which is from tick -115129 on, by 0.05% at most; a lower one they move by thousands of
\* ticks or to 0.
FirstShown == -115000
Shows(price, tick) == tick >= FirstShown => price.kind = "price" /\ price.tick - tick \in -10..10

\* rebalanceToEqualWeight leaves a centre within 10% of the price: 0.9 = 1.0001^-1053 and
\* 1.1 = 1.0001^953.
EqualWeight(centre, tick) == centre - tick \in -1053 .. 953

\* propose, then rebalanceToEqualWeight in the engine.  A price is never too far from the
\* centre; without one, the centre is compared with 1, the price of tick 0.  From a price
\* of 0 the tick is the centre, and there is no suggestedCenterPrice to compare.
Propose(mode, pool, tick, price, state, volatility, bias) ==
    LET half == HalfTicks(Width(mode, state, pool.class, volatility), TickSpacing(pool.tier))
        raw == Around(IF price.kind = "price" THEN price.tick + bias ELSE tick, half, pool.tier)
        \* suggestedCenterPrice carries the bias, the tick of an unpriced pool does not
        centre == tick + bias
    IN  IF price.kind # "none" \/ EqualWeight(centre, 0) THEN raw
        ELSE Around(0, Round(raw.upper - raw.lower, 2), pool.tier)

-----------------------------------------------------------------------------
(* The decision *)

GasCost == 800

\* stateBoost, in percent
Boost(state) ==
    CASE state = "RANGE" -> 115
      [] state \in {"UP_TREND", "DOWN_TREND"} -> 105
      [] state = "HIGH_VOLATILITY" -> 90
      [] OTHER -> 70

\* What is known of a position: its value and its fees in cents, and its age.  A value
\* that could not be estimated leaves the fees and the APR unknown too.
Unknown == [known |-> FALSE, value |-> 0, fees |-> 0, age |-> 0]

\* estimateFeeOpportunityUsd: the APR takes value and fees for the profit of the days
\* held, an hour at least.
Opportunity(size, state) ==
    IF ~size.known THEN 0
    ELSE ((((size.value + size.fees) * Boost(state)) \div 100) * 10080) \div AtLeast(size.age, 60)

Net(size, state) == AtLeast(Opportunity(size, state), 0) + Round(size.fees, 20) - GasCost

\* evaluateIlVsFees
Il(loss, fees) ==
    [rebalance |-> loss > 0 /\ 10 * fees < 12 * loss, exit |-> loss > 0 /\ 10 * fees < 8 * loss]

OutOfRange(tick, range) == tick < range.lower \/ tick >= range.upper
Distance(tick, range) ==
    CASE tick < range.lower -> range.lower - tick
      [] tick >= range.upper -> tick - range.upper
      [] OTHER -> 0

\* severeOutOfRange
Severe(tick, range, proposed) ==
    Distance(tick, range) > 2 * AtLeast(1, Round(proposed.upper - proposed.lower, 10))

\* decide: the reasons against it, then shouldRebalance.  GAS_EXCEEDS_BENEFIT only
\* ever joins NEGATIVE_NET_BENEFIT.
Against(mode, outside, severe, cooling, net, state, il) ==
    {c \in {"COOLDOWN_ACTIVE", "IN_RANGE_NO_EDGE", "NEGATIVE_NET_BENEFIT", "NET_BENEFIT_TOO_SMALL",
            "IL_EXCEEDS_FEES"} :
        CASE c = "COOLDOWN_ACTIVE" -> cooling /\ ~severe
          [] c = "IN_RANGE_NO_EDGE" -> ~outside /\ state = "RANGE"
          [] c = "NEGATIVE_NET_BENEFIT" -> net <= 0
          [] c = "NET_BENEFIT_TOO_SMALL" -> net > 0 /\ net < MinimumNet[mode]
          [] c = "IL_EXCEEDS_FEES" -> il.rebalance}

ShouldRebalance(mode, outside, severe, cooling, net, state, il) ==
    LET against == Against(mode, outside, severe, cooling, net, state, il) IN
    IF severe \/ (il.exit /\ outside) THEN net > 0
    ELSE \/ against = {}
         \/ outside /\ net > MinimumNet[mode] /\ "COOLDOWN_ACTIVE" \notin against
         \/ il.rebalance /\ outside /\ 2 * net > MinimumNet[mode]
=============================================================================
