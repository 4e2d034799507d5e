---------------------------- MODULE StrategyWorker ----------------------------
(***************************************************************************)
(* The evaluation of a wallet by the strategy worker                       *)
(* (services/strategy/worker.ts, stores.ts, strategy-engine.ts), on the    *)
(* live state and beside the other readers of LiveReads.                   *)
(*                                                                         *)
(* evaluateWallet reads the policies once, reads the live state of every   *)
(* position in one call, and then goes through the positions: it saves the *)
(* state of the market, asks the engine, and enqueues and executes at most *)
(* one job for each.  What the executor makes of the job is AutomationExe- *)
(* cutor's business; here a job is what the worker asks for.               *)
(***************************************************************************)
EXTENDS LiveReads, StrategyRules

CONSTANTS
    Owned,          \* the saved positions of the wallet that is evaluated
    PolicyChoice,   \* policies that the owner may save
    Range,          \* the saved range of each position
    PoolFacts,      \* fee tier, class and difference of decimals of each pool
    TickAt,         \* the tick of each pool at each time; a pool keeps it below MaxTick
    PoolPrice,      \* token1PerToken0 of each pool at each time, as it is displayed
    InversePrice,   \* 1 / token1PerToken0, displayed
    TokenOrder,     \* whether a row has its tokens in the pool's order
    Sample,         \* what the last 64 snapshots may say
    Size,           \* what the analytics may say of a position
    AllowRebalance, \* AUTOMATION_EXECUTION_ENABLED
    AllowCompound,  \* AUTOMATION_AUTO_COMPOUND_ENABLED
    MinimumBenefit, \* AUTOMATION_MIN_NET_BENEFIT_USD
    MinimumFees     \* AUTOMATION_MIN_COMPOUND_FEES_USD

NoPolicy == [enabled |-> FALSE, mode |-> "BALANCED", minNet |-> 0, rebalance |-> FALSE,
             compound |-> FALSE]

ASSUME WorkerAssumption ==
    /\ Owned \subseteq Position
    /\ PolicyChoice \subseteq [enabled : BOOLEAN, mode : Mode, minNet : Nat, rebalance : BOOLEAN,
                               compound : BOOLEAN]
    /\ Range \in [Owned -> [lower : Int, upper : Int]]
    /\ PoolFacts \in [Pool -> [tier : Nat, class : PairClass, decimals : Int]]
    /\ TickAt \in [Pool -> [Time -> MinTick .. MaxTick - 1]]
    /\ PoolPrice \in [Pool -> [Time -> Price]] /\ InversePrice \in [Pool -> [Time -> Price]]
    /\ TokenOrder \in [Owned -> {"pool", "reversed", "other"}]
    /\ \A p \in Pool : \A t \in Time :
         /\ PoolPrice[p][t].kind # "none"
         /\ Shows(PoolPrice[p][t], TickOfPrice(TickAt[p][t], PoolFacts[p].decimals))
         /\ IF PoolPrice[p][t].kind = "zero" THEN InversePrice[p][t] = NoPrice
            ELSE InversePrice[p][t].kind # "none" /\ Shows(InversePrice[p][t], -PoolPrice[p][t].tick)
    /\ Sample \subseteq [prices : Nat, points : Nat, liquidity : Nat, volatility : Nat, trend : Int,
                          drift : Int]
    /\ \A size \in Size : size.known /\ size.value > 0 /\ size.fees >= 0 /\ size.age >= 0
    /\ AllowRebalance \in BOOLEAN /\ AllowCompound \in BOOLEAN
    /\ MinimumBenefit \in Nat /\ MinimumFees \in Nat

VARIABLES
    seen,       \* for each position policyMap.get(positionId) ?? policyMap.get("*"), as
                \* an evaluation has found it in AutomationPolicy
    todo,       \* the positions that each evaluation still has to go through
    turn,       \* the position in work: to be evaluated, its job to be executed
    job         \* the job in the hands of each evaluation, or NoJob

workerVars == <<seen, todo, turn, job>>
vars == <<liveVars, workerVars>>

-----------------------------------------------------------------------------
\* A job in flight, and what the properties say of it: whether the live state is a
\* fallback, the cooldown runs, the range is left severely; whether the price shows the tick,
\* and the proposed range holds the tick.
JobKind == {"none", "rebalance", "compound"}
Job == [kind : JobKind, fallback : BOOLEAN, cooling : BOOLEAN, severe : BOOLEAN,
        shows : BOOLEAN, holds : BOOLEAN]
NoJob == [kind |-> "none", fallback |-> FALSE, cooling |-> FALSE, severe |-> FALSE,
          shows |-> FALSE, holds |-> FALSE]
NoTurn == [at |-> "next", positions |-> {}]

Init ==
    /\ LiveInit
    /\ seen = [e \in Evaluator |-> [s \in Owned |-> NoPolicy]]
    /\ todo = [e \in Evaluator |-> {}]
    /\ turn = [e \in Evaluator |-> NoTurn]
    /\ job = [e \in Evaluator |-> NoJob]

\* fallbackPoolSnapshot has tick 0.
TickOf(e, s) == IF IsFallback(e, s) THEN 0 ELSE TickAt[PoolOf[s]][TimeOf(e, s)]

-----------------------------------------------------------------------------
(* evaluateWallet *)

\* loadPositions and loadPolicies: whatever the owner has saved by now, read once.
BeginEvaluate(e) ==
    /\ call[e].at = "idle"
    /\ call' = [call EXCEPT ![e] = [NoCall EXCEPT !.at = "load", !.want = Owned]]
    /\ \E policyMap \in [Owned -> {NoPolicy} \cup PolicyChoice] : seen' = [seen EXCEPT ![e] = policyMap]
    /\ todo' = [todo EXCEPT ![e] = Owned]
    /\ UNCHANGED <<now, pools, advice, live, batch, turn, job>>

EnrichWallet(e) == Enrich(e) /\ UNCHANGED workerVars

Forget(e) ==
    /\ seen' = [seen EXCEPT ![e] = [s \in Owned |-> NoPolicy]]
    /\ todo' = [todo EXCEPT ![e] = {}]
    /\ turn' = [turn EXCEPT ![e] = NoTurn]
    /\ job' = [job EXCEPT ![e] = NoJob]

\* The live reads throw, or the log in the catch clause of a position.
Abort(e) ==
    /\ Fail(e)
    /\ Forget(e)

\* The next position; it is skipped when its policy is missing or disabled.  saveSnapshot
\* adds to the samples of the market, which are whatever Sample says.
Take(e) ==
    /\ Enriched(e)
    /\ turn[e].at = "next"
    /\ \E s \in todo[e] :
         /\ todo' = [todo EXCEPT ![e] = @ \ {s}]
         /\ IF seen[e][s].enabled
            THEN turn' = [turn EXCEPT ![e] = [at |-> "evaluate", positions |-> {s}]]
            ELSE UNCHANGED turn
    /\ UNCHANGED <<liveVars, seen, job>>

\* Mutant: what a position is worth does not depend on the live state.
AnySize(e, s) == Size \cup {Unknown}

\* analyze: without liquidity, so from a fallback, nothing is known.
Known(e, s) == IF IsFallback(e, s) THEN {Unknown} ELSE Size \cup {Unknown}

\* deriveCurrentPriceFromSnapshot: for a row with its tokens in the reverse of the pool's
\* order the price is the inverse of the one displayed, though the tick stays the pool's.
PriceOf(e, s) ==
    IF IsFallback(e, s) THEN NoPrice
    ELSE CASE TokenOrder[s] = "pool" -> PoolPrice[PoolOf[s]][TimeOf(e, s)]
           [] TokenOrder[s] = "reversed" -> InversePrice[PoolOf[s]][TimeOf(e, s)]
           [] OTHER -> NoPrice

\* The displayed price is that of the tick: the pool's order, as many decimals in both
\* tokens, and a price of at least 0.00001.
ShowsTick(e, s) ==
    /\ ~IsFallback(e, s)
    /\ TokenOrder[s] = "pool" /\ PoolFacts[PoolOf[s]].decimals = 0
    /\ TickOf(e, s) >= FirstShown

\* Mutant: a loss found by the analytics overrides the cooldown.
LossOfValue(size) == Il(size.value, size.fees)

\* The worker gives no reference price, so the loss is unknown, which counts as none.
LossSeen(size) == Il(0, size.fees)

\* The cooldown counts from the creation of the row: no caller gives lastRebalanceAt.
Cooling(p, size) == size.age < Cooldown[p.mode]

\* The policies of worker.ts: GuardedRebalanceExecutionPolicy and
\* GuardedAutoCompoundExecutionPolicy.
MayRebalance(p, wanted, net) ==
    /\ AllowRebalance
    /\ p.rebalance
    /\ net >= p.minNet /\ net >= MinimumBenefit
    /\ wanted
MayCompound(p, size) ==
    /\ AllowCompound
    /\ p.compound /\ size.known /\ size.fees > 0 /\ size.fees >= MinimumFees

\* The job that is enqueued for position s, or NoJob.  A rejected recommendation does
\* not rebalance.
Asked(e, s, sample, size, bias) ==
    LET p == seen[e][s]
        pool == PoolFacts[PoolOf[s]]
        tick == TickOf(e, s)
        state == Detect(sample)
        proposed == Propose(p.mode, pool, tick, PriceOf(e, s), state, sample.volatility, bias)
        severe == Severe(tick, Range[s], proposed)
        net == Net(size, state)
        wanted == ShouldRebalance(p.mode, OutOfRange(tick, Range[s]), severe,
                                  Cooling(p, size), net, state, LossSeen(size))
    IN  IF ~Rejected(pool.tier, Range[s]) /\ MayRebalance(p, wanted, net)
        THEN [kind |-> "rebalance", fallback |-> IsFallback(e, s), cooling |-> Cooling(p, size),
              severe |-> severe, shows |-> ShowsTick(e, s), holds |-> ~OutOfRange(tick, proposed)]
        ELSE IF MayCompound(p, size)
        THEN [NoJob EXCEPT !.kind = "compound", !.fallback = IsFallback(e, s)]
        ELSE NoJob

\* getRecentSnapshots, analyze, evaluate and enqueueAutomationJob.
Evaluate(e) ==
    /\ turn[e].at = "evaluate"
    /\ \E s \in turn[e].positions, sample \in Sample : \E size \in Known(e, s), bias \in Bias(Detect(sample)) :
         LET asked == Asked(e, s, sample, size, bias) IN
         /\ job' = [job EXCEPT ![e] = asked]
         /\ turn' = IF asked = NoJob THEN [turn EXCEPT ![e] = NoTurn]
                    ELSE [turn EXCEPT ![e].at = "execute"]
    /\ UNCHANGED <<liveVars, seen, todo>>

\* executeAutomationJobById has answered, whatever it was, and the line is logged.
EndJob(e) ==
    /\ turn[e].at = "execute"
    /\ job' = [job EXCEPT ![e] = NoJob]
    /\ turn' = [turn EXCEPT ![e] = NoTurn]
    /\ UNCHANGED <<liveVars, seen, todo>>

\* The catch clause of a position: the next one follows.
Caught(e) ==
    /\ turn[e].at \in {"evaluate", "execute"}
    /\ job' = [job EXCEPT ![e] = NoJob]
    /\ turn' = [turn EXCEPT ![e] = NoTurn]
    /\ UNCHANGED <<liveVars, seen, todo>>

EndEvaluate(e) ==
    /\ Enriched(e)
    /\ turn[e].at = "next"
    /\ todo[e] = {}
    /\ Leave(e)
    /\ Forget(e)
    /\ UNCHANGED <<now, pools, advice, batch>>

EvaluatorStep(e) ==
    \/ BeginEvaluate(e) \/ EnrichWallet(e) \/ Abort(e) \/ Take(e) \/ Evaluate(e)
    \/ EndJob(e) \/ Caught(e) \/ EndEvaluate(e)

ReaderStep == LiveNext /\ UNCHANGED workerVars

Next == (\E e \in Evaluator : EvaluatorStep(e)) \/ ReaderStep

Spec == Init /\ [][Next]_vars

-----------------------------------------------------------------------------
TypeOK ==
    /\ LiveTypeOK
    /\ seen \in [Evaluator -> [Owned -> {NoPolicy} \cup PolicyChoice]]
    /\ todo \in [Evaluator -> SUBSET Owned]
    /\ turn \in [Evaluator -> [at : {"next", "evaluate", "execute"},
                            positions : SUBSET Owned]]
    /\ job \in [Evaluator -> Job]

\* worker.ts never looks at liveStateSource.  Still no job rests on a pool that could
\* not be read: without liquidity there is no value, no fee, and no net benefit.
FallbackNeverTraded ==
    \A e \in Evaluator : job[e].kind # "none" => ~job[e].fallback

\* rebalance-decision-engine.ts: of the three ways to shouldRebalance only the severe one
\* is open during the cooldown, the one through an impermanent loss being closed by the
\* worker, which knows of none.
CooldownHolds ==
    \A e \in Evaluator : job[e].kind = "rebalance" /\ job[e].cooling => job[e].severe

\* rebalance-ratio-utils.ts, line 62: the proposed range is around the current price.  It
\* is when the row has its tokens in the pool's order, both tokens have the same number of
\* decimals and the price is at least 0.00001: then width, bias, the 8 decimals of the price
\* and the roundings of the ticks never push the tick out of what is proposed.  Otherwise
\* the code takes the tick of another price than the pool's, and it may.
ProposalHoldsTick ==
    \A e \in Evaluator : job[e].kind = "rebalance" /\ job[e].shows => job[e].holds
=============================================================================
