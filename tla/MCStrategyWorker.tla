--------------------------- MODULE MCStrategyWorker ---------------------------
(***************************************************************************)
(* A small instance of StrategyWorker.  The pool of s1 leaves the range of *)
(* s1 a little and then so far down that eight decimals round its price to *)
(* 0; the row of s2 has the tokens of the same pool the other way round.   *)
(* s3, which is not evaluated, is in another pool, so that one of the two  *)
(* can be read when the other cannot.                                      *)
(***************************************************************************)
EXTENDS StrategyWorker

CONSTANTS s1, s2, s3, p1, p2

MCPoolOf == [s \in {s1, s2, s3} |-> IF s = s3 THEN p2 ELSE p1]
MCTokenOrder == [s \in {s1, s2} |-> IF s = s1 THEN "pool" ELSE "reversed"]
MCRange == [s \in {s1, s2} |-> [lower |-> -100, upper |-> 100]]
MCPoolFacts == [p \in {p1, p2} |-> [tier |-> 500, class |-> "STABLE", decimals |-> 0]]

At(tick) == [kind |-> "price", tick |-> tick]
Zero == [kind |-> "zero", tick |-> 0]
MCTickAt == [p \in {p1, p2} |-> [t \in Time |-> <<50, 110, -200000>>[t + 1]]]
MCPoolPrice == [p \in {p1, p2} |-> [t \in Time |-> <<At(50), At(110), Zero>>[t + 1]]]
MCInversePrice == [p \in {p1, p2} |-> [t \in Time |-> <<At(-50), At(-110), NoPrice>>[t + 1]]]

MCPolicyChoice == {[enabled |-> TRUE, mode |-> "AGGRESSIVE", minNet |-> 100, rebalance |-> TRUE,
                    compound |-> TRUE]}
Ranging == [prices |-> 8, points |-> 8, liquidity |-> 2000000, volatility |-> 0, trend |-> 0,
            drift |-> 0]
MCSample == {Ranging, [Ranging EXCEPT !.trend = 60, !.drift = 40], [Ranging EXCEPT !.volatility = 300]}
Young == [known |-> TRUE, value |-> 100000, fees |-> 1000, age |-> 10]
MCSize == {Young, [Young EXCEPT !.age = 1440]}

\* Bound: two calls at a time, of a kind or of two, unless one of them wants both pools,
\* or is an evaluation that has all its live states and reads nothing of the others any more.
Alone(c) == PoolsOf(call[c].want) = Pool \/ (c \in Evaluator /\ Enriched(c))
TwoAtATime == \A c, d \in Caller : c # d /\ call[c].at # "idle" /\ call[d].at # "idle" =>
    /\ ~Alone(c)
    /\ \A e \in Caller : e = c \/ e = d \/ call[e].at = "idle"

\* Bound: a batch of both pools or of s1, and recommendations for s1.
FewPositions ==
    /\ \A c \in Saver : call[c].want \in {{}, {s1, s3}}
    /\ \A s \in {s2, s3} : advice[s] = NoEntry /\ \A c \in Viewer : call[c].want # {s}
=============================================================================
