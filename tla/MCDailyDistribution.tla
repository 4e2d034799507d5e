------------------------- MODULE MCDailyDistribution -------------------------
(***************************************************************************)
(* Small instances of DailyDistribution: two owners; the second is also    *)
(* the operator, and so a beneficiary, of the first.                       *)
(***************************************************************************)
EXTENDS DailyDistribution
TLC == INSTANCE TLC

CONSTANTS alice, bob, platform, today, yesterday, k1, k2

MCOwners == <<alice, bob>>
MCBeneficiaries == [o \in {alice, bob} |-> {o, bob, platform}]

\* Two keys for today, one of them also sent for yesterday.
MCBody == {[key |-> k1, day |-> today], [key |-> k2, day |-> today], [key |-> k1, day |-> yesterday]}


TickSymmetry == TLC!Permutations(Tick)
=============================================================================
