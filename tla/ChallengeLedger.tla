--------------------------- MODULE ChallengeLedger ---------------------------
(***************************************************************************)
(* What the challenges promise: a request gets past the signature check    *)
(* with a nonce that was issued and, when it was looked up last, unused.   *)
(***************************************************************************)
CONSTANTS Nonce, Request

VARIABLES
    issued,   \* the nonces handed out
    claims,   \* which request has found which nonce unused
    uses      \* which request got past with which nonce

vars == <<issued, claims, uses>>

Init == issued = {} /\ claims = {} /\ uses = {}

Issue(n) ==
    /\ n \notin issued
    /\ issued' = issued \cup {n}
    /\ UNCHANGED <<claims, uses>>

Unused(n) == n \in issued /\ \A u \in uses : u[2] # n

Claim(r, n) ==
    /\ Unused(n)
    /\ claims' = claims \cup {<<r, n>>}
    /\ UNCHANGED <<issued, uses>>

Use(r, n) ==
    /\ Unused(n) \/ <<r, n>> \in claims
    /\ uses' = uses \cup {<<r, n>>}
    /\ claims' = claims \ {<<r, n>>}
    /\ UNCHANGED issued

\* All requests end with the process.
Forget ==
    /\ claims' = {}
    /\ UNCHANGED <<issued, uses>>

Next ==
    \/ \E n \in Nonce : Issue(n) \/ \E r \in Request : Claim(r, n) \/ Use(r, n)
    \/ Forget

Spec == Init /\ [][Next]_vars
=============================================================================
