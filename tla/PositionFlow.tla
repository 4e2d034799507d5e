---------------------------- MODULE PositionFlow ----------------------------
(***************************************************************************)
(* What the web application does with a wallet: the create-position page   *)
(* (prepare, check and give approvals, mint, save) and the rebalance card  *)
(* (collect, or decrease - collect - burn - mint), over the Uniswap        *)
(* adapter, next to each other in several tabs of one browser.             *)
(*                                                                         *)
(* A handler keeps what it captured at the click (a React closure) while   *)
(* the page's state moves on, and it stops at every read of the chain,     *)
(* every transaction and every call of the API; a transaction stands for   *)
(* its signature, its mining and its receipt.  The user may change the     *)
(* wallet's account at any time.  Tokens, position manager and chain are   *)
(* the environment; all is on one chain, another one is an error at the    *)
(* handler's first read.                                                   *)
(***************************************************************************)
EXTENDS Integers, FiniteSets

CONSTANTS
    Account,     \* the accounts of the user's wallet
    Token,       \* the tokens of the pair, as numbers: WETH is approved first
    Page,        \* tabs with a create-position page
    Card,        \* tabs with a rebalance card
    Need,        \* the amounts that may be entered: per token, more than zero
    Yield,       \* what a position may have earned, or gives back when it is withdrawn
    MaxSent,     \* bound: transactions that a flow sends, per kind of flow
    MaxMoves,    \* bound: how often the user prepares, starts a card or changes the account
    MaxLate,     \* bound: transactions left pending
    MaxNfts,     \* bound: positions ever minted, the first one included
    None         \* nothing there

Amounts == [Token -> Nat]

ASSUME FlowConstants ==
    /\ Token \subseteq Nat /\ Token # {} /\ IsFiniteSet(Token)
    /\ Need \subseteq [Token -> Nat \ {0}]
    /\ Yield \subseteq Amounts
    /\ MaxSent \in [{"approve", "mint", "card"} -> Nat]
    /\ MaxMoves \in Nat /\ MaxLate \in Nat /\ MaxNfts \in Nat \ {0}
    /\ None \notin Account

Nft == 1..MaxNfts

\* A page can approve and mint at the same time; a card does one thing at a time.
Flow == (Page \X {"approve", "mint"}) \cup (Card \X {"card"})

Approving(p) == <<p, "approve">>
Minting(p) == <<p, "mint">>
Carding(c) == <<c, "card">>

VARIABLES
    account,    \* the account that the wallet presents
    moves,      \* how many of those there were
    allowance,  \* external: what the position manager may take, per account and token
    nft,        \* external: the positions, by token id
    prepared,   \* per page: preparedTx, the owner and the amounts of the mint
    preparing,  \* per page: the preparations under way
    checked,    \* per page: approvalStatus
    flow,       \* per flow: the await it is at and what its closure holds
    sent,       \* per flow: how many transactions were sent and did not revert; <<f, n>> is a hash
    late,       \* transactions that nobody waits for any more but that may be mined
    rows,       \* the rows of Position and ActivityLog
    mined,      \* history: the transactions a row may be about, of those that succeeded
    lowered,    \* history: per page, the payer's allowance fell since it was read
    asked       \* history: the largest amount that an account set out to approve

pageVars == <<prepared, preparing, checked>>
chainVars == <<allowance, nft, mined, late>>
historyVars == <<lowered, asked>>
vars == <<account, moves, allowance, nft, prepared, preparing, checked, flow, sent, late, rows,
          mined, lowered, asked>>

Zero == [t \in Token |-> 0]
Covers(x, y) == \A t \in Token : x[t] >= y[t]
Plus(x, y) == [t \in Token |-> x[t] + y[t]]
Minus(x, y) == [t \in Token |-> x[t] - y[t]]

Idle == [at |-> "idle", who |-> None, wallet |-> None, for |-> None, need |-> Zero, todo |-> {}, id |-> 1]

\* A position: not minted yet, minted for somebody, or burned.
Unminted == [owner |-> None, state |-> "unminted", liquid |-> FALSE, owed |-> Zero]
Open(a) == [owner |-> a, state |-> "open", liquid |-> TRUE, owed |-> Zero]
Burned == [Unminted EXCEPT !.state = "burned"]

Init ==
    /\ account \in Account
    /\ moves = 0
    /\ allowance \in [Account -> {Zero}]
    /\ \E fees \in Yield \cup {Zero} :
        nft = [i \in Nft |-> IF i = 1 THEN [Open(account) EXCEPT !.owed = fees] ELSE Unminted]
    /\ prepared = [p \in Page |-> None]
    /\ preparing = [p \in Page |-> None]
    /\ checked = [p \in Page |-> "none"]
    /\ flow = [f \in Flow |-> Idle]
    /\ sent = [f \in Flow |-> 0]
    /\ late = {}
    /\ rows = {}
    /\ mined = {}
    /\ lowered = [p \in Page |-> FALSE]
    /\ asked = [a \in Account |-> Zero]

Goto(f, l) == flow' = [flow EXCEPT ![f].at = l]
Stop(f) == flow' = [flow EXCEPT ![f] = Idle]
At(f, l) == flow[f].at = l

-----------------------------------------------------------------------------
(***************************************************************************)
(* External: what the tokens and the position manager do with transaction  *)
(* x when it succeeds: the new allowances and positions, the position it   *)
(* is about and what it paid out.                                          *)
(***************************************************************************)
Effect(al, n, i, paid) == [allowance |-> al, nft |-> n, id |-> i, paid |-> paid]

ApproveEffects(x) ==
    {Effect([allowance EXCEPT ![x.who] = [t \in Token |-> IF x.amounts[t] > 0 THEN x.amounts[t] ELSE @[t]]],
            nft, x.id, Zero)}

\* Only the owner of a position may change it, and a burned one has no owner.
Owned(x) == nft[x.id].owner = x.who

DecreaseEffects(x) ==
    {Effect(allowance, [nft EXCEPT ![x.id].liquid = FALSE, ![x.id].owed = Plus(@, y)], x.id, Zero) :
        y \in IF Owned(x) /\ nft[x.id].liquid THEN Yield ELSE {}}

CollectEffects(x) ==
    IF Owned(x) THEN {Effect(allowance, [nft EXCEPT ![x.id].owed = Zero], x.id, nft[x.id].owed)} ELSE {}

BurnEffects(x) ==
    IF Owned(x) /\ ~nft[x.id].liquid /\ nft[x.id].owed = Zero
    THEN {Effect(allowance, [nft EXCEPT ![x.id] = Burned], x.id, Zero)} ELSE {}

\* A mint takes no more than the amounts it names, from the allowances of the payer.
Taken(x) ==
    {u \in [Token -> UNION {0..x.amounts[t] : t \in Token}] :
        u # Zero /\ Covers(x.amounts, u) /\ Covers(allowance[x.who], u)}

NextId == {i \in Nft : nft[i].state = "unminted" /\ \A j \in 1..(i - 1) : nft[j].state # "unminted"}

MintEffect(x, used, i) ==
    Effect([allowance EXCEPT ![x.who] = Minus(@, used)], [nft EXCEPT ![i] = Open(x.for)], i, Zero)

MintEffects(x) == {MintEffect(x, used, i) : used \in Taken(x), i \in NextId}

Effects(x) ==
    CASE x.kind = "approve" -> ApproveEffects(x)
      [] x.kind = "decrease" -> DecreaseEffects(x)
      [] x.kind \in {"collect", "withdraw"} -> CollectEffects(x)
      [] x.kind = "burn" -> BurnEffects(x)
      [] x.kind \in {"mint", "remint"} -> MintEffects(x)

-----------------------------------------------------------------------------
(***************************************************************************)
(* The create-position page.  "Confirm" may be pressed at any time, during *)
(* a check, an approval or a mint too: it forgets what the page shows, not *)
(* what is under way.                                                      *)
(***************************************************************************)
\* validateUserInputs: finite amounts above zero.
Entered == Need

\* The calldata of a mint: its recipient and the amounts that it may take.
MintFor(n) == [owner |-> account, need |-> n]

Prepare(p) ==
    /\ moves < MaxMoves
    /\ moves' = moves + 1
    /\ preparing[p] = None
    /\ prepared' = [prepared EXCEPT ![p] = None]
    /\ checked' = [checked EXCEPT ![p] = "none"]
    /\ \E n \in Entered : preparing' = [preparing EXCEPT ![p] = MintFor(n)]
    /\ UNCHANGED <<account, chainVars, flow, sent, rows, historyVars>>

\* The pool was derived and the calldata built.
PrepareEnds(p) ==
    /\ preparing[p] # None
    /\ preparing' = [preparing EXCEPT ![p] = None]
    /\ prepared' = [prepared EXCEPT ![p] = preparing[p]]
    /\ UNCHANGED <<account, moves, chainVars, checked, flow, sent, rows, historyVars>>

\* An input, the chain, the ticks or the pool was refused, or the factory not reached.
PrepareFails(p) ==
    /\ preparing[p] # None
    /\ preparing' = [preparing EXCEPT ![p] = None]
    /\ UNCHANGED <<account, moves, chainVars, prepared, checked, flow, sent, rows, historyVars>>

\* What a mint needs, per token, and no more: the exact approval plan.
ExactPlan(p) == prepared[p].need

\* "Check approvals" is enabled while the page neither checks nor approves.
StartCheck(p) ==
    /\ prepared[p] # None
    /\ At(Approving(p), "idle")
    /\ flow' = [flow EXCEPT ![Approving(p)] =
                    [Idle EXCEPT !.at = "check", !.who = account, !.need = ExactPlan(p)]]
    /\ UNCHANGED <<account, moves, chainVars, pageVars, sent, rows, historyVars>>

\* The allowances are in, and go to whatever the page shows by now; or the read fails.
CheckEnds(p) ==
    LET f == Approving(p)
    IN  /\ At(f, "check")
        /\ Stop(f)
        /\ \/ checked' = [checked EXCEPT ![p] =
                IF Covers(allowance[flow[f].who], flow[f].need) THEN "covered" ELSE "missing"]
           \/ UNCHANGED checked
        /\ UNCHANGED <<account, moves, chainVars, prepared, preparing, sent, rows, historyVars>>

\* "Approve missing" is enabled after a check that found something missing.
StartApprove(p) ==
    LET f == Approving(p)
        n == prepared[p].need
    IN  /\ prepared[p] # None
        /\ checked[p] = "missing"
        /\ At(f, "idle")
        /\ flow' = [flow EXCEPT ![f] = [Idle EXCEPT !.at = "allowances", !.who = account, !.need = n]]
        /\ asked' = [asked EXCEPT ![account] =
                        [t \in Token |-> IF n[t] > @[t] THEN n[t] ELSE @[t]]]
        /\ UNCHANGED <<account, moves, chainVars, pageVars, sent, rows, lowered>>

\* The tokens of which the position manager may not take enough.
Below(f) == {t \in Token : allowance[flow[f].who][t] < flow[f].need[t]}

\* Mutant: an approval is sent although nothing is below.
ReadAllowancesAndApprove(p) ==
    LET f == Approving(p)
    IN  /\ At(f, "allowances")
        /\ flow' = [flow EXCEPT ![f].todo = Below(f), ![f].at = "approve"]
        /\ UNCHANGED <<account, moves, chainVars, pageVars, sent, rows, historyVars>>

\* ensureApprovals reads both allowances once; the tokens below are approved in turn.
ReadAllowances(p) ==
    LET f == Approving(p)
    IN  /\ At(f, "allowances")
        /\ flow' = [flow EXCEPT ![f].todo = Below(f), ![f].at = IF Below(f) = {} THEN "check" ELSE "approve"]
        /\ UNCHANGED <<account, moves, chainVars, pageVars, sent, rows, historyVars>>

\* The wallet is on another chain, or a read fails; nothing is sent.
RefuseApproval(p) ==
    LET f == Approving(p)
    IN  /\ At(f, "allowances")
        /\ Stop(f)
        /\ UNCHANGED <<account, moves, chainVars, pageVars, sent, rows, historyVars>>

(***************************************************************************)
(* The transaction that flow f is at, and the ways it may end.             *)
(***************************************************************************)
\* The first token that is still to be approved, WETH before USDC.
NextToken(f) == CHOOSE t \in flow[f].todo : \A u \in flow[f].todo : t <= u

Only(t, n) == [u \in Token |-> IF u = t THEN n ELSE 0]

\* Mutant: what is missing is approved on top of what is already there.
ApprovedOnTop(f) ==
    Only(NextToken(f), flow[f].need[NextToken(f)] + allowance[flow[f].who][NextToken(f)])

\* approve(spender, required): the amount that the mint needs, exactly.
ApprovedAmounts(f) == Only(NextToken(f), flow[f].need[NextToken(f)])

TxOf(f) ==
    [kind |-> flow[f].at, who |-> flow[f].who, for |-> flow[f].for, id |-> flow[f].id,
     amounts |-> IF flow[f].at = "approve" THEN ApprovedAmounts(f) ELSE flow[f].need,
     hash |-> <<f, sent[f] + 1>>]

Counts(f) ==
    /\ sent[f] < MaxSent[f[2]]
    /\ sent' = [sent EXCEPT ![f] = @ + 1]

\* An effect of x on tokens and positions, which may or may not be awaited.
Applies(x, e) ==
    /\ allowance' = e.allowance
    /\ nft' = e.nft
    /\ mined' = IF x.kind \in {"mint", "collect", "remint"}
                THEN mined \cup {[kind |-> x.kind, id |-> e.id, hash |-> x.hash]} ELSE mined
    /\ lowered' = [p \in Page |->
            LET f == Minting(p)
                own == x.hash = <<f, sent[f] + 1>>
            IN  lowered[p] \/ (/\ At(f, "mint") /\ flow[f].who = x.who /\ ~own
                               /\ ~Covers(e.allowance[x.who], allowance[x.who]))]

\* It is mined, and its receipt says success.
Lands(f, e) == Counts(f) /\ Applies(TxOf(f), e) /\ UNCHANGED late

\* The user rejects it or it reverts (gas, slippage, deadline, balance, allowance); or
\* the wait for its receipt fails or times out, and then it may still be mined later.
Fails(f) ==
    /\ \/ UNCHANGED <<late, sent>>
       \/ Cardinality(late) < MaxLate /\ late' = late \cup {TxOf(f)} /\ Counts(f)
    /\ UNCHANGED <<allowance, nft, mined, lowered>>

\* A token whose approval failed is left, the next one is tried; after the last one the
\* page checks again.
NextApproval(f) ==
    LET rest == flow[f].todo \ {NextToken(f)}
    IN  flow' = [flow EXCEPT ![f].todo = rest, ![f].at = IF rest = {} THEN "check" ELSE "approve"]

ApproveToken(p) ==
    LET f == Approving(p)
    IN  /\ At(f, "approve")
        /\ \/ \E e \in Effects(TxOf(f)) : Lands(f, e)
           \/ Fails(f)
        /\ NextApproval(f)
        /\ UNCHANGED <<account, moves, pageVars, rows, asked>>

(***************************************************************************)
(* Executing the mint.  The button is enabled once the newest check found  *)
(* everything covered, for whatever amounts and account that check was.    *)
(***************************************************************************)
StartMint(p) ==
    LET f == Minting(p)
    IN  /\ prepared[p] # None
        /\ checked[p] = "covered"
        /\ At(f, "idle")
        /\ flow' = [flow EXCEPT ![f] = [Idle EXCEPT !.at = "payer", !.wallet = account,
                                        !.for = prepared[p].owner, !.need = prepared[p].need]]
        /\ UNCHANGED <<account, moves, chainVars, pageVars, sent, rows, historyVars>>

\* Mutant: executeCreatePosition relies on the page's check.
TrustPageCheck(p) ==
    LET f == Minting(p)
    IN  /\ At(f, "payer")
        /\ flow' = [flow EXCEPT ![f].who = account, ![f].at = "mint"]
        /\ lowered' = [lowered EXCEPT ![p] = FALSE]
        /\ UNCHANGED <<account, moves, chainVars, pageVars, sent, rows, asked>>

\* The payer is the account that the wallet presents now, and its allowances are read
\* again; less than the mint needs, another chain or a failed read is an error.
ReadPayer(p) ==
    LET f == Minting(p)
    IN  /\ At(f, "payer")
        /\ \/ /\ Covers(allowance[account], flow[f].need)
              /\ flow' = [flow EXCEPT ![f].who = account, ![f].at = "mint"]
           \/ Stop(f)
        /\ lowered' = [lowered EXCEPT ![p] = FALSE]
        /\ UNCHANGED <<account, moves, chainVars, pageVars, sent, rows, asked>>

\* Mutant: the status of the receipt is not looked at.
MintAnyReceipt(p) ==
    LET f == Minting(p)
    IN  /\ At(f, "mint")
        /\ \/ \E e \in Effects(TxOf(f)) : Lands(f, e) /\ flow' = [flow EXCEPT ![f].at = "save", ![f].id = e.id]
           \/ Fails(f) /\ Goto(f, "save")
        /\ UNCHANGED <<account, moves, pageVars, rows, asked>>

\* The mint for the owner that was prepared; the new token id is in the receipt's logs.
Mint(p) ==
    LET f == Minting(p)
    IN  /\ At(f, "mint")
        /\ \/ \E e \in Effects(TxOf(f)) : Lands(f, e) /\ flow' = [flow EXCEPT ![f].at = "save", ![f].id = e.id]
           \/ Fails(f) /\ Stop(f)
        /\ UNCHANGED <<account, moves, pageVars, rows, asked>>

\* The body of a POST: the account at the click, and what the flow did last.
Row(f, type) == [type |-> type, wallet |-> flow[f].wallet, id |-> flow[f].id, tx |-> <<f, sent[f]>>]

\* A signed POST: the wallet signs for the account it presents, the API accepts only
\* the account in the body.
Posts(f, type) ==
    /\ account = flow[f].wallet
    /\ rows' = rows \cup {Row(f, type)}

\* POST /positions.
Save(p) ==
    LET f == Minting(p)
    IN  /\ At(f, "save")
        /\ \/ Posts(f, "Position") /\ Goto(f, "logCreated")
           \/ Stop(f) /\ UNCHANGED rows
        /\ UNCHANGED <<account, moves, chainVars, pageVars, sent, historyVars>>

\* The rows of the activity log, and the await at which each one is posted.
Logs == [logCreated |-> "Created", logCollect |-> "Collect", logRebalance |-> "Rebalance"]

\* POST /activity of a page or a card; that it failed is only shown.
Log(f) ==
    /\ flow[f].at \in DOMAIN Logs
    /\ Stop(f)
    /\ Posts(f, Logs[flow[f].at]) \/ UNCHANGED rows
    /\ UNCHANGED <<account, moves, chainVars, pageVars, sent, historyVars>>

-----------------------------------------------------------------------------
(***************************************************************************)
(* The rebalance card of a position: "Execute Collect" and "Confirm        *)
(* Rebalance" are enabled while it does neither; the preview that the      *)
(* second one wants is loaded at any time before.  The card's position may *)
(* be one that another tab has burned since.                               *)
(***************************************************************************)
StartCard(c, l) ==
    LET f == Carding(c)
    IN  /\ moves < MaxMoves
        /\ moves' = moves + 1
        /\ At(f, "idle")
        /\ \E i \in Nft :
            /\ nft[i].state # "unminted"
            /\ flow' = [flow EXCEPT ![f] = [Idle EXCEPT !.at = l, !.wallet = account, !.id = i]]
        /\ UNCHANGED <<account, chainVars, pageVars, sent, rows, historyVars>>

StartCollect(c) == StartCard(c, "owed")
StartRebalance(c) == StartCard(c, "liquidity")

\* The account that the wallet presents now acts, on the position as it is read now.
\* It must still be there, to collect there must be something to collect, and a rebalance
\* wants a pool.
ReadPosition(c) ==
    LET f == Carding(c)
        next == IF At(f, "owed") THEN "collect" ELSE "decrease"
    IN  /\ flow[f].at \in {"owed", "liquidity"}
        /\ \/ /\ nft[flow[f].id].state = "open"
              /\ At(f, "owed") => nft[flow[f].id].owed # Zero
              /\ flow' = [flow EXCEPT ![f].who = account, ![f].for = account, ![f].at = next]
           \/ Stop(f)
        /\ UNCHANGED <<account, moves, chainVars, pageVars, sent, rows, historyVars>>

\* The Collect event of a receipt names something.
PaidOut(e) == e.paid # Zero

\* What follows a transaction of a card that succeeded with effect e; after a withdrawal
\* that paid nothing, the end.
After(kind, e) ==
    CASE kind = "collect" -> {"logCollect"}
      [] kind = "decrease" -> {"withdraw"}
      [] kind = "withdraw" -> IF PaidOut(e) THEN {"burn"} ELSE {}
      [] kind = "burn" -> {"remint"}
      [] kind = "remint" -> {"logRebalance"}

\* What fails ends the whole.
CardTransaction(c) ==
    LET f == Carding(c)
    IN  /\ \/ \E e \in Effects(TxOf(f)) :
                /\ Lands(f, e)
                /\ IF After(flow[f].at, e) = {} THEN Stop(f)
                   ELSE \E l \in After(flow[f].at, e) : flow' = [flow EXCEPT ![f].at = l,
                            ![f].need = IF At(f, "withdraw") THEN e.paid ELSE @]
           \/ Fails(f) /\ Stop(f)
        /\ UNCHANGED <<account, moves, pageVars, rows, asked>>

\* collectFees.
Collect(c) == At(Carding(c), "collect") /\ CardTransaction(c)

\* Decrease, withdraw, burn and mint in turn: the second mint is for what the withdrawal
\* paid, and nothing approves it.
Rebalance(c) ==
    /\ flow[Carding(c)].at \in {"decrease", "withdraw", "burn", "remint"}
    /\ CardTransaction(c)

-----------------------------------------------------------------------------
(***************************************************************************)
(* The environment: the user, the tokens and the position manager.         *)
(***************************************************************************)
SwitchAccount ==
    /\ moves < MaxMoves
    /\ moves' = moves + 1
    /\ \E a \in Account \ {account} : account' = a
    /\ UNCHANGED <<chainVars, pageVars, flow, sent, rows, historyVars>>

\* A transaction that nobody waits for any more is mined, or dropped.
MineLate ==
    \E x \in late :
        /\ late' = late \ {x}
        /\ \/ \E e \in Effects(x) : Applies(x, e)
           \/ UNCHANGED <<allowance, nft, mined, lowered>>
        /\ UNCHANGED <<account, moves, pageVars, flow, sent, rows, asked>>

-----------------------------------------------------------------------------
PageNext(p) ==
    \/ Prepare(p) \/ PrepareEnds(p) \/ PrepareFails(p) \/ StartCheck(p) \/ CheckEnds(p)
    \/ StartApprove(p) \/ ReadAllowances(p) \/ RefuseApproval(p) \/ ApproveToken(p)
    \/ StartMint(p) \/ ReadPayer(p) \/ Mint(p) \/ Save(p)

CardNext(c) == StartCollect(c) \/ StartRebalance(c) \/ ReadPosition(c) \/ Collect(c) \/ Rebalance(c)

Next ==
    \/ \E p \in Page : PageNext(p)
    \/ \E c \in Card : CardNext(c)
    \/ \E f \in Flow : Log(f)
    \/ SwitchAccount \/ MineLate

Spec == Init /\ [][Next]_vars

-----------------------------------------------------------------------------
(***************************************************************************)
(* Properties.                                                             *)
(***************************************************************************)
Transactions == {"approve", "mint", "collect", "decrease", "withdraw", "burn", "remint"}

Location ==
    Transactions \cup {"idle", "check", "allowances", "payer", "save", "owed", "liquidity"} \cup DOMAIN Logs

Somebody == Account \cup {None}
Intent == [owner : Account, need : Need]

FlowType ==
    [at : Location, who : Somebody, wallet : Somebody, for : Somebody, need : Amounts,
     todo : SUBSET Token, id : Nft]

TxType ==
    [kind : Transactions, who : Account, for : Somebody, id : Nft, amounts : Amounts, hash : Flow \X Nat]

\* While a flow is at a transaction somebody sends it, a mint is for somebody, and an
\* approval is of some token; only an open position has an owner.
TypeOK ==
    /\ account \in Account
    /\ moves \in 0..MaxMoves
    /\ allowance \in [Account -> Amounts]
    /\ nft \in [Nft -> [owner : Somebody, state : {"unminted", "open", "burned"}, liquid : BOOLEAN, owed : Amounts]]
    /\ \A i \in Nft : nft[i].owner # None => nft[i].state = "open"
    /\ prepared \in [Page -> {None} \cup Intent]
    /\ preparing \in [Page -> {None} \cup Intent]
    /\ checked \in [Page -> {"none", "missing", "covered"}]
    /\ flow \in [Flow -> FlowType]
    /\ \A f \in Flow :
        /\ flow[f].at \in Transactions \cup {"check", "allowances"} => flow[f].who \in Account
        /\ flow[f].at \in (Transactions \ {"approve"}) \cup {"payer"} => flow[f].for \in Account
        /\ flow[f].at = "approve" => flow[f].todo # {}
    /\ sent \in [Flow -> Nat]
    /\ late \subseteq TxType
    /\ \A x \in late : x.kind \in {"mint", "remint"} => x.for \in Account
    /\ \A r \in rows : r.id \in Nft
    /\ lowered \in [Page -> BOOLEAN]
    /\ asked \in [Account -> Amounts]

\* Which transaction each type of row is about.
KindOf == [Position |-> "mint", Created |-> "mint", Collect |-> "collect", Rebalance |-> "remint"]

\* A row of the database is never about something that did not happen on the chain: its
\* hash is that of a successful transaction of its kind, on its own position, and when
\* it reports a rebalance the old position has been burned as well.
RecordsAreBacked ==
    \A r \in rows :
        /\ \E m \in mined : m.kind = KindOf[r.type] /\ m.hash = r.tx /\ (r.type # "Rebalance" => m.id = r.id)
        /\ r.type = "Rebalance" => nft[r.id].state = "burned"

\* A mint of the page that is under way can take what it names, unless another
\* transaction of the payer has lowered the allowance since the page read it: neither a
\* stale check, nor another account, nor a newer preparation gets the user to pay for a
\* mint that is bound to fail.
ShortMintsAreRaces ==
    \A p \in Page :
        LET m == flow[Minting(p)]
        IN  m.at = "mint" => Covers(allowance[m.who], m.need) \/ lowered[p]

\* Exact approvals only: the position manager may never take more of a token than the
\* largest amount for which that account pressed "Approve missing".
ApprovalsAreExact == \A a \in Account : Covers(asked[a], allowance[a])
=============================================================================
