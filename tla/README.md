# Coin Pool: a TLA+ model

Coin Pool manages Uniswap V3 liquidity positions for wallets it has no keys of. Its API
(`apps/api`, Express 4, Prisma, PostgreSQL) keeps the state: positions and snapshots read
from the chain, automation jobs that are executed through a transaction relayer, and the daily
distribution of profit with the claims on it. The web application (`apps/web`) shows it and
lets users sign their own transactions.

The API is one Node process, perhaps several, on one database. Nothing in it is parallel, but
every `await` gives way to other requests, timers and daemons; most state changes are sequences
of single SQL statements without a transaction around them; a statement may throw, the relayer's
answer may get lost, and the process may die between any two awaits. That is what the modules
here are about: **one action is the code from one await to the next**, and the interleavings,
lost answers, throwing statements and crashes between the actions are all explored. The web
application has the same problem on the other side of the wire: its handlers keep what they
captured at a click while the page, the wallet's account and the chain move on.

## 1. Inventory

| Part | State | Operations | Hard behaviour | What makes it correct |
|---|---|---|---|---|
| Job queue (`services/automation-queue.ts`) | `AutomationJob` rows: status, attempt, priority; `AutomationWorker` rows | enqueue, claim, mark running / succeeded / failed, retry failed | marks look at no previous status; the lease never expires | a job is executed by one worker, a bounded number of times; its last status is final |
| Executor (`services/automation-executor.ts`) | `AutomationExecution` and `AuditLogV2` rows | execute one job (by claim or by id), a wallet's batch | six to nine awaits per job, three of them writes that belong together; two entry paths | jobs, executions and audit rows agree with each other and with the transactions |
| Relayer client (`services/automation-tx-relayer.ts`) | none; the relayer and the chain have it | submit, confirm | abort timer against a late answer; confirmation timeout against a late block | what is recorded about a transaction is so |
| Claim route (`POST /profit/claim`) | `ProfitDistributionItem.status`, `ProfitClaimIdempotency` rows | claim with a hash, claim through the relayer | the row lock is gone before the payment; two tables without a transaction; retries with the same key | an item is paid once, by its holder; the answers say what the item says |
| Daily distribution (`services/daily-distribution-scheduler.ts`, `daily-profit-engine.ts`, trigger route) | `ProfitDistribution`, its items, `DailyDistributionTrigger` rows, `state.running` | tick, trigger, direct run | three callers race for one owner and day; retries; idempotency by key and by day | one distribution per owner and day, one trigger per day, honest verdicts, a scheduler that never locks itself out |
| Emergency pause (`automation-emergency-check.ts`, `routes/automation-settings.ts`) | `AutomationSetting`, `AutomationPolicy.enabled` | save settings, check | two upserts; NULL never conflicts; checked long before the submission | a target that stays paused does not pass the check (but for one race of two lookups); only one who may pause changes the pause |
| Daemon (`services/automation-daemon.ts`) | `inTick`, `state`, the timer, tick logs | start, stop, tick | stop and start while a tick runs; starvation by failing jobs | one tick at a time; every job is reached |
| Signature authentication (`auth/`) | nonces in memory or in Redis | issue, consume, clean up | GET then DEL in Redis | a nonce is consumed once |
| Operator permissions (`services/automation/operator-permissions.ts`, caches and store) | permission rows, two caches with 10 s and 5000 entries | read through, upsert, invalidate | an old read stored after an invalidation; fallback statements for an older schema | a revocation is seen after at most the time to live and the delay of a read |
| Wallet sync and snapshots (`services/indexer`, `snapshots`, `analytics-interfaces.ts`, `routes/sync.ts`) | positions, snapshots, a promise chain per wallet and chain | sync, save snapshot, refresh | partial failures of RPC; lock keys that do not exclude each other | refreshes of a wallet do not overlap, and none is lost; the overview shows what a sync did |
| Live reads (`services/positions-live.ts`, the read routes of `routes/positions.ts`) | a cache of pools, in memory or Redis; a cache of recommendations | enrich, save a batch, answer | two caches in a row; fallbacks for what cannot be read | answers have a bounded age; a batch of snapshots is whole |
| Strategy worker (`services/strategy`, `automation-autopilot.ts`) | the locals of an evaluation, pending snapshot writes | evaluate a wallet, enqueue and execute | policies read once, live states of different ages, fallback states | no job on a state that was not read; the cooldown |
| Strategy rules (range proposal, rebalance decision, risk engine, gas policy, revenue split) | none | pure functions of numbers | boundaries, rounding, decimals | the proposed range holds the tick, where the price shows it |
| Web application (`apps/web`: create-position page, rebalance card, Uniswap adapter) | React state, the closures of handlers | prepare, check, approve, mint, save; collect; decrease, collect, burn, mint | account switched, plan prepared again, receipts lost or late | records are of what happened; approvals are exact; no mint that is bound to fail |

Who calls whom: the daemon's tick, the routes that run a tick or execute jobs at once, and
the strategy worker all end in `executeAutomationJobById` (the *direct path*);
`executeAutomationQueueOnce` with its claim (the *lease path*) is exported and called by nobody.
The claim route and the executor share the relayer client. The tick, the trigger route and the
direct run share `createDailyProfitDistribution`.

`PROJECT.json` lists every part under `components`, and under `hazards` each line where one of
these behaviours bites, with the properties that watch it or the reason why none does.

## 2. Modules

| Module | Models | Checked by | Proofs |
|---|---|---|---|
| `AutomationExecutor` | queue, executor, relayer and chain | `MCAutomationExecutor` | `AutomationExecutorProofs` |
| `ProfitClaim` | the claim route, its key rows, relayer and chain | `MCProfitClaim` | `ProfitClaimProofs` |
| `PaymentLedger` | what the claim route promises about an item | as a property of `ProfitClaim` | refinement, in `ProfitClaimProofs` |
| `DailyDistribution` | tick, trigger, engine, direct run | `MCDailyDistribution` | `DailyDistributionProofs` |
| `EmergencyPause` | settings and policies that pause a wallet, `checkEmergencyPaused` | `MCEmergencyPause` | `AutomationDaemonProofs` |
| `AutomationDaemon` | daemon, worker-tick and execute routes; extends `EmergencyPause` | `MCAutomationDaemon` | `AutomationDaemonProofs` |
| `WalletAccess` | challenges, operator permissions and their caches, whom each route lets in | `MCWalletAccess` | `WalletAccessProofs` |
| `ChallengeLedger` | what the challenges promise | as a property of `WalletAccess` | refinement, in `WalletAccessProofs` |
| `WalletSync` | the sync of a wallet, its lock, its callers, the cached overview | `MCWalletSync` | `WalletSyncProofs` |
| `LiveReads` | live pool states, their cache, snapshot batches, the read routes | through `StrategyWorker` | `StrategyWorkerProofs` |
| `StrategyRules` | market state, range proposal, decision: pure operators | through `StrategyWorker` | `StrategyWorkerProofs` |
| `StrategyWorker` | the evaluation of a wallet; extends `LiveReads` and `StrategyRules` | `MCStrategyWorker` | `StrategyWorkerProofs` |
| `PositionFlow` | the web application's transactions, over tokens and position manager | `MCPositionFlow` | `PositionFlowProofs` |

### AutomationExecutor

`status` and `attempt` are columns of the job rows ("ABSENT" is a job that has no row yet); `execs` is
the `AutomationExecution` table in `startedAt` order; `audit` the `automation_execution_*` rows, those of
the catch clauses marked `unexpected`; `tx[e]` what happened to the transaction sent for execution `e`.
Each worker has the await it is at (`pc`), its job, its execution's id, the rest of its batch and the
outcome it is going to write (`plan`).

One job goes emergency -> create -> running -> evaluate -> submit -> confirm -> finish -> mark -> audit,
with the early returns of `executeSingleJob` as shorter ways through the same locations. Direct workers
come in by `SelectBatch`/`ExecuteById` and `ReadJob`, lease workers by `Claim`. `Throw` sends a worker
from any await in `ThrowAt` to the catch clause: `CatchMarkFailed` (or `CatchThrows` when that fails too)
marks the job, and `CatchReport` writes an audit row about the job's newest execution, whatever its
status and whoever made it, or fails to. `Crash` loses the worker. The history variable `remarked` has
the jobs whose worker threw when it had marked them already, which its catch clause then marks a second
time; `leased` in an execution row says that its worker had claimed the job. The emergency pause is one
Boolean that the environment toggles; gas, risk and net profit are one nondeterministic verdict; error
texts, costs and `lastError` are left out.

### ProfitClaim and PaymentLedger

All requests are of one authenticated wallet; `Mine` says which items are its own. A request has a body
(item, key or none, means of payment), the statement it is at, its `paidTxHash` variable and the answer
it got. A relayer payment is named by the request that made it; a hash given in the body is taken on its
word, as the code does, and may be nobody's transaction or another request's. `RefuseIncomplete`, the
early returns that leave a key STARTED, and FAILED keys that keep their status are modelled as the code
has them. `Die` is a throwing statement (Express 4 does not catch a rejected handler) or the end of the
process. `taker` and `rolledBack` are history variables: no guard reads them.

`PaymentLedger` is the abstract specification: an item is held by one request at a time, is given
back or settled by its holder, with the payment that the holder came with (`offer`), and stays settled; it
does not promise that two requests come with different ones. The refinement maps the holder to `taker` of an
EXECUTING item and the settlement to `paidTxHash` of a PAID one.

### DailyDistribution

A runner is one execution of `runDailyDistributionTick` or one trigger request. Both go through
the owners one by one (`at`): snapshot check, (tick only) the check of existing items, creation
with retries, audit row. `rows` are the distributions with the wallets of their items and the
runner that inserted them. The three counters of the code are kept as far as code reads them:
whether `processed` and `failed` are zero, and the wallets skipped for incomplete snapshots. Amounts are
left out, the snapshots' completeness is a nondeterministic answer, and the list of owners is
read once and does not change.

`InferableIndex` says whether `ON CONFLICT ("ownerWallet","distributionAt")` finds a unique index.
With the migration as it is in the repository it does not (see findings below), and nothing else
of the component can happen; the passing runs therefore assume the full unique index that the code and
`schema.prisma:359` intend, and one run shows what the shipped one does. A unique violation of
the trigger's INSERT is recognised as the code expects it (`code` 23505 or P2002).

### EmergencyPause and AutomationDaemon

`setting` and `globals` are the `AutomationSetting` rows of the positions and of the whole wallet:
the unique index never sees two NULLs as equal, so a save for the wallet adds a row, and a reader
with `LIMIT 1` gets any of them. `policy` is the newest `AutomationPolicy` row of a target in each
spelling of the wallet: the policies route stores the checksummed address, which no lookup of the
check matches. A save reads the setting, then the policy, is authorized, and upserts the two tables
in two statements; it may die after each. A check has up to three lookups. `sure` and
`missed` (of a check), `overtaken` and `word` are history: a check is sure while the settings block its
target from its beginning on, and has missed a row that its position got behind the first lookup.

`AutomationDaemon` adds the ticks and the requests that execute jobs. `inTick` and `running` are
the two variables of the service; a tick evaluates a managed wallet (which may enqueue and execute
at once), requeues failed jobs, lists wallets and goes through them. `ExecuteJob` stands for all of
`AutomationExecutor`'s way after the check; a wallet has one job here, batches and priorities are that
module's. A statement that throws while a job is checked or executed is caught for that job, which
fails, and the loop goes on (`JobThrows`), unless the catch clause's own update throws (`CatchThrows`, which
may leave the job as it was marked last, RUNNING included); one that throws elsewhere ends the tick
(`Throw`). `Crash` loses the memory of the process and the requests.

### WalletAccess and ChallengeLedger

Each signed route of the API is a record: whom it lets in, which grants an operator needs, and
whether it goes on to list or upsert permissions. `Begin` looks the challenge up and verifies the
signature, `Consume` is one step in the memory store and a GET followed by `DeleteChallenge` in
Redis. `Hit`, `Miss`, `ReadRow` and `SetActive` are the read through the active cache, whose
insertion order decides the eviction; `ReadList` and `SetList` are the cache of the owner's list.
A SELECT that fails is repeated for the older schema, which has fewer columns, and an upsert too.
`Tick` is the clock: no answer of the database takes longer than `ReadDelay`. What the routes do
once they have let a request in is the business of the other modules.

`ChallengeLedger` promises that a request passes with a nonce that was issued and that nobody had
used when it looked. A store that looks and uses at once gives more: a nonce passes once. The Redis
store gives just this, because two requests may both look before either deletes.

### WalletSync

`row` is `Position.syncStatus`, `indexed` the time of the read that each `OnchainPositionState`
holds. `ahead` and `tail` are the chain of promises of `withWalletChainLock`; a POST sync goes past
it. A sync lists, reads (with nothing, all, or some tokens, some of them faulty), upserts and marks
token by token, saves snapshots with retries and marks what they refused; `Throw` ends it at any await.
`overview` is the cached overview with what its load may have missed, which is history, as is
`crossed`, the syncs that overlapped a POST's. Expiry of the overview is the choice of a viewer to miss.

### LiveReads, StrategyRules and StrategyWorker

A call of `enrichPositionsWithLiveState` takes the time once (`began`), looks each pool up, reads it,
waits for decimals and stores it; what is read is the time of the read, or `Fallback`. The callers are
the snapshot job (`batch`: what the newest batch was to hold and what it holds), the routes that show
positions, the strategy route with its cache of recommendations (`advice`) and the strategy worker.

`StrategyRules` has the market state, the proposed range, its rounding to the tick spacing, the
net benefit and the decision in integers: bps, cents, minutes, and logarithms of prices in ticks.
A price is what the code displays, with 8 decimals: `Shows` says that they move a price of 0.00001 or more
by ten ticks at most, and leaves open what they make of a lower one, 0 included (at tick -180000 they move it
by some 2700 ticks).
`rebalanceToEqualWeight` is its comparison of the centre with the price, or with 1 without one.
The statistics of snapshots are inputs.

`StrategyWorker` evaluates a wallet: policies read once, live states of all positions in one call, then
one position after the other, at most one job each. `PriceOf` is `deriveCurrentPriceFromSnapshot`: the
pool's price, its inverse when the row has the tokens the other way round, or none. `Asked` composes the
rules with the two guards of the worker. `job` keeps what the properties say of a job under way.

### PositionFlow

A page has a prepared mint, an approval status and two flows (approve, mint), a card has one;
`flow` holds the await each is at and what its closure captured. A transaction is one step from
signature to receipt: it lands, reverts, is refused, or is left pending without an answer (`late`)
and may be mined later, when nobody waits. The account may be switched at any time. Tokens and position manager
are external: what an approval, a mint, decrease, collect and burn do to allowances and positions.
`rows` are the rows the API would have. `lowered`, `asked` and `mined` are history.


## 3. Runs

| Run | Bounds | Shows |
|---|---|---|
| `executor_direct` | 2 direct workers, 2 jobs, `MaxExec` 2, throwing audit inserts, crashes | jobs, executions and audit rows agree with the transactions |
| `executor_lease` | 2 lease workers, 2 jobs, `MaxExec` 2, 3 attempts, every statement may throw | the claim excludes, but for a throw after the mark; only a crash or a failing catch clause strands a job |
| `claim_route` | 3 requests, any may die, one key, 4 items (2 payable, 1 worthless, 1 foreign), means through the relayer, none, or a given hash: nobody's, or for the second item any request's | safety of the claim, the refinement, and what strands an item |
| `distribution_ticks` | 2 ticks, 1 trigger, direct runs, 2 owners, 2 attempts | safety of the distribution |
| `distribution_triggers` | 2 triggers sharing a key or a day, fairness | every trigger row is settled |
| `distribution_conflict_target` (violation) | the partial index | the finding below |
| `pause_settings` | 3 saves (the owner's of anything, operators' of the position), 1 check, 1 position | a pause holds but for the race it names, and only one who may changes it |
| `daemon_ticks` | 2 wallets of which a tick takes 1, 2 calls of `runTick`, 1 request of 3 kinds, 1 throw, crashes, fairness | one tick at a time, paused jobs fail but for the same race, every wallet is served |
| `access_routes` | 1 owner, 2 operators, 3 requests, 3 nonces, a cache of 1 entry, times to live 1, clock to 2, 1 fault, both stores | what the permission cache holds, how old a decision may be, the refinement of `ChallengeLedger` |
| `wallet_sync` | 1 token, 2 refreshes, 1 POST, 1 viewer, 3 attempts, clock to 1, fairness | refreshes exclude each other and all run; the overview |
| `strategy_worker` | 3 positions in 2 pools, a snapshot job of both pools or one, 1 viewer, an evaluation of 2 positions of one pool, one of them with its tokens reversed; any 2 at a time (`TwoAtATime`, `FewPositions`), times to live 1, clock to 2, ticks 50, 110 and -200000 (displayed as 0) for the range of 100 either way | ages of answers, whole batches, what becomes a job |
| `position_flow` | 1 page, 1 card, 2 accounts, amounts 1 and 2 of 2 tokens, 3 moves of the user, 1 late transaction, 3 positions | records, approvals and mints |

The exact values are in the `.cfg` files. Why the bounds are enough: every race in this code is between
two actors over one row, entry or allowance (two workers on a job, two requests on an item or a key, two
runners on an owner and day, a sync and a viewer on the overview, an upsert and a read on a permission,
two saves on a setting); the claim run has a third request because a rolled-back and a standing payment
need a third to collide with, the pause a third save because the second has to overtake the first after a
row exists, the access run a third request so that a revocation, a stale read and the use of what it left
are different requests. Two jobs make batches, priorities and the LIMITs matter; two executions are one
retry or one race. Two wallets with `MaxWallets` 1 are one behind the other. The readers of the pool
cache race in pairs, and more of them one after the other; the snapshot job has one pool that can be read
beside one that cannot. A cache of one entry for two operators evicts. A time to live of 1 under a clock
to 2 lets an entry be fresh, expire, and be older than one cache allows. The second owner of the
distribution is a beneficiary of the first.

Bounds on counters: `MaxExec` stops `CreateExecution` when the table is full; `MaxTime` stops the clocks;
`TwoAtATime` (two calls at a time; alone are a call that wants both pools, and an evaluation that has its live
states and reads nothing of the others any more) and `FewPositions` (batches of
the first position, or of the first and the one of the other pool; recommendations for the first) are
constraints on `strategy_worker`;
`MaxThrows` and `MaxFaults` cap failures, `MaxMoves`, `MaxSent`, `MaxLate` and `MaxNfts` what the
user and the chain do. `CHECK_DEADLOCK FALSE` in the claim, distribution and newer runs: requests
and runners end, a clock stops, and a system whose requests have all been answered stops.

Symmetry (workers, requests, ticks, saves, accounts) is used in safety runs only, over model values that no
definition distinguishes; the liveness runs have none. The two executor runs have a VIEW each, which
leaves out variables that no guard of the module reads, and no property of the run but the type invariant:
the histories in `executor_direct`, the audit log and the worker rows in `executor_lease`.

**Fairness.** Weak fairness of a handler's own steps, never of the environment, of crashes or of
arrivals: a statement is answered or throws, the relayer call ends by its abort timer, the
confirmation by its timeout, so no await lasts for ever. `distribution_triggers` has it for the
triggers and `TriggerSettles` excepts dead requests. `wallet_sync` has it for each refresh.
`daemon_ticks` has it for the steps of a tick, and for its beginning as long as the
daemon runs, which is what `setInterval` gives; `Start` after a crash is not fair, so
`EveryWalletServed` speaks of behaviours in which the daemon is running for good.

### Properties

*Executor.* `SucceededIsBacked`: a SUCCEEDED job has an execution that ended in success.
`ExecutionTellsTruth`: a recorded hash was sent, TX_CONFIRMED is mined, a refused or "not submitted"
execution sent nothing. `AuditMatchesExecution`: every audit row names an execution of its own job, and
the rows of `executeSingleJob` tell its status, also when two workers execute one job; only the catch
clause's `unexpected_exception` row may say FAILED of one that succeeded or is another worker's.
`QuietSuccessIsFinal`: a succeeded job that no worker holds stays so and is not taken again.
`OnlyCrashStrandsAJob`: a job hangs in LEASED or RUNNING only after a crash or a throwing catch clause.
On the lease path only: `LeaseIsExclusive`, no two workers hold a job that both have still to mark,
unless its audit insert threw after the mark: then the catch clause marks the job again, whoever has it
by now.

*Claim.* `PaidIsBacked`: a PAID item names the payment of its last taker, a request about it: a relayer
payment that was taken up (mined, when confirmation was asked for), or the hash the body gave, of which
nothing more is known. `AnswerMatchesItem`, `KeyMatchesItem` (two tables, no transaction),
`OneStandingPayment` (a second payment starts only after the first claim was rolled back),
`ImplementsLedger`, `OnlyDeathStrandsAnItem` (an item stays EXECUTING without a request at work only
after a death, or a body without means of payment).

*Distribution.* `OneDistributionPerDay`, `RunningIsExact` (the scheduler's flag is true exactly
while one tick is in its loop, whatever throws), `VerdictIsHonest` (after COMPLETED_SUCCESS every
owner was served or skipped for its snapshots), `TriggerSettles`.

*Pause and daemon.* `PauseHolds`: no check passes if the settings blocked its target from its first
lookup to its verdict, whatever the policies say meanwhile, but for one race: the wallet is paused as a
whole and the position has no row; the first lookup finds none; one save gives the position a row that
pauses it, another resumes the wallet; the second lookup finds the wallet active. `PauseNeedsPermission`:
an operator without canPause leaves the effective pause as it is, unless another request wrote between
its read and its upsert. `OneTickAtATime`: `inTick` is set exactly while one tick is at work, through
stops, starts and exceptions. `PausedJobsFail`: a job whose target is paused throughout its check is not
executed, but for that race. `EveryWalletServed`: a wallet that is not crowded out by others before it
has its queued job executed.

*Access.* `CacheFollowsTable`: what the cache holds is the table's, or what a failing SELECT made of
it, unless its SELECT overlapped an upsert or one is about to invalidate it. `DecisionIsRecent`: an
operator is let in only if the table gave what the route needs at most `CacheTtl + ReadDelay` ago.
`RefinesLedger`.

*Sync.* `IndexedNeverGoesBack`: an indexed state is overwritten with an older read only by a sync
that overlapped a POST's. `OverviewShowsSync`: a cached overview from before the end of a POST sync
was being loaded when that sync dropped the cache. `EveryRefreshRuns`, whatever becomes of the ones ahead.

*Live reads and strategy.* `AnswersAreRecent`: the ages of the two caches add up, and nothing else is
added. `BatchIsWhole`: a batch holds every position it was to hold, or is not there; one pool that cannot
be read keeps the others' positions out. `FallbackNeverTraded`: no job rests on a pool that could not be
read, although the worker never looks. `CooldownHolds`: during the cooldown a rebalance is asked for only
when the range is left severely. `ProposalHoldsTick`: the range proposed with a rebalance holds the
current tick, if the row has its tokens in the pool's order, both tokens have the same number of decimals
and the price is at least 0.00001. Elsewhere the code takes the tick of another price than the pool's.

*Web application.* `RecordsAreBacked`: a row names a successful transaction of its kind and position,
and a rebalance burned the old position. `ShortMintsAreRaces`: a mint under way can take what it
names, unless another transaction of the payer lowered the allowance since the page read it.
`ApprovalsAreExact`: an allowance is never above the largest amount for which the account pressed
"Approve missing".

### Finding

The conflict target of the distribution INSERT matches no index that PostgreSQL infers: the
migration's index is partial (`daily-profit-engine.ts:137`), against
`docs/daily-distribution-trigger-p0-p1-implementation.md:127`.

### Other disagreements met while modelling

These are in the models as the code has them, and in the hazards; no run is spent on them.

- A job is executed twice on the direct path, since nothing claims it (`automation-executor.ts:483`),
  and `attempt` is counted on the lease path only, so that a failing job never becomes DEAD_LETTER
  (`automation-queue.ts:168`); `docs/coinpool-production-readiness-audit.md:75` counts on both.
- A claim whose confirmation timed out is paid again with the same idempotency key
  (`profit.ts:733`), against `docs/e2e-automation-runtime-checklist-ja.md:7`.
- The tick takes an item in somebody else's distribution for the owner's own
  (`daily-distribution-scheduler.ts:278`), against line 3 of that file.
- Two requests with one signature can both pass under Redis (`challenge-store.redis.ts:89`),
  against `README.md:297`; hence the weak promise of `ChallengeLedger`.
- A global pause can be overlooked behind an older row of the wallet
  (`automation-settings.ts:214`), against `automation-emergency-check.ts:16`; and the policies
  route never pauses anything, because it spells the wallet otherwise (`automation.ts:283`).

Promised nowhere, and so not disagreements: a `paidTxHash` in a claim's body is stored unverified and may
be another item's (`profit.ts:694`); the audit log may say "failed" of an execution that succeeded
(`automation-executor.ts:496`); a range for a row with reversed tokens is proposed around the inverse
price, and 8 decimals move a low price by thousands of ticks (`positions-live.ts:537`, `:583`); a
trigger's row becomes FAILED after it was completed when the audit row throws; a repeated key is answered
with another day's result (`profit.ts:333`), and an early return leaves its key STARTED
(`profit.ts:622`); a direct run before the day's snapshots creates a distribution without items
(`profit.ts:460`); a recommendation made from a fallback is cached like any other; a rebalance that stops
after the burn is not resumed, and its new position gets no row.

## 4. Proofs

TLC checks the instances above; TLAPS proves the following for all values of the constants that
satisfy the modules' ASSUMEs.

**`AutomationExecutorProofs`.** The invariant `IInv` adds four facts to the checked ones: a worker
past the loop head has a job (`Held`), the execution it writes is its own, of its job and of
nobody else (`Owned`), what it plans to record already is true of the transaction (`Decided`), and
the executions still to come have no transaction (`Fresh`). Without them `ExecutionTellsTruth` is
not inductive: `FinishExecution` copies the plan into the row. From `IInv` follow `TypeOK`,
`SucceededIsBacked`, `ExecutionTellsTruth`, `AuditMatchesExecution`, and the
action property `FinishedExecutionIsFinal`; `OnlyCrashStrandsAJob` is inductive on top of `IInv`.
`LeaseAttempts` (at most `maxAttempts` executions through claims) needs no assumption: it counts the
executions that a claim led to against `attempt`, which nothing lowers. The other two lease theorems
(`LeaseIsExclusive`, final statuses) assume `LeasePathOnly`, no direct worker, because a direct worker claims
nothing. Any statement may throw; when it is the audit insert after the mark, the catch clause marks the job
again, a SUCCEEDED one or one that another worker has claimed since. Both theorems except exactly those
jobs, which `remarked` names. `QuietSuccessFinal` holds on both paths: a SUCCEEDED row changes
only by a worker that already has the job, and no statement that looks for one takes a SUCCEEDED row
(the direct path's second read answers from it).

**`ProfitClaimProofs`.** The invariant adds what a request knows at each await: between the lock
and the end of the payment the item is EXECUTING and its own (`Owns`), the hash it will write is
its own payment's or the body's (`Pays`), its key row is about its item (`KeyIsOurs`), a payment not rolled back
still has its item (`StandingOwns`). From it follow all safety properties of `claim_route`, that at
most one request holds an item, and `ClaimImplementsLedger`: initial states map to initial states,
and every step to a ledger step or a stutter. `ClaimPaidFinal` is what a client relies on: a PAID item
keeps its status and its payment, because `Release` and `Pay` are only reached by the holder of an
EXECUTING item. The key row promises less: a late `FailKey` of a second request with a FAILED key may
overwrite SUCCEEDED.

**`DailyDistributionProofs`.** The invariant adds that a trigger at work has a row (`HasRow`, without
which `EndTrigger` could give a day a second row), what the loop has done so far (`SoFar`), that a
runner enters the loop with fresh counters (`Fresh`), and that only triggers come to the audit row
of the end (`TickPlace`). `VerdictIsHonest` needs all of `SoFar`: the verdict is computed from two
counters, and the distributions it speaks of were created many awaits before, by this request or by
another. From it follow all safety properties of the two passing runs and that a day has one trigger,
for any list of owners, any failing statements and crashes. The safety half of `TriggerSettles` is
proved as well: a PENDING row is in the hands of its request or that request died
(`DistributionPendingIsWorkedOn`), and a verdict changes only to FAILED, in the route's own catch
clause, when the audit row after it throws (`DistributionVerdictFinal`).

**`AutomationDaemonProofs`.** About the pause: what a check that is still sure knows of the rows it has
passed (`ChecksKnow`: unless it has missed a row it cannot have come to the policies, and past the first
lookup its target has no row of its own), and what a save that nobody has overtaken knows of the value it
read (`SavesKnow`). The history variables speak about rows; the invariant connects them with the place of
a caller, which is what `PauseHolds` and `PauseNeedsPermission` lack. The daemon's invariant is the type
invariant with `OneTickAtATime`, and the pause's invariant is kept by the composition, so that
`DaemonPauseHolds` is proved of the composed specification too; `PausedJobsFail` follows from it, and
through exceptions because a check that is sure and has missed nothing has not passed, so that nothing
but FAILED can have been marked.

**`WalletAccessProofs`.** `GotInv`: what a SELECT returned was in the table when it was asked and is
there still unless an upsert marked the request; `EntryInv`: an entry expires no later than `CacheTtl +
ReadDelay` after the table last gave what it says; `LastInv` ties the history to the clock.
`DecisionIsRecent` is the sum of these. The refinement maps a request between GET and DEL to a claim
in the ledger; its invariant is that a live challenge was issued and is unused. `MemoryStoreUsesOnce`
is a consequence: with the memory store nobody ever has a claim, and a step of the ledger without claims uses
an unused nonce, so that a nonce is used once. With Redis two requests may both be between GET and
DEL, and the theorem stops at the ledger. `TypeCorrect` is the whole type invariant. Its deep part is
`KeysInv`: the keys in the order of insertion are those of the entries, each once and at most
`MaxEntries`, through sets, deletes of expired and invalidated keys, evictions and restarts.

**`WalletSyncProofs`.** `LockInv` describes the chain of promises as a queue: at most one refresh at the
head, the callers behind it wait for different ones, and the last one is the map's. `CrossInv`: two syncs
at once are both marked. `ReadInv`: what an unmarked sync has read is not older than what is indexed.
`ChainInv` says that the relation "waits for" has no circle, as: every non-empty set of waiting refreshes
has one that waits for none of them. Each addition to the chain keeps it, since the newcomer waits for
others only, and `ChainNeverStuck`, the safety half of `EveryRefreshRuns`, follows: somebody can always
go on. `OneRefreshSyncs` is the lock's exclusion, and `OverviewShowsSync` is inductive.

**`StrategyWorkerProofs`.** `LiveInv` bounds the ages of everything in flight: a stored pool expires at
most the time to live after its read, because the time was taken before the read; a recommendation in the
sum of both. `AskedIsSound` opens the rules: without liquidity nothing is known, the net benefit is
negative and the compound guard fails; and of the ways to `shouldRebalance` only the severe one is open
during the cooldown. `ProposalAlwaysHolds` goes through the arithmetic, which has products, floors and
roundings, in lemmas of one operator each: `FloorBelow` and `CeilAbove` (a bound moves outwards, and a
clamp never moves it past a tick of a pool), `WidthOK` (3.6% at least in a trend), `HalfTicksOK` (50
ticks at least, 180 for such a width), `PriceShown` (the displayed price is within ten ticks of the
pool's), so that a bias of 121 ticks and the decimals together stay below half of the width. It rests on
what `WorkerAssumption` says of the inputs: a pool's tick is at least `MinTick` and below `MaxTick`, as
Uniswap keeps it, a displayed price from 0.00001 on is within ten ticks of it, and the statistics of a
sample are numbers, none negative but trend and drift.

**`PositionFlowProofs`.** `Backed`: a handler that is about to post has the mined transaction its row will name;
`Asked`: what a flow approves, or has pending, is no more than was asked for; `Newest`: a pending transaction
is no newer than the last its flow counts, without which a hash could be used twice.
The least token to approve exists by well-founded induction on the naturals.

**Only model-checked:** the liveness properties `TriggerSettles`, `EveryWalletServed` and
`EveryRefreshRuns` (fairness and ENABLED are out of the prover's reach; the safety halves of the first
and the third are theorems), and the violation, which is a counterexample. Every invariant and every
action property of the passing runs is a theorem. No definition is recursive.

## 5. Plan

Done: all modules of the table in section 2, with their runs and proofs.

Left, in this order:

1. the daily profit reads and histories of `routes/positions.ts`, and the metrics of `routes/automation.ts`,
   which aggregate rows that other modules write;
2. a safety half of `EveryWalletServed`;
3. the timer of the daily distribution, beside the daemon's.

## 6. Not modelled

- **Pending snapshot writes** (`services/strategy/stores.ts`): the functions that drain the queue
  are exported and have no caller, so nothing happens to what is pending.
- **The rest of the web application**: the automation, activity and my-positions pages show what the
  API answers and post single requests; their effects are the routes of `WalletAccess`.
- **Effects of state-changing routes** in `WalletAccess`: there only the authorization is modelled.
  That `POST /admin/strategies` accepts any wallet that signs (`strategies.ts:121`) is visible in
  the code and not an interaction.
- **Reads**: `positions.ts` 86-193 and 487-548, metrics, preflight and configuration of
  `automation.ts` 564-832, queries of the log, market and audit routes. Single upserts
  (notification settings, templates), logging, counters, schemas.
- **Arithmetic**: market statistics and pair classification (`market-math.ts`,
  `pair-classifier.ts`) are inputs of the rules; risk engine, gas policy, revenue split and the
  estimates of the analytics are floating-point numbers, nondeterministic verdicts where a decision
  rests on them.
- **Details seen and left out**: a CLOSED position whose tick is in range is shown IN_RANGE
  (`positions.ts:862`); a fallback state is saved as a sample of the market; the Redis cache
  passes a time to live that may round to 0 (`redis-pool-snapshot-cache.ts:40`);
  the activity log of `POST /positions` follows the row in a statement of its own;
  `OnchainPositionState` is keyed by the position without the chain
  (`wallet-position-sync.ts:96`), while the model has one chain.
- **Generated code, migrations** (except the unique indexes the modules rely on), configuration, start-up.

What the prover cannot do: liveness under fairness, ENABLED, induction over data and recursive
operators stay with TLC or, as here, are not needed.
