# A TLA+ verification of the BPS protocol

This directory models the parts of the repository that move or decide about
value, and the procedures around them that must survive interleavings, reloads
and unreliable endpoints. `PROJECT.json` lists, for every definition, the source
lines it stands for; this file explains the whole.

## 1. The system

BPS is a token whose official trades pay two budgets: one buys BPS back and burns
it, the other is WETH that is turned into tokenized stock, of which 80 percent is
distributed to BPS holders by Merkle claims.

```
 trader --> BPSTradeRouter --(2% WETH)--> StockAcquisitionVault --(acquire)--> RialtoStockAcquisitionAdapter --> Rialto router
               |  ^                          | 20%        ^ | 80%
   UniswapV3BPSSwapAdapter                 reserve        | v
               |                            DistributionFundingCoordinator --(publish and fund)--> DistributionClaimManager --> claimants
             pool                                                                                    |  (after deadline) --> recovery
 holder --> BPSLockingVault --(events, weights)--> lock snapshot / Proof of Distribution --(root)--> coordinator's root publisher
 controller --> GuardedSettlementExecutor --(check)--> ChainlinkSettlementPriceGuard --> feeds
 browser: dashboard (eligibility, panels, wallet lifecycle, transparency), canary operator page
 command line: quote client, price guard and evaluator, canary preflight (packages/rialto)
               capture, collect prices, generate, verify, preflight --(files)--> operator page
               recovery capture, recovery generate ----------------(files)--> recovery page
```

### Components, state, operations

| Component | State | Operations | What makes it correct |
|---|---|---|---|
| `DistributionClaimManager` | cycles, funding and claimed amounts per asset, claimed flags, total outstanding | `publishCycle`, `claim`, `claimBatch`, `recoverExpired` | solvent; each leaf paid at most once; nobody whose root is covered is starved; recovery is final; nothing stays for ever |
| `StockAcquisitionVault` | WETH and stock custody, acquired, allocated, released | `executeAcquisition`, `releaseToDistributionCoordinator` | unreleased distribution stock is in custody; the split accounts for every unit; WETH accounted |
| `RialtoStockAcquisitionAdapter` | nothing of its own (its balances) | `acquireStock` | forwards everything, keeps nothing, only the registry's current router |
| `DistributionFundingCoordinator` | acquisition records, used cycles | `executeAndRecordAcquisition`, `fundRecordedAcquisition` | one cycle per acquisition; what is recorded stays fundable; implements `DistributionPromise` |
| `BPSLockingVault` | positions, counts, principal, emergency exit | `createLock`, `withdraw`, `enableEmergencyExit`, ownership | covers its locks; principal returned once; past weights never change; matured locks return |
| `BPSTradeRouter`, `UniswapV3BPSSwapAdapter`, `BPSToken` | balances, supply, counters, pause, owner | buy, sell, pause, unpause, ownership, burn | no residue; burns and budgets accounted and delivered |
| `GuardedSettlementExecutor`, `ChainlinkSettlementPriceGuard` | policy, pause, digests and nonces, allowance | setters, pause, unpause, ownership, `recover`, `executeSettlement`; `check` | settled once; spending bounded; reviewed code and live feeds only; never below fair value |
| Lock snapshot (`apps/indexer`) | scan cursor, records, weights | one RPC request after another | a snapshot is the state of the pinned block |
| Proof of Distribution (`packages/shared`) | the stages' results | canonicalize, weigh, filter, allocate, publish | weights are the integral; entitlements are fair floor shares |
| Wallet lifecycle (`apps/web`) | steps of each lifecycle, the panels' memory | approve, send, wait, reconcile; four buttons | success means the action took effect |
| Canary operator (`canary-packet/exec/operator`) | durable journal, pending, intent, halt; page memory; buttons | reload, connect, reconcile, pre-check, confirm, send, verify, resolve | no blind retry; steps in packet order |
| Dashboard (`apps/web/app/AppDashboard.tsx`, `lib/eligibility.ts`, `lib/claim.ts`, claim validation) | account and network as rendered, verdict, eligibility, panels, each effect and callback at its awaits | sign, derive, lock panel's effect, verify claim | the panel settles on the connected account; a verified claim was payable; eligibility belongs to who signed |
| Transparency panel (`transparency-reads.ts`, `transparency.ts`, `acquisition-reconcile.ts`) | the scan's window and logs, the report, the reconciliation's reads | fetch in windows, aggregate, reconcile | a report is the state of the safe head; a confirmed row was linked |
| Rialto client (`packages/rialto`) | quote, observations, prices, policy, replay store | request and validate a quote, check prices, evaluate, consume | a plan's router was recently active; its minimum lies in the guards' band; the contract is the stricter |
| Canary preflight (`canary-preflight.ts`) | the checks' results | fifteen checks, report | the report is exact when the chain stands still |
| Packet tools (`canary-packet/exec/*.mjs`) | the files, each tool's progress | capture, collect, generate on a fork, verify, preflight | files that bind come from one rehearsal; exposure and price age stay within limits |
| Recovery tools (`recovery-capture.mjs`, `recovery-generate.mjs`, `recovery-canonical.mjs`) | search bounds, anchors, the recovery's files | binary search by nonce, pin, generate, bind | anchors are where the transactions are; ceilings stay under the cap |
| Deployment scripts, artifacts, health and placeholders | see section 8 | | not modelled |

### What is hard here

* *Composition*: all acquisitions of one stock share a pot in the vault and a
  balance in the claim manager, and are funded, claimed and recovered in any order.
* *External code that may do anything*: the swap venue, the Rialto router, stock
  tokens that charge a fee. The contracts defend themselves by measuring balances;
  the question is whether the measurements suffice over many calls.
* *Boundaries*: deadlines, the emergency exit and its effect on weights of the
  past, floors and ceilings of percentages.
* *Stale data*: quotes against a registry that rotates, feeds that stop, two RPC
  endpoints on different branches.
* *Several reads, one verdict*: the preflight, the price check, the claim validation,
  the reconciliation and the recovery's search combine reads of a moving chain.
* *Files as memory*: the canary's tools share files, run in any order, may be killed
  between two writes, and never ask which run wrote what they read.
* *The browser*: effects and callbacks that keep the account they began with; a page reloaded between a durable write and a broadcast, writes
  that do not round-trip, handlers that overlap at their awaits, transactions that
  are repriced, cancelled or replaced.

The full list, with the line where each one bites and the properties aimed at it,
is under `hazards` in `PROJECT.json`.

## 2. The modules

| Module | Models | Uses |
|---|---|---|
| `Chain` | block time (`now`, `Tick`), exact and fee-taking token transfers | |
| `Ownable` | OpenZeppelin `Ownable2Step` (external) | |
| `ClaimManager` | `DistributionClaimManager.sol` | `Chain` |
| `AcquisitionVault` | `StockAcquisitionVault.sol` | `Chain` |
| `RialtoAdapter` | `RialtoStockAcquisitionAdapter.sol`, registry and router | `AcquisitionVault` |
| `FundingCoordinator` | `DistributionFundingCoordinator.sol` and the composition of the four contracts | `RialtoAdapter`, `ClaimManager` |
| `DistributionPromise` | the abstract specification of the composition | |
| `LockingVault` | `BPSLockingVault.sol` | `Chain`, `Ownable` |
| `TradeRouter` | `BPSTradeRouter.sol`, `UniswapV3BPSSwapAdapter.sol`, `BPSToken.sol` | `Chain`, `Ownable` |
| `PriceGuard`, `SettlementExecutor` | `ChainlinkSettlementPriceGuard.sol`, `GuardedSettlementExecutor.sol` | `Chain`, `Ownable` |
| `LockSnapshot` | `apps/indexer/src/lock-snapshot` | |
| `ProofOfDistribution` | `packages/shared/src/proof-of-distribution` | |
| `WalletTx` | `apps/web/lib/wallet/tx.ts` and the dashboard's buttons | |
| `Dashboard` | the dashboard's account, eligibility, lock panel and claim verification | |
| `Transparency` | the transparency panel: scan, aggregation, reconciliation | |
| `RialtoClient` | `packages/rialto`: quote client, structural checks, price guard, evaluator, replay store | `PriceGuard` |
| `CanaryPreflight` | `canary-preflight.ts` and its command line | `RialtoClient` |
| `CanaryOperator` | `operator-core.mjs`, `recovery-core.mjs`, `app.js` | |
| `CanaryPacket` | capture, price collection, generator, verifier, preflight, and the page's binding | |
| `CanaryRecovery` | the recovery's capture, generator and binding | `CanaryPacket` |
| `MCFundingCoordinator`, `MCLockingVault`, `MCTradeRouter`, `MCSettlementExecutor` | small instances for TLC | the module named |
| `MCClaimManager` | the claim manager and the acquisition vault, each alone | both |
| `MCProofOfDistribution` | the weights pipeline and the lock snapshot, each alone | both |
| `MCRialto` | the client and the preflight, each alone with a moving world | `CanaryPreflight` |
| `MCWeb` | transactions, account, transparency, each alone | `WalletTx`, `Dashboard`, `Transparency` |
| `MCCanary` | operator page, packet tools, recovery tools, each alone | `CanaryOperator`, `CanaryRecovery` |
| `Sums_proofs` | lemmas about finite sums, no model | |
| `TradeRouter_proofs` | theorems of the trade router, see section 6 | `TradeRouter`, `Sums_proofs` |
| `LockingVault_proofs` | theorems of the locking vault and of the snapshot of its locks | `LockingVault`, `LockSnapshot`, `Sums_proofs` |
| `SettlementExecutor_proofs` | theorems of the executor, of the off-chain client and of the preflight | `SettlementExecutor`, `CanaryPreflight`, `Sums_proofs` |
| `FundingCoordinator_proofs` | theorems of the manager, the vault, the composition and the refinement | `FundingCoordinator`, `Sums_proofs` |
| `ProofOfDistribution_proofs` | theorems of the weights pipeline | `ProofOfDistribution`, `Sums_proofs` |
| `Canary_proofs` | theorems of the operator page, of the packet tools and of the recovery tools | `CanaryOperator`, `CanaryRecovery` |
| `Web_proofs` | theorems of the dashboard, the transactions, the reconciliation and the report | `Dashboard`, `WalletTx`, `Transparency`, `Sums_proofs` |

The five modules `MCClaimManager` to `MCCanary` put parts side by side that share no state: a variable (`part`, `side`)
picks one in the initial state and the others stand still. Where parts do interact
the composition is a module of its own (`FundingCoordinator`) or one extends the
other (`CanaryPreflight`, `CanaryRecovery`).

Conventions.

* A contract call is one action: Solidity transactions are atomic and every entry
  point of these contracts is `nonReentrant`. A revert is a disabled action. The
  guard is the code's sequence of `revert`s; a transfer that must credit an exact
  amount appears in the guard as the measured equality.
* Off-chain code is cut at its `await`s: what runs between two of them is one
  action, and everything it read before an `await` is kept in its own state.
* A Merkle root is the set of its leaves; a digest is the record it covers; calldata
  is its selector and whether it is bound to the intent. Hash collisions and
  encodings are therefore out of the models.
* Stock tokens may take a fee (`Fees`), may credit something else than was sent, and
  may be sent to any contract unasked. WETH and BPS are plain ERC-20s, which is what
  the deployed tokens are: in `TradeRouter` and in `LockingVault`'s withdrawals they
  move exactly.
* An operator whose name ends in `_Defect...` is a faulty variant of the one that
  follows it: the bug a slip in that code would make. Nothing uses it. Putting it in
  place of the operator breaks the property listed for it under `mutants`, which
  shows that the property depends on that piece of code.

Correspondence, module by module, of the less obvious parts:

* `ClaimManager`: `cycles`, `assetFunding`, `claimed`, `totalOutstanding` are the
  contract's mappings, `mgrStock` is `balanceOf(manager)`. `paid` is the sum of the
  `Claimed` events, a history variable. `PublishCycle` takes the two arrays as one
  sequence of entries, with what the token really credited.
* `AcquisitionVault`: the result of the adapter call is a record of balance changes
  (`AdapterEffect`), arbitrary when the vault runs alone, and computed by `RialtoAdapter`
  in the composition. The vault's own checks are `AcquisitionVerified` and
  `ReserveDelivered`.
* `FundingCoordinator`: the roles are accounts (`acquisitionOperator`,
  `rootPublisher`); the coordinator's checks of the vault's counters
  (`DeltasVerified`) and of balances (`ReleaseAndFundExact`) are kept although the
  vault and the manager check the same, since each contract is meant to hold on its
  own.
* `LockingVault`: `PositionWeightAt(w, id, t)` is the view. `returned` is the sum of
  `LockWithdrawn` amounts.
* `TradeRouter`: balances go through a trade's transfers one by one as a value; a
  set of results is what the rest of the call may find, and an empty set is a revert.
  The venue may pull one unit less than approved, deliver any amount of a set, send a
  unit to the adapter, and report any amount.
* `SettlementExecutor`: `settled` is the sequence of `SettlementExecuted` events with
  what the feeds said then; `RouterPulls` lets a router use an allowance later.
* `LockSnapshot`: two endpoints, each on a branch and at a height; every read is a
  request to one of them.
* `ProofOfDistribution`: the state is the stage reached and its result; `fixture` is
  the input. `Canonical` is the set of orders the sort may leave, and the order check
  follows it. The weights are accumulated interval by interval as in
  `computeWeights`; the property recomputes them second by second, from the logs as a
  set. `eligible` holds the indices of the rows.
* `Dashboard`: `account` and `rightChain` are what was last rendered. Every effect and
  callback is a record that keeps the account of its closure; `Cancelled` is the
  effect's cleanup (`live = false`). `signers` and `verification.payable` are history.
* `Transparency`: a block holds one transaction; the node answers a window with the
  logs of the chain as it is then, some of them twice. `recon.linked` is history: what
  the coordinator said at the last of the three reads.
* `RialtoClient`: an amount is its integer part and its fraction with a number of
  digits, since the conversion to base units floors or refuses. Prices are exact
  fractions (`FairNumerator` over `FairDenominator`) and the code's floors of them.
  The caller between the functions is not in the repository: it reads truthfully, as
  late as it likes. The feeds and the guard are `PriceGuard`'s, so that the property
  comparing the two guards compares the models of both pieces of code.
* `CanaryPreflight`: the fifteen checks that read go one at a time; `quiet` remembers
  whether anything moved since the first.
* `CanaryPacket`: `file` is what each file holds and `fork` the rehearsal's state. The
  packet's transactions are the gas they may cost, a digest is the object digested.
  `Verifies` and `Binds` are what the verifier and the page would say now.
* `CanaryRecovery`: a block is its identity and the nonces mined in it; `search.seen`
  remembers the chain at the start of a capture.
* `WalletTx`: `life[i].took` is the history of whether the transaction took effect.
* `CanaryOperator`: `disk` is the four localStorage records, `mem` the operator
  object, `ui` the enabled buttons, `tasks` the handlers at their awaits, `requests`
  every `eth_sendTransaction` and what became of it.

## 3. The abstract specification

`DistributionPromise` says of an acquisition's 80 percent only this: it becomes a pot
when it is recorded; the whole pot is bound to one cycle that belongs to no other
acquisition; it then shrinks by payments out of that cycle; what is left is closed
once. `KeepsPromise` (in `FundingCoordinator`) instantiates it with the mapping

    stage   = status of the acquisition record
    pot     = distributionAmount while waiting, the cycle's remainder once funded
    binding = the record's cycle id once funded
    closed  = recoveryClosed of the cycle in that stock

and the run `funding_pipeline` checks that every step of the four contracts together
is a step of the promise or leaves it alone.

## 4. The runs

`tlc -workers 2 -config <cfg> <module>`; each finishes in at most about two minutes.

| Run | Instance and why it is enough | Shows |
|---|---|---|
| `claim_manager` | The manager: 2 cycles, 2 claimants, 2 stocks, times 0 to 4, windows that overlap, abut and are empty; a root its funding covers and one that promises too much and has two leaves for one claimant, each publishable under the wrong cycle; short credits, duplicate and zero assets; one donation. The vault: 2 stocks of which one is approved, up to 3 WETH, outputs 0, 1, 6 (not multiples of five), arbitrary adapter | Solvent, PaidOneLeaf, NoClaimStarved, RecoveryIsFinal, and, with fairness, EverythingLeaves; VaultAccountsBalance |
| `funding_pipeline` | 2 acquisitions of pots 0 and 4, 2 cycle ids (one is 0, the record's default), good, stale, misdirected and empty quotes, fee-taking stock, a donation to each contract | RecordedStaysFundable, StockTraced, refinement KeepsPromise |
| `funded_with_dust` | the same; expected violation | see section 7 |
| `locking_vault` | 2 locks of one holder, durations 1 to 4 and unsupported ones, times to 3, amounts below and above a multiplier's rounding, exit and ownership at any time | PrincipalAccounted, VaultCoversLocks, HistoryIsFrozen, MaturedLocksReturn |
| `trade_router` | 2 trades of 99 or 100 units (either side of 1 percent), venue outputs 3 or 101, minimums met and missed, valid and invalid recipients, deadlines, two accounts that can own, one gift, one holder's burn | OnlyGiftsRemain, SupplyAccountsForBurns, BudgetsMatchRates |
| `settlement` | 2 controllers, 3 registry entries with 2 codes and one without, all caps around the ceiling, 2 settlements; then an activated executor with feeds at 0, 2, 3, ages to the limit and past it | SettledOnce, SpendingBounded, NeverBelowFairValue, SettledOnReviewedCode |
| `rialto_offchain` | The client: 2 routers, 12 venue answers (good ones at several minimums, each fault once), 3 policies, amounts with too many digits, a clock that runs ahead, one move of the registry or the feeds in every gap between reads. The preflight: 7 environments, an executor without code, paused or live, one move in every gap | PlannedRouterWasActive, PlannedMinimumInBand, ChainGuardIsStricter, ReportIsExact |
| `web_dashboard` | 2 overlapping lifecycles of lock, withdraw, claim and one claim by somebody else; 2 accounts of which one is allow-listed, 3 switches of account or network, 2 callbacks, 2 moves of others; 4 blocks in windows of 2, one reorganisation, 2 runs of the effect | SuccessMeansEffect; LockPanelSettles, VerifiedWasPayable; ReportIsSnapshot, ConfirmedWasLinked |
| `eligible_after_switch` | 2 accounts, one of them on the service's list, 2 switches; expected violation | see section 7 |
| `proof_of_distribution` | The pipeline: about 33,000 cycles, 0 to 2 logs over all instants of a 3-second epoch, orders, duplicates, conflicts, locks across every boundary, all eligibility rows, small pools. The snapshot: 2 accounts, 3 blocks, windows of 2 blocks, 2 branches, lag, one change of branch above the pin | WeightsAreTheIntegral, EntitlementsAreFairShares; SnapshotIsPinnedState |
| `canary` | The page: 2 deployer steps and 1 tester step, 4 wallet requests, 3 reloads, 2 faulty writes, one handler at a time. The packet: 3 blocks, one reorganisation, 2 versions of the external code, 2 captures, 1 collection, 2 generations that may be killed, prices 3/5 and 4/5 so that gas loses a fraction. The recovery: 2 completed transactions in 4 blocks, one reshuffle, 2 captures, costs at, above and below the reviewed ones | NeverBlindRetry, InPacketOrder; AuthorizationIsRehearsal, ExposureWithinCap, PriceWasFresh, PreflightSawRehearsal; CaptureIsExact, CeilingsWithinCap |
| `double_verify` | two handlers at once; expected violation | see section 7 |

Bounds. `MaxTime`, `MaxLocks`, `MaxTrades`, `MaxAcquisitions`, `MaxSettlements`,
`MaxWeth`, `MaxDonation`, `MaxRuns`, `MaxOtherClaims`, `MaxRequests`, `MaxReloads`,
`MaxFaults`, `MaxReorgs`, `LastBlock`, `VaultMaxTime`, `MaxSwitches`, `MaxCallbacks`,
`MaxWorld`, `MaxEffects`, `MaxMoves`, `MaxPlans`, `MaxBlocks`, `MaxClock`, the numbers of
runs of each tool, `MaxHeight` and `MaxShuffles` cap what the code leaves open; each is a
guard of the action it caps. Two of everything that can interfere is the rule: two
cycles, two claimants, two acquisitions, two trades, two settlements, two lifecycles.
Durations are scaled (days become single units) since only their order matters, and
token and feed units are 2 and 1 so that divisions round.

The settlement run explores the controller's steps and the feeds' steps apart, each
together with settlements: the guard reads nothing the controller writes, and the
controller's policy reads nothing the feeds write, so that they meet only in the
conjunction of `ExecuteSettlement`'s conditions. Both read the time, which only the
feeds' half lets pass: it starts from an executor that was configured, unpaused and
funded, and settles once.

The versions of external code in the `canary` run are a symmetry set: nothing orders
them, and the run checks invariants only.

Deadlock checking is off in all of them: calls stop at the bounds, and a finished
lifecycle, snapshot or packet has nothing left to do.

## 5. Fairness

Only two properties need any.

* `EverythingLeaves` (`MgrFairness`, which `CustodySpec` restricts to its part): time passes, and `recoverExpired` is eventually
  called for an asset for which it stays possible. It is permissionless and costs its
  caller nothing but gas; the recovery recipient has every reason to call it.
* `MaturedLocksReturn` (`LockFairness`): time passes, and a holder eventually
  withdraws what it can. No fairness is assumed of the owner.

In both, the fairness is of the party that gains by the call and does not depend on
any privileged account; what the properties then say is that the guards never shut
that party out.

## 6. What is proved

Eight modules of theorems, checked by TLAPS. What a run shows on a small instance a
theorem shows for every value of the constants that the assumptions allow: any number
of cycles, claimants, holders, tokens, any amounts, times and bounds.

| Module | Theorem | States |
|---|---|---|
| `FundingCoordinator_proofs` | `ManagerTyped`, `ManagerSolvent`, `OneLeafPaid`, `NobodyStarved`, `RecoveryFinal` | types; `Solvent`; `PaidOneLeaf`; `NoClaimStarved`; `RecoveryIsFinal` |
| | `VaultBooksTyped`, `VaultBooksBalance` | types; `VaultAccountsBalance` |
| | `PipelineTyped`, `AlwaysFundable`, `StockNeverLost`, `PromiseKept` | types; `RecordedStaysFundable`; `StockTraced`; the refinement `KeepsPromise` |
| `LockingVault_proofs` | `VaultTyped`, `VaultCovers`, `PrincipalBooked`, `WithdrawNeverShort`, `PastWeightsFrozen` | types; `VaultCoversLocks`; `PrincipalAccounted`; `WithdrawalsCovered`; `HistoryIsFrozen` |
| | `SnapshotPinned` | `SnapshotIsPinnedState` |
| `TradeRouter_proofs` | `RouterTyped`, `NoResidue`, `SupplyAccounted`, `RatesMatched` | types; `OnlyGiftsRemain`; `SupplyAccountsForBurns`; `BudgetsMatchRates` |
| `SettlementExecutor_proofs` | `ExecutorTyped`, `NonceSettledOnce`, `OnlySettlementsSpend`, `FairValueHeld`, `ReviewedCodeOnly` | types; `SettledOnce`; `SpendingBounded`; `NeverBelowFairValue`; `SettledOnReviewedCode` |
| | `PlannedRouterActive`, `PlannedMinimumBanded`, `ChainGuardStricter` | `PlannedRouterWasActive`; `PlannedMinimumInBand`; `ChainGuardIsStricter` |
| | `PreflightExact` | `ReportIsExact` |
| `Canary_proofs` | `OperatorInvariant`, `NoBlindRetry`, `PacketOrderKept` | types and the invariant below; `NeverBlindRetry`; `InPacketOrder` |
| | `PacketTyped`, `PricesWereFresh`, `ExposureCapped` | types and ages; `PriceWasFresh`; `ExposureWithinCap` |
| | `PacketInvariant`, `AuthorizationRehearsed`, `PreflightRehearsed` | the invariant below; `AuthorizationIsRehearsal`; `PreflightSawRehearsal` |
| | `CaptureExact`, `CeilingsCapped` | `CaptureIsExact`; `CeilingsWithinCap` |
| `Web_proofs` | `DashboardTyped`, `PanelSettles`, `VerifiedPayable` | types; `LockPanelSettles`; `VerifiedWasPayable` |
| | `WalletTyped`, `SuccessIsReal` | types; `SuccessMeansEffect` |
| | `ConfirmedIsLinked`, `ReportTells` | `ConfirmedWasLinked`; `ReportIsSnapshot` |
| `ProofOfDistribution_proofs` | `WeightsExact`, `SharesAreFair`, `LastChecksPass` | `WeightsAreTheIntegral`; `EntitlementsAreFairShares`; `ALLOC_OVERFLOW`, `DUPLICATE_ENTITLEMENT` and `RECON_CONSERVATION` are never thrown |

So every safety property that a passing run checks is a theorem. Liveness
(`EverythingLeaves`, `MaturedLocksReturn`) stays with TLC.

**Assumptions.** They are the named `ASSUME`s of the models, which TLC evaluates in
every run. Beyond the types of constants they say: the four lock durations are positive
and increasing (`LockAssumption`); the zero address is no stock token and a publication
window ends before the bound on time (`ClaimAssumption`); the contracts' addresses differ
from each other and from their callers (`RouterAssumption`); units and ages are positive
(`GuardAssumption`); nobody is not a caller (`OwnableAssumption`). The sets that are
summed over are finite: `Cycles`, `Claimants`, the leaves of a root, `Holders`,
`Callers`. Ids and addresses are words of a fixed width, so there are finitely many of
each; nothing bounds how many. Of the packet tools, prices, units and fees are positive
and a missing file is not a snapshot (`PacketAssumption`). The theorems about the operator
page assume `~Overlap`, a user who waits for each handler, and the last three about the
packet tools `~ToolsOverlap`, tools that run one at a time, as the run `canary` does:
without them they are false (section 7). What they say of types, prices and the exposure
holds while tools run beside each other. `SuccessIsReal` assumes `Reconcilable`: no trade
button, whose lifecycle passes no reconcile callback, and a cycle in which enough is left
for the account's claim however many others claim; section 7 says what happens without
either, and `MCWeb.cfg` satisfies both. Nobody is not one of the lock panel's answers
(`DashboardAssumption`). Of the off-chain client the observation ages, quotes, lifetimes
and skews are numbers, of either sign where the code does not look
(`ClientAssumption`). `ChainGuardStricter` assumes `AgesAgree`: the contract's two feed
ages, at most 900 seconds, are no longer than the off-chain policy's one. Both are
configured, apart from each other, and nothing in the code compares them; the theorem says that the
roundings are then never what the two guards disagree about. `SnapshotPinned`
assumes `~DeepReorgs`, that the pinned block is final, as the run does (section 7). The
recovery tools' costs are natural numbers and at least one transaction is to be
found (`RecoveryAssumption`). A fixture of the weights pipeline is what the schema
lets through: timestamps and positions are integers, amounts natural numbers, and every
address that occurs is a wallet or the zero address (`PodAssumption`); whether it is
consistent is for `loadCycleFixture` to check. The wallets and the tiers are finite sets,
and so are a fixture's locks. Nothing is assumed of the bounds on reloads,
faults, requests, blocks, reorganisations, time and runs.

**Sums.** Solvency, the principal totals, the token supplies and the tracing of stock
are sums over sets that the constants leave open. `Sums_proofs` proves what they need
about `SumFunctionOnSet` of the community modules, which is defined by a choice of a
recursive function over subsets. `SetInduction` is an induction principle over the
subsets of a finite set, stated of a set of subsets instead of a predicate, so that no
operator is a parameter; with it `SolutionExists` and `SolutionsAgree` show that the
recursion has one solution, `SumRecursion` unfolds it by one element, and the rest are
the working lemmas: `SumUpdate` (one addend changes), `SumMonotone`, `SumBound`,
`SumSubset`, `SumCovered`, and for the report's sums `SumReindex` (a sum over the image of
a one-to-one function) and `SumOnes` (counting). For the weights pipeline `SumInsert`
adds an element, `SumSegment` extends a sum over an interval by a stretch in which the
addends are constant, and `SumPlus` and `SumTimes` say that sums are linear. The models write each sum as `SumFunctionOnSet` of an explicit
function for that reason.

**Inductive invariants.** Each module states one, of named conjuncts, and proves that it
holds initially and that each action keeps it, one lemma per action.

* `MgrInv` (claim manager): types, `Solvent`, `PaidOneLeaf`, and two facts neither of
  which a run states. `PaymentsBooked`: what a cycle paid in an asset is the sum of its
  claimants' payments, without which `NoClaimStarved` cannot compare what is left with
  the leaves not yet claimed. `BooksFollowCycle`: only a published cycle has a root,
  registered assets, funding or claims, without which publication might overwrite
  something, and what is recovered belongs to a window that is over, without which a
  claim might still touch it. A call
  changes one cycle's row of each asset by one of three entries (`FundedNow`, `PaidNow`,
  `SweptNow`); publication repeats an entry for each asset of the arrays, whose
  duplicates `publishCycle` refuses.
* `VaultInv` (acquisition vault): the balances tell the books' story, and releases
  never exceed allocations (`ReleasedWithinAllocated`).
* `PipeInv` (composition): the two invariants above together with what the coordinator
  keeps true *between* the contracts. `RecordsInOrder`: the records up to the count are the ones
  that exist. `CyclesBound`: a funded record and its cycle name each other, so that two
  records never share one. `UnusedUnpublished`: a cycle id not used is free in the manager.
  `DueReleasable`: what waiting records are owed is what the vault may still release.
  `ReleasedFunded`: what the vault released is what the manager was funded with, asset by
  asset. `StockNeverLost` is their sum.
* `LockInv` and `BookInv` (locking vault): creating a lock writes `positions[w][id]` at
  `id = lockCount[w]`, and neither its past weight nor the principal sums survive that
  unless nothing was there before. `FreshIds` and `FreshIdsEmpty` say so. With them,
  creation turns a position of weight 0 into one whose weight is 0 before the present,
  withdrawal stamps a `withdrawnAt` that is not in the past, and opening the exit cuts
  bonuses from the present on (`CreateKeepsPast`, `WithdrawKeepsPast`, `ExitKeepsPast`).
* `RouterInv` (trade router): the three properties and the types are inductive together.
  The work is in a trade's transfers: a trade's result is a chain of balance functions,
  each related to the one before by `Moved` or `Burnt`, and the lemmas follow the
  tokens through a venue that pulls less, misroutes or misreports. For the rates, the
  floors of percentages are bounded by elementary arithmetic of `\div`.
* `ExecInv` (settlement executor): `NoAllowanceLeft` (outside a settlement the router
  has no allowance, which is why `RouterPulls` takes nothing), `NoncesRemembered` (a
  settled nonce is marked), `CapUnderCeiling` (no policy exceeds the canary ceiling).
  `FairValueHeld` follows from the guard's arithmetic: both roundings go the same way.
* `OperatorInv` (operator page): why no reload and no failed write leads to a blind
  retry. Call a request open unless its user rejected it. `DiskRight`: every open request
  is of a journaled step or of the durable intent, and a durable halt that is about a
  send is about that intent. `MemoryRight`: the same of the page's memory, where the
  intent must also be held back (`HeldBack`: by a halt, by the pending record, or by the
  handler that is asking the wallet). The memory's journal is at most one step behind the
  disk's, which happens when a journal write is stored and its read-back fails, and only
  while what is uncertain is not journaled yet. `TasksRight`: one handler at a time, never
  in a halted page, and those of a send are about the step after the journal. From
  `DiskRight` the constructor rebuilds `MemoryRight` (`ReloadKeeps`), and `OneOpen` is
  what makes `NeverBlindRetry` a fact about pairs of requests, counted only at the end.
  `JournalTrue` (journaled steps are mined and succeeded) gives `InPacketOrder`.
* `AgesInv` (packet tools): types, and that the observations of the price the generator
  works with, and of the packet on disk, were fresh at the packet's own `generated`. The
  verifier compares other times, and the packet's price with the price file's, which is
  how `PriceWasFresh` survives a collection between generation and verification.
  `ExposureWithinCap` is arithmetic of one floor (`UnderCap`).
* `PacketInv` (packet tools): why files of different runs that bind come from one
  rehearsal. Every name a tool or a file keeps is `Known`, a name the chain gave out, and
  where its block is still `Live` the code kept beside it is the chain's. A step of the
  chain only takes names away (`ChainMoves`, `NamesKept`), so one lemma covers growth,
  upgrades and reorganisations. `RehearsedRight` says that a snapshot which names the
  packet's block has the code the packet ran on, since the generator looked for the live
  block when it rehearsed; `WritingRight` and `WrittenRight` carry the authorization from
  there to the file. After that a capture may replace the snapshot, by one of a `Later`
  block or of a block that replaced the packet's: this is what `PassedRight` needs, where
  the preflight's snapshot is not the one the verifier reads. `Alone` is what
  `~ToolsOverlap` gives.
* `DashboardInv` (dashboard): `LockRunsRight` says that a live effect of the lock panel is
  the last one, belongs to the connected account, and has its answer on the screen when
  it is done; a superseded effect may answer at any time and is not live. `VerifiesRight` says what
  an unfinished verification's reads still imply: it was payable at the first read,
  or the account has claimed since, or too little remains. Claims and recoveries never
  give any of that back (`CycleSteps`), so that the last read decides.
* `WalletInv` (transactions): `SuccessMeansEffect` compares a counter with the value it
  had when the button was pressed. What makes it inductive relates the reconciliation's
  own reading to the chain: for every lock in flight, the account's principal exceeds
  the reading `before` by at most the locks that took effect since, and for every withdrawal
  it falls short by at most the withdrawals since (`RunRight`). Overlapping lifecycles move
  the principal both ways, and the inequalities survive because each one charges
  only the movements that could deceive it (`ChainStep`). For claims `ClaimBooks` ties
  the remainder to the claims made, and `Reconcilable` turns a small remainder into a
  claim of one's own.
* `ReconInv` (transparency): a cycle is funded by at most one transaction of the chain
  (`FundedOnce`), whatever a reorganisation drops or brings back in another block. So
  the acquisition that names the cycle is the one the cycle names, and the third read
  alone makes `ConfirmedWasLinked` true; the second only chooses what it asks for.
* `ReportInv` (transparency): once the tip has reached the head that is asked for, the
  blocks up to the safe head are final; block hashes are never given out twice, so that
  a hash and an index name one log (`HashesDiffer`). What the windows have brought is
  then `Sound` (logs of final blocks only) and `Complete` (all of those behind the window's
  start), whatever was repeated. Keeping the first delivery of each log
  (`FirstKept`) makes it a set in one-to-one correspondence with the final logs, and the
  panel's sums over logs become the property's sums over blocks (`SumReindex`).
* `ClientInv` (off-chain client): what each check of the evaluator accepted still holds
  when the plan is made, although registry, feeds and clock have moved (`PriceHeld`).
  A dated observation of the registry is of a moment that is over (`ObservationTrue`), and the
  record of active routers only grows. The rest is arithmetic: one floor of a
  product, then one of a percentage, lose less than two units together, and the contract's two
  upward roundings are never below the client's downward ones.
* `PreflightInv` (preflight): in an undisturbed run the failed checks so far are none if and only if
  the facts those checks are about hold (`NotedRight`, with `FactsSoFar` one function
  of the step), so that the last step's verdict is the property.
* `CaptureInv` (recovery capture): a binary search over a chain that may be
  reorganised between two probes. A prefix of the chain mines the nonces from 1 to some
  `k`, so a count of them is an answer to the probe. Identities of blocks that were replaced do
  not come back (`LedgerRight`), so that once the prefix that was seen is disturbed it stays
  disturbed, and while it is not, the wanted nonce lies between the two ends
  (`SearchRight`).
* `DraftInv` (recovery generation): every ceiling that was computed, kept or written was
  checked as part of a sum (`ObjectsCapped`); the ceilings rounded down apart are
  together at most that sum (`FloorsAdd`).
* `SnapInv` (snapshot): the facts each request relied on hold for the later
  ones. Branches fork above the pin (`ForkAbovePin`), so endpoints whose hashes agreed
  there agree below it (`ChecksHold`); the records scanned so far are those of the
  requested history in the windows passed (`RecordsRight`), and the coverage check, that
  the vault had no code before the first block scanned, says that there are no earlier ones.
* `PodInv` (weights pipeline): `IntegralRight` says that the sums accumulated so far are
  those over the seconds before `tCur`, that the balances are what the applied logs
  leave (`BalancesRight`), and that the cursor divides the logs at `tCur`
  (`CursorRight`). Logs that pass the check of neighbours are in order altogether, each
  once (`OrderEstablished`), and it takes that order to know that no log is overlooked.
  Nothing changes between two breakpoints (`SegmentConstant`), so a
  segment's product is the sum over its seconds; a negative free balance at its start is
  a lock above a balance in that second. `SharesRight` keeps each allocation what rows
  and weights say. One row a wallet and one entry a token make the leaves that grant a
  wallet an asset one leaf or none (`GrantedIsShare`), and the floors of shares that add
  up to one lose less than a unit each (`LittleIsLeft`) and are never too much
  (`NeverTooMuch`). `LastChecksPass` then says that what the code checks of its own result
  on a fixture that loads always holds.

**Refinement.** `PromiseKept` is the theorem `CoordSpec => KeepsPromise`. Its step
simulation has a lemma per kind of step: recording an acquisition makes a pot
(`RecordSimulates`), funding binds it to a cycle (`FundSimulates`), a claim, batch or
recovery in a funded cycle shrinks or closes it (`ClaimSimulates`), and every other step
is a stutter (`IdleSimulates`). It uses `PipeInv`, since a pot is bound once only because
two records cannot share a cycle.

**Only model-checked.** Liveness: `EverythingLeaves` and `MaturedLocksReturn` rest on
fairness and `ENABLED`, which the prover does not handle.

## 7. Where code and documents disagree

Three disagreements have runs of their own.

* `funded_with_dust`. The claim manager documents that it is funded with the allocated
  entitlements only, never with distribution dust; the coordinator funds a cycle with
  the whole recorded 80 percent. The dust then belongs to the cycle and goes to the
  recovery recipient after the deadline, instead of rolling over in the vault.
* `double_verify`. While the automatic verification of a sent step polls for the
  receipt, the page shows "Verify pending transaction". Clicking it starts a second
  `verifyAfterHash`, which passes the same test of `pending`; both then append to the
  journal and add one to `current`, and the next step of the packet is skipped until
  a reload reconciles (which finds the journal's double entry and halts).
* `eligible_after_switch`. The verdict of the signed declaration and the service's answer
  are component state that no change of account clears (`AppDashboard.tsx:87`), so that
  the write gate stays open for an account that never signed, while the release audit
  says that signatures are re-verified against the connected account. The contracts do
  not depend on the gate.

These further observations can be reproduced by changing constants of the
configurations, and are why those constants are what they are.

* `Overlap = TRUE` with two tasks in `MCCanary.cfg` violates `NeverBlindRetry`:
  "Confirm" stays enabled while the wallet asks its user and re-enables "Send"
  (`app.js:114`), so that two more clicks request the same step again. The passing run
  is thus a statement about a user who waits for each handler.
* `Kinds = {"trade"}` in `MCWeb.cfg` violates `SuccessMeansEffect`: the trade
  button passes no `reconcile` (`AppDashboard.tsx:311`), and a replacement that is
  mined successfully is reported as the trade. The passing run leaves trades out.
* `Funded = 2` there violates it for claims: the test is that the cycle's remainder is
  below the user's own entitlement (`AppDashboard.tsx:670`), which another holder's
  claim can bring about. With `Funded = 4` it cannot.
* The lock id kept for the withdraw button is read before the lock is sent
  (`AppDashboard.tsx:436`); a second lock in between makes it name the wrong position.
  The vault refuses or returns the caller's other lock; no principal is at risk.
* `DeepReorgs = TRUE` in `MCProofOfDistribution.cfg` violates `SnapshotIsPinnedState`: the
  agreement of the endpoints' hashes is checked once (`rpc-reader.ts:61`), and an
  endpoint that changes branch below the pin afterwards mixes two histories. The
  passing run assumes that the pinned block is final.
* `ToolsOverlap = TRUE` in `MCCanary.cfg` violates `AuthorizationIsRehearsal`: a capture
  that finishes while the generator runs replaces `block-snapshot.json` between the
  generator's reads of it (`capture-live-snapshot.mjs:82`). The passing run starts one tool at a time,
  and lets each be killed between any two of its writes.
* An edit of `review-policy.json` while the generator runs is lost: it is read at the
  start (`generate-packet.mjs:17`) and written back whole at the end (`:491`).
* The transparency panel asks for blocks up to a constant head (`AppDashboard.tsx:729`),
  and the claim panel's `verify` (`:571`) has no handler for a read that fails: it
  leaves the panel as it was. The models have both as they are.
* The trade's recipient is the account of the render its callback was made in, its
  sender the connector's account at the click (`AppDashboard.tsx:311`).
* `computeWeights` refuses a wallet whose active locks exceed its balance
  (`twab.ts:193`), while `BPSLockingVault` takes the principal out of the wallet: logs
  of real locks need the vault's holdings added back first. It fails closed.
* `renounceOwnership` is disabled in the router and not in the executor, where it
  would leave what the executor holds without anybody who can recover it.

## 8. What is not modelled

* Serialization, hashing, schemas and file layout of the distribution's artifacts: about
  bytes, and pure functions of the modelled result. Of the canary's canonical encodings
  only the choice and comparison of fields is modelled.
* Reentrancy: excluded by `nonReentrant`, which is taken as given.
* The deployment scripts: straight lines that check their own result. A broadcast that
  stops half way is resumed by hand.
* Of the web application: the oracle panel, trade and lock previews, manifests.
* Of `packages/rialto`: `deriveStructuralReplay` and the replayed evidence of earlier
  quotes, a comparison of recorded constants.
* Of the canary's tools: the verifier's comparison of bytecode and provenance,
  `replay-verify.mjs`, the gates of `recovery-preflight.mjs`, `post-canary-reconcile.mjs`,
  and the older copies of the generator in `bundle/` and one directory up.
* The snapshot's consumer and its command line.
* Rendering, placeholders (`db`, `worker`).
* Integer overflow: amounts are `uint256` with checked arithmetic, and token supplies
  are far below it; a subtraction that would revert is a guard.
* Gas, and the cost of a call.

Assumed of the environment: a mined transaction stays mined in `WalletTx` and
`CanaryOperator` (`Transparency`, `LockSnapshot`, `CanaryPacket` and `CanaryRecovery` have
reorganisations); a branch that was abandoned does not come back; stock tokens do not
rebase.

## 9. Plan

Done: the on-chain contracts, their composition and its refinement; the weights
pipeline and the snapshot; the web application's transactions, panels and reads; the
off-chain Rialto client and the preflight; the canary's operator page, packet tools and
recovery tools; a theorem for every safety property that a passing run checks.

Next: an abstract specification of the operator page (a step is asked for, mined and
recorded once) which `CanaryOperator` under `~Overlap` implements, from `OperatorInv`; and one
of the settlement executor (a nonce is used, and its intent settled, at most once) from
`ExecInv`.
