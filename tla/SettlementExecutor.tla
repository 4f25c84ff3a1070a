------------------------- MODULE SettlementExecutor -------------------------
(***************************************************************************)
(* GuardedSettlementExecutor.sol: the Safe-controlled settlement of WETH   *)
(* for stock through the registry's current router, whose calldata is      *)
(* opaque.  The router is external: within its allowance it does anything. *)
(***************************************************************************)
EXTENDS PriceGuard, Ownable, Functions, Sequences

CONSTANTS
    Intents,               \* SettlementParams that appear in calls
    RouterAddresses,       \* what registry.ownerOf(2) may return
    BadRouters,            \* those among them that are refused: none at all,
                           \* the registry, a token, the guard, no contract
    codeOf,                \* codeOf[r]: r.codehash
    CodeHashes, Selectors, \* in configuration calls; 0 is the zero value
    Caps,                  \* caps in configuration calls
    CANARY_MAX_SELL_WETH,
    MAX_DEADLINE_HORIZON,
    StockOutputs,          \* what the router may deliver
    MaxWeth,               \* bound on the WETH the executor is given
    MaxSettlements,        \* bound on the settlements executed
    deployer               \* the controller at construction

MAX_PLATFORM_FEE_BPS == 5
MAX_SLIPPAGE_BPS == 100
MAX_PRICE_DEVIATION_BPS == 100

(* `bound': calldata hash, leading selector and digest are those of the    *)
(* other fields; `rightPair': WETH for the stock token.                    *)
Intent == [rightPair : BOOLEAN, sellAmount : Nat, minBuyAmount : Nat,
           target : RouterAddresses, selector : Selectors,
           platformFeeBps : Nat, integratorFeePresent : BOOLEAN,
           slippageBps : Nat, nonce : Nat, deadline : Nat, bound : BOOLEAN]

ASSUME ExecutorAssumption ==
    /\ Intents \subseteq Intent
    /\ BadRouters \subseteq RouterAddresses
    /\ codeOf \in [RouterAddresses -> CodeHashes]
    /\ CodeHashes \subseteq Nat
    /\ Selectors \subseteq Nat
    /\ Caps \subseteq Nat
    /\ CANARY_MAX_SELL_WETH \in Nat
    /\ MAX_DEADLINE_HORIZON \in Nat
    /\ StockOutputs \subseteq Nat
    /\ MaxWeth \in Nat
    /\ MaxSettlements \in Nat
    /\ deployer \in Callers

VARIABLES
    paused,
    guardSet,              \* priceGuard # address(0)
    approvedRouterCodeHash,
    approvedSelector,
    maxSellAmount,
    pairAllowed,
    consumedDigest,        \* a digest stands for the intent it binds
    usedNonce,
    execWeth,              \* weth.balanceOf(executor)
    execStock,             \* stockToken.balanceOf(executor)
    allowance,             \* weth.allowance(executor, router)
    registryRouter,        \* registry.ownerOf(2)
    settled,               \* the SettlementExecuted events, with what the
                           \* feeds said and what was spent
    wethGiven              \* WETH sent to the executor and not recovered

configVars == <<guardSet, approvedRouterCodeHash, approvedSelector,
                maxSellAmount, pairAllowed>>
replayVars == <<consumedDigest, usedNonce>>
custodyVars == <<execWeth, execStock, allowance, wethGiven>>
execVars == <<paused, configVars, replayVars, custodyVars, registryRouter,
              settled>>
allExecVars == <<now, feedVars, ownVars, execVars>>

Settlement == [intent : Intent, router : RouterAddresses, code : CodeHashes,
               spent : Nat, received : Nat, wethUsd : Int, nvdaUsd : Int,
               wethAge : Nat, nvdaAge : Nat]

ExecTypeOK ==
    /\ now \in Times
    /\ FeedTypeOK
    /\ OwnTypeOK
    /\ paused \in BOOLEAN
    /\ guardSet \in BOOLEAN
    /\ approvedRouterCodeHash \in CodeHashes \cup {0}
    /\ approvedSelector \in Selectors \cup {0}
    /\ maxSellAmount \in Nat
    /\ pairAllowed \in BOOLEAN
    /\ consumedDigest \subseteq Intent
    /\ usedNonce \subseteq Nat
    /\ execWeth \in Nat
    /\ execStock \in Nat
    /\ allowance \in [RouterAddresses -> Nat]
    /\ wethGiven \in Nat
    /\ registryRouter \in RouterAddresses
    /\ settled \in Seq(Settlement)

(* The executor starts paused and unconfigured.                            *)
ExecInit ==
    /\ OwnInit(deployer)
    /\ paused = TRUE
    /\ guardSet = FALSE
    /\ approvedRouterCodeHash = 0
    /\ approvedSelector = 0
    /\ maxSellAmount = 0
    /\ pairAllowed = FALSE
    /\ consumedDigest = {}
    /\ usedNonce = {}
    /\ execWeth = 0
    /\ execStock = 0
    /\ allowance = [r \in RouterAddresses |-> 0]
    /\ wethGiven = 0
    /\ registryRouter \in RouterAddresses
    /\ settled = << >>

----------------------------------------------------------------------------
(* Operators whose name ends in _Defect... are faulty variants of the one   *)
(* that follows them; each breaks a property (see the README).             *)

(* Configuration, by the controller *)

SetApprovedRouterCode(codeHash, selector) ==
    /\ codeHash # 0
    /\ selector # 0
    /\ approvedRouterCodeHash' = codeHash
    /\ approvedSelector' = selector
    /\ UNCHANGED <<guardSet, maxSellAmount, pairAllowed>>

(* setTokenPairAllowed, for the one pair it accepts *)
SetTokenPairAllowed(allowed) ==
    /\ pairAllowed' = allowed
    /\ UNCHANGED <<guardSet, approvedRouterCodeHash, approvedSelector,
                   maxSellAmount>>

(* setMaxSellAmount, for WETH, under the canary ceiling *)
SetMaxSellAmount(maxAmount) ==
    /\ maxAmount <= CANARY_MAX_SELL_WETH
    /\ maxSellAmount' = maxAmount
    /\ UNCHANGED <<guardSet, approvedRouterCodeHash, approvedSelector,
                   pairAllowed>>

(* setPriceGuard: a contract, and there is one *)
SetPriceGuard ==
    /\ guardSet' = TRUE
    /\ UNCHANGED <<approvedRouterCodeHash, approvedSelector, maxSellAmount,
                   pairAllowed>>

Configure(caller) ==
    /\ OnlyOwner(caller)
    /\ \/ \E h \in CodeHashes \cup {0}, s \in Selectors \cup {0} :
              SetApprovedRouterCode(h, s)
       \/ \E b \in BOOLEAN : SetTokenPairAllowed(b)
       \/ \E n \in Caps : SetMaxSellAmount(n)
       \/ SetPriceGuard
    /\ UNCHANGED <<paused, replayVars, custodyVars, registryRouter, settled,
                   ownVars, feedVars>>

PauseExecutor(caller) ==
    /\ OnlyOwner(caller)
    /\ ~paused
    /\ paused' = TRUE
    /\ UNCHANGED <<configVars, replayVars, custodyVars, registryRouter,
                   settled, ownVars, feedVars>>

(* unpause's gate *)
ConfigComplete ==
    /\ guardSet
    /\ approvedRouterCodeHash # 0
    /\ approvedSelector # 0
    /\ maxSellAmount # 0
    /\ pairAllowed

UnpauseExecutor(caller) ==
    /\ OnlyOwner(caller)
    /\ ConfigComplete
    /\ paused
    /\ paused' = FALSE
    /\ UNCHANGED <<configVars, replayVars, custodyVars, registryRouter,
                   settled, ownVars, feedVars>>

(* transferOwnership is hardened against the zero address, so that a       *)
(* nomination can be replaced but not withdrawn; acceptOwnership and       *)
(* renounceOwnership are the library's.                                    *)
ExecOwnership(caller) ==
    /\ \/ \E o \in Callers : TransferOwnership(caller, o)
       \/ AcceptOwnership(caller)
       \/ RenounceOwnership(caller)
    /\ UNCHANGED <<execVars, feedVars>>

(* at most the balance *)
Recovered(amount, balance) == IF amount > balance THEN balance ELSE amount

(* recover, of WETH or stock, to the controller *)
Recover(caller, amount) ==
    /\ OnlyOwner(caller)
    /\ \/ /\ execWeth' = execWeth - Recovered(amount, execWeth)
          /\ UNCHANGED execStock
       \/ /\ execStock' = execStock - Recovered(amount, execStock)
          /\ UNCHANGED execWeth
    /\ wethGiven' = wethGiven - (execWeth - execWeth')
    /\ UNCHANGED <<paused, configVars, replayVars, allowance, registryRouter,
                   settled, ownVars, feedVars>>

----------------------------------------------------------------------------
(* executeSettlement *)

(* the intent is within the policy *)
PolicyAllows(p) ==
    /\ guardSet
    /\ approvedRouterCodeHash # 0
    /\ approvedSelector # 0
    /\ p.rightPair
    /\ pairAllowed
    /\ p.sellAmount # 0
    /\ p.minBuyAmount # 0
    /\ maxSellAmount # 0
    /\ p.sellAmount <= maxSellAmount
    /\ p.platformFeeBps <= MAX_PLATFORM_FEE_BPS
    /\ ~p.integratorFeePresent
    /\ p.slippageBps <= MAX_SLIPPAGE_BPS
    /\ p.deadline # 0
    /\ now <= p.deadline
    /\ p.deadline - now <= MAX_DEADLINE_HORIZON
    /\ p.bound
    /\ p.selector = approvedSelector

Unreplayed_DefectDigestOnly(p) == p \notin consumedDigest

(* neither the digest nor the nonce was used *)
Unreplayed(p) ==
    /\ p \notin consumedDigest
    /\ p.nonce \notin usedNonce

RouterApproved_DefectQuotedRouter(p) ==
    p.target \notin BadRouters

(* the intent's target is the registry's router of this moment, and its    *)
(* code is the approved one                                                *)
RouterApproved(p) ==
    /\ p.target = registryRouter
    /\ registryRouter \notin BadRouters
    /\ codeOf[registryRouter] = approvedRouterCodeHash

ClearedAllowance_DefectKept(r, left) == [allowance EXCEPT ![r] = left]

(* forceApprove(router, 0), whatever the router left of its allowance      *)
ClearedAllowance(r, left) == [allowance EXCEPT ![r] = 0]

(* the executor's own stock balance rose by the minimum *)
MinimumMet(p, received) == received >= p.minBuyAmount

(* executeSettlement: the router spends `spent' of the allowance and       *)
(* delivers `received'                                                     *)
ExecuteSettlement(caller, p, spent, received) ==
    /\ OnlyOwner(caller)
    /\ ~paused
    /\ PolicyAllows(p)
    /\ Unreplayed(p)
    /\ RouterApproved(p)
    /\ consumedDigest' = consumedDigest \cup {p}
    /\ usedNonce' = usedNonce \cup {p.nonce}
    /\ PriceAcceptable(p.sellAmount, p.minBuyAmount, MAX_PRICE_DEVIATION_BPS)
    /\ allowance[registryRouter] = 0
    /\ spent <= p.sellAmount
    /\ spent <= execWeth
    /\ MinimumMet(p, received)
    /\ execWeth' = execWeth - spent
    /\ execStock' = execStock + received
    /\ allowance' = ClearedAllowance(registryRouter, p.sellAmount - spent)
    /\ settled' = Append(settled,
           [intent |-> p, router |-> registryRouter,
            code |-> codeOf[registryRouter], spent |-> spent,
            received |-> received, wethUsd |-> wethFeed.answer,
            nvdaUsd |-> nvdaFeed.answer,
            wethAge |-> now - wethFeed.updatedAt,
            nvdaAge |-> now - nvdaFeed.updatedAt])
    /\ UNCHANGED <<paused, configVars, registryRouter, wethGiven, ownVars,
                   feedVars>>

----------------------------------------------------------------------------
(* The rest of the world *)

FundExecutor ==
    /\ wethGiven < MaxWeth
    /\ execWeth' = execWeth + 1
    /\ wethGiven' = wethGiven + 1
    /\ UNCHANGED <<paused, configVars, replayVars, execStock, allowance,
                   registryRouter, settled, ownVars, feedVars>>

(* the registry's owner points feature 2 at another router *)
RotateRouter(r) ==
    /\ registryRouter' = r
    /\ UNCHANGED <<paused, configVars, replayVars, custodyVars, settled,
                   ownVars, feedVars>>

(* A router may use what is left of an allowance in any later transaction, *)
(* as far as it goes.                                                      *)
RouterPulls(r) ==
    \E n \in 0 .. allowance[r] :
        /\ n <= execWeth
        /\ execWeth' = execWeth - n
        /\ allowance' = [allowance EXCEPT ![r] = @ - n]
        /\ UNCHANGED <<paused, configVars, replayVars, execStock, wethGiven,
                       registryRouter, settled, ownVars, feedVars>>

(* The controller and anyone who can reach the executor's storage or its   *)
(* registry.                                                               *)
ControlStep ==
    /\ \/ \E caller \in Callers :
              \/ Configure(caller)
              \/ PauseExecutor(caller)
              \/ UnpauseExecutor(caller)
              \/ ExecOwnership(caller)
              \/ \E n \in Caps : Recover(caller, n)
       \/ \E r \in RouterAddresses : RotateRouter(r)
    /\ UNCHANGED now

(* Settlements, what follows from them, and the executor's funding *)
SettleStep ==
    /\ \/ /\ Len(settled) < MaxSettlements
          /\ \E caller \in Callers, p \in Intents, received \in StockOutputs :
             \E spent \in 0 .. p.sellAmount :
                 ExecuteSettlement(caller, p, spent, received)
       \/ FundExecutor
       \/ \E r \in RouterAddresses : RouterPulls(r)
    /\ UNCHANGED now

(* The feeds, and time *)
MarketStep ==
    \/ FeedStep /\ UNCHANGED <<now, execVars, ownVars>>
    \/ Tick /\ UNCHANGED <<feedVars, ownVars, execVars>>

ExecNext == ControlStep \/ SettleStep \/ MarketStep

ExecStart == now = 0 /\ FeedInit /\ ExecInit

ExecSpec == ExecStart /\ [][ExecNext]_allExecVars

----------------------------------------------------------------------------
(* PROPERTIES *)

(* An intent is executed at most once and a nonce serves one intent, for   *)
(* ever: across pauses, reconfigurations and changes of controller.        *)
SettledOnce ==
    \A i, j \in DOMAIN settled :
        settled[i].intent.nonce = settled[j].intent.nonce => i = j

(* the WETH settlements have spent *)
Spent ==
    SumFunctionOnSet([i \in DOMAIN settled |-> settled[i].spent], DOMAIN settled)

(* Whatever a router did, the WETH that left is the WETH of settlements,   *)
(* each within its intent and the canary ceiling: an allowance does not    *)
(* outlive the settlement it was given for.                                *)
SpendingBounded ==
    /\ \A i \in DOMAIN settled :
           /\ settled[i].spent <= settled[i].intent.sellAmount
           /\ settled[i].intent.sellAmount <= CANARY_MAX_SELL_WETH
    /\ execWeth + Spent = wethGiven

(* x delivered 99% of the fair value, by exact (unrounded) arithmetic      *)
FairlyPriced(x) ==
    x.received * wethTokenUnit * wethFeedUnit * x.nvdaUsd * 10000
        >= x.intent.sellAmount * x.wethUsd
               * nvdaFeedUnit * nvdaTokenUnit * 9900

(* No settlement took less than 99% of the fair value the two feeds gave   *)
(* at that moment: the guard's roundings favour the executor, and the      *)
(* received amount is measured.                                            *)
NeverBelowFairValue == \A i \in DOMAIN settled : FairlyPriced(settled[i])

(* x was run by the registry's router of this moment, with the approved    *)
(* code, at the price of two live feeds                                    *)
OnReviewedCode(x) ==
    /\ x.router = registryRouter
    /\ x.code = approvedRouterCodeHash
    /\ x.wethUsd > 0 /\ x.nvdaUsd > 0
    /\ x.wethAge <= maxWethFeedAge
    /\ x.nvdaAge <= maxNvdaFeedAge

(* Every settlement was priced by a live feed and run by the code the      *)
(* controller had approved, however the registry, the feeds and the        *)
(* approvals moved between the quote and its execution.                    *)
SettledOnReviewedCode ==
    [][settled' # settled => OnReviewedCode(settled'[Len(settled')])]_allExecVars
=============================================================================
