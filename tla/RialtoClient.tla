---------------------------- MODULE RialtoClient ----------------------------
(***************************************************************************)
(* packages/rialto, the off-chain half of a settlement: one GET /quote and *)
(* its validation, the structural check of its calldata, the price guard   *)
(* over two feeds, and the guarded-settlement evaluator that declares an   *)
(* intent READY_OFFLINE_ONLY.  Everything these functions look at was read *)
(* earlier, one request at a time, while the registry's owner rotates the  *)
(* router, the feeds publish and time passes.                              *)
(*                                                                         *)
(* The caller that feeds one function's result to the next is not in the   *)
(* repository; it is modelled as one that reads truthfully, in this order, *)
(* as late as it likes.  The venue is external: it answers anything.       *)
(***************************************************************************)
EXTENDS PriceGuard, FiniteSets

CONSTANTS
    Routers,               \* addresses the registry and quotes name
    Decimals,              \* requested amounts, as decimal strings
    VenueQuotes,           \* what the venue may answer
    Policies,              \* evaluator policies
    Lifetimes,             \* deadline - creation of the intents built
    Skews,                 \* how far the observer's clock may run ahead
    Multiplier, MultiplierUnit,  \* uiMultiplier and 1e18
    SELL_TOKEN_DECIMALS,
    maxStaleness,          \* of the off-chain price policy
    None,                  \* null
    MaxMoves,              \* bound on the moves of the registry and feeds
    MaxPlans               \* bound on the plans that are consumed

MIN_BUY_CEILING == 1000000
MAX_INTENT_LIFETIME == 300
MAX_PLATFORM_FEE == 5
MAX_SLIPPAGE == 100
DEVIATION_BPS == 100

(* What can be wrong with an answer: what validateQuote sees (chain,       *)
(* settlement, permit2 or gasless, tokens, taker, calldata shape, value,   *)
(* issues) and what only decoding the calldata shows.                      *)
ResponseDefects == {"identity", "permit2", "transaction", "issues"}
CalldataDefects == {"undecodable", "trailing", "arguments"}

ASSUME ClientAssumption ==
    /\ \A d \in Decimals : d.int \in Nat /\ d.frac \in Nat /\ d.digits \in Nat
    /\ \A q \in VenueQuotes : q.minBuy \in Nat
    /\ \A p \in Policies :
           p.registryAge \in Int \cup {None} /\ p.raw \in BOOLEAN
    /\ Lifetimes \subseteq Int
    /\ Skews \subseteq Nat
    /\ Multiplier \in Nat \ {0} /\ MultiplierUnit \in Nat \ {0}
    /\ SELL_TOKEN_DECIMALS \in Nat
    /\ maxStaleness \in Nat
    /\ MaxMoves \in Nat /\ MaxPlans \in Nat

VARIABLES
    registry,    \* feature 2: current, previous, next router, paused
    routersAt,   \* routersAt[t]: the active routers of second t
    moves,
    pc,          \* the next step of the client
    policy,      \* the evaluator's policy
    quote,       \* the validated quote
    router,      \* registry.ownerOf(2), as read for the structural check
    read,        \* the four price observations
    regObs,      \* the dated registry observation
    refObs,      \* the evaluator's price observation
    plan,        \* the plan of a READY verdict
    spent        \* the replay store: digests and nonces consumed

worldVars == <<now, feedVars, registry, routersAt, moves>>
clientVars == <<pc, policy, quote, router, read, regObs, refObs,
                plan, spent>>

----------------------------------------------------------------------------
(* Operators whose name ends in _Defect... are faulty variants of the one   *)
(* that follows them; each breaks a property (see the README).             *)

(* decimalToBaseUnits: null for zero and for more digits than the token's  *)
DecimalToBaseUnits(d) ==
    LET raw == d.int * 10 ^ SELL_TOKEN_DECIMALS
                 + d.frac * 10 ^ (SELL_TOKEN_DECIMALS - d.digits)
    IN  IF d.digits > SELL_TOKEN_DECIMALS \/ raw = 0 THEN None ELSE raw

(* validateQuote *)
QuoteValid(q, d) ==
    /\ q.defect \notin ResponseDefects
    /\ q.sellAmount = DecimalToBaseUnits(d)
    /\ q.target # None
    /\ q.minBuy > 0
    /\ q.minBuy <= q.sellAmount * MIN_BUY_CEILING
    /\ q.spender \in {None, q.target}

(* validateQuoteExecution against the router read and the approved         *)
(* selectors, none of which may be a batching one                          *)
StructurallyValid(q, resolved, approved, t) ==
    /\ resolved # None
    /\ q.target = resolved
    /\ q.selector # "multicall"
    /\ q.selector \in approved
    /\ q.defect \notin CalldataDefects
    /\ q.expiry # None
    /\ q.expiry > t

(* validateOpaqueQuoteForIntent, for an intent of the quote's own amounts  *)
OpaqueQuoteValid(q, resolved, t) ==
    /\ q.target = resolved
    /\ q.spender \in {None, resolved}
    /\ q.selector = "settle"
    /\ q.platformFee <= MAX_PLATFORM_FEE
    /\ ~q.integratorFee
    /\ q.expiry # None
    /\ q.expiry > t

FeedAccepted_DefectAgeBelowLimit(feed, t) ==
    /\ feed.identical
    /\ feed.answer > 0
    /\ feed.complete
    /\ feed.updatedAt > 0
    /\ t >= feed.updatedAt
    /\ t - feed.updatedAt < maxStaleness

(* checkFeed: identity, asset and semantics are `identical' *)
FeedAccepted(feed, t) ==
    /\ feed.identical
    /\ feed.answer > 0
    /\ feed.complete
    /\ feed.updatedAt > 0
    /\ t >= feed.updatedAt
    /\ t - feed.updatedAt <= maxStaleness

(* checkSequencer; unlike the contract it refuses a startedAt of zero *)
SequencerAccepted(seq, t) ==
    /\ seq.startedAt > 0
    /\ t >= seq.startedAt
    /\ seq.up
    /\ t - seq.startedAt >= sequencerRecoveryGrace

(* the price of one output token is num / den feed units: a raw-underlying *)
(* feed is multiplied once, a per-token feed already is                    *)
PerTokenNum(raw, feed) == IF raw THEN feed.answer * Multiplier ELSE feed.answer
PerTokenDen(raw) == IF raw THEN MultiplierUnit ELSE 1

FairNumerator(raw, r, sell) ==
    sell * r.weth.answer * nvdaFeedUnit * nvdaTokenUnit * PerTokenDen(raw)
FairDenominator(raw, r) ==
    wethTokenUnit * wethFeedUnit * PerTokenNum(raw, r.nvda)

(* the expected output, floored once, and the least minimum allowed        *)
ExpectedOut(raw, r, sell) ==
    FairNumerator(raw, r, sell) \div FairDenominator(raw, r)

MinAllowed_DefectTwiceFloored(raw, r, sell) ==
    LET usd == (sell * r.weth.answer) \div wethTokenUnit
        expected == (usd * nvdaFeedUnit * nvdaTokenUnit * PerTokenDen(raw))
                        \div (wethFeedUnit * PerTokenNum(raw, r.nvda))
    IN  (expected * (10000 - DEVIATION_BPS)) \div 10000

MinAllowed(raw, r, sell) ==
    (ExpectedOut(raw, r, sell) * (10000 - DEVIATION_BPS)) \div 10000

(* validateAcquisitionPrice; p.raw: the output feed's declared semantics   *)
PriceAccepted(p, r, sell, minBuy, t) ==
    /\ SequencerAccepted(r.sequencer, t)
    /\ FeedAccepted(r.weth, t)
    /\ FeedAccepted(r.nvda, t)
    /\ ~r.oraclePaused
    /\ sell > 0 /\ minBuy > 0
    /\ p.cap # None /\ sell <= p.cap
    /\ p.raw => p.allowRaw
    /\ ExpectedOut(p.raw, r, sell) > 0
    /\ minBuy >= MinAllowed(p.raw, r, sell)

----------------------------------------------------------------------------
(* The evaluator collects every failure; it is ready when there is none.   *)

Failing(tests) == {f \in DOMAIN tests : tests[f]}

(* productionCandidatePolicy: incomplete on purpose *)
ProductionCandidatePolicy ==
    [cap |-> None, selectors |-> {}, taker |-> None, registryAge |-> None,
     priceAge |-> None, sources |-> {}, lifetime |-> MAX_INTENT_LIFETIME,
     paused |-> FALSE, raw |-> FALSE, allowRaw |-> FALSE]

(* computeIntentDigest: creation time, fees and slippage are not in it *)
Digest(i) == <<i.taker, i.nonce, i.deadline, i.target, i.selector, i.sell,
               i.minBuy>>

(* policy sanity, identity (chain, registry, feature, pair, value, calldata *)
(* hash: `misbound' names the one that is wrong), amounts, fees, selector,  *)
(* taker                                                                    *)
PolicyFailures(p, i) ==
    ({i.misbound} \ {None}) \cup
    Failing([POLICY_INCOMPLETE |-> p.lifetime <= 0
                 \/ p.lifetime > MAX_INTENT_LIFETIME \/ p.paused,
             AMOUNT_INVALID |-> i.sell <= 0 \/ i.minBuy <= 0,
             AMOUNT_LIMIT_UNRESOLVED |-> p.cap = None,
             AMOUNT_EXCEEDS_LIMIT |-> p.cap # None /\ i.sell > p.cap,
             FEE_POLICY_VIOLATION |-> i.platformFee > MAX_PLATFORM_FEE
                 \/ i.integratorFee,
             SLIPPAGE_POLICY_VIOLATION |-> i.slippage > MAX_SLIPPAGE,
             SELECTOR_UNAPPROVED |-> i.selector \notin p.selectors,
             TAKER_UNRESOLVED |-> p.taker = None,
             TAKER_MISMATCH |-> p.taker # None /\ i.taker # p.taker])

(* reconcileRegistryTarget: only the current router counts *)
Reconcile(target, obs) ==
    CASE obs.current = None -> "ZERO_CURRENT_ROUTER"
      [] obs.current # None /\ obs.paused -> "FEATURE_PAUSED"
      [] obs.current # None /\ ~obs.paused /\ target # obs.current ->
             "TARGET_ROUTER_MISMATCH"
      [] OTHER -> "OK"

RegistryFailures_DefectUndatedPasses(p, i, obs, t) ==
    Failing([REGISTRY_PAUSED |-> Reconcile(i.target, obs) = "FEATURE_PAUSED",
             ROUTER_MISMATCH |->
                 Reconcile(i.target, obs) \notin {"FEATURE_PAUSED", "OK"},
             REGISTRY_OBSERVATION_STALE |->
                 p.registryAge = None
                 \/ (obs.at # None /\ (t - obs.at > p.registryAge
                                       \/ obs.at > t))])

(* the router, and an observation dated, not from the future and fresh     *)
RegistryFailures(p, i, obs, t) ==
    Failing([REGISTRY_PAUSED |-> Reconcile(i.target, obs) = "FEATURE_PAUSED",
             ROUTER_MISMATCH |->
                 Reconcile(i.target, obs) \notin {"FEATURE_PAUSED", "OK"},
             REGISTRY_OBSERVATION_STALE |->
                 obs.at = None \/ p.registryAge = None
                 \/ t - obs.at > p.registryAge \/ obs.at > t])

(* the most a minimum may be, from the reference price; floored twice *)
PermittedMax(ref, sell) ==
    (((ref.buy * sell) \div ref.sell) * (10000 + DEVIATION_BPS)) \div 10000

PriceFailures(p, i, ref, t) ==
    LET resolved == p.sources # {} /\ p.priceAge # None
                      /\ ref.source \in p.sources /\ ref.sell > 0 /\ ref.buy > 0
        fresh == t - ref.at <= p.priceAge /\ ref.at <= t
    IN  Failing([PRICE_SOURCE_UNRESOLVED |-> ~resolved,
                 PRICE_OBSERVATION_STALE |-> resolved /\ ~fresh,
                 PRICE_DEVIATION_EXCEEDED |-> resolved /\ fresh
                     /\ i.minBuy > PermittedMax(ref, i.sell)])

(* deadlines and replay *)
ReplayFailures(p, i, store, t) ==
    Failing([MISSING_DEADLINE |-> i.deadline <= 0,
             INTENT_EXPIRED |-> i.deadline > 0
                 /\ (i.deadline <= i.created \/ t > i.deadline),
             INTENT_LIFETIME_EXCESSIVE |-> i.deadline > 0
                 /\ i.deadline - i.created > p.lifetime,
             DIGEST_MISMATCH |-> i.digest # Digest(i),
             REPLAY_DETECTED |-> i.digest \in store.digests,
             NONCE_REUSED |-> <<i.taker, i.nonce>> \in store.nonces])

(* evaluateGuardedSettlement *)
Evaluate(p, i, obs, ref, store, t) ==
    PolicyFailures(p, i) \cup RegistryFailures(p, i, obs, t)
        \cup PriceFailures(p, i, ref, t) \cup ReplayFailures(p, i, store, t)

----------------------------------------------------------------------------
(* The world moves between any two steps of the client.                    *)

ActiveRouters == IF registry.paused THEN {} ELSE {registry.current}

MoveRegistry ==
    /\ \/ \E r \in Routers \ {registry.current} :
             registry' = [registry EXCEPT !.current = r,
                                          !.previous = registry.current]
       \/ registry' = [registry EXCEPT !.paused = ~@]
    /\ UNCHANGED <<now, feedVars>>

WorldStep ==
    /\ \/ /\ moves < MaxMoves
          /\ moves' = moves + 1
          /\ MoveRegistry \/ (FeedStep /\ UNCHANGED <<now, registry>>)
       \/ Tick /\ UNCHANGED <<feedVars, registry, moves>>
    /\ routersAt' = [routersAt EXCEPT ![now'] =
                          @ \cup (IF registry'.paused THEN {}
                                  ELSE {registry'.current})]
    /\ UNCHANGED clientVars

----------------------------------------------------------------------------
(* One run of the client.  A check that fails ends it.                     *)

(* the run goes on at `next', keeping all but the named observations *)
Continue(next) == pc' = next /\ UNCHANGED <<policy, plan, spent>>

(* a check threw: nothing of the run is kept *)
NoRead == [weth |-> NoRound, nvda |-> NoRound, oraclePaused |-> FALSE,
           sequencer |-> [up |-> FALSE, startedAt |-> 0]]

GiveUp ==
    /\ pc' = "fetch"
    /\ quote' = None
    /\ router' = None
    /\ read' = NoRead
    /\ regObs' = None
    /\ refObs' = None
    /\ plan' = None
    /\ UNCHANGED policy

(* fetchRialtoAllowanceQuote: refused before the request (no key, another  *)
(* origin, a bad amount) or no usable answer (timeout, status, size, JSON),*)
(* where nothing changes; or an answer, valid or not                       *)
Fetch ==
    /\ pc = "fetch"
    /\ \E d \in Decimals, q \in VenueQuotes :
           /\ DecimalToBaseUnits(d) # None
           /\ QuoteValid(q, d)
           /\ quote' = q
    /\ Continue("resolve")
    /\ UNCHANGED <<router, read, regObs, refObs>>

(* registry.ownerOf(2), which reverts while the feature is paused *)
ResolveRouter ==
    /\ pc = "resolve"
    /\ router' = IF registry.paused THEN None ELSE registry.current
    /\ Continue("structural")
    /\ UNCHANGED <<quote, read, regObs, refObs>>

CheckStructure ==
    /\ pc = "structural"
    /\ \/ /\ StructurallyValid(quote, router, policy.selectors, now)
          /\ OpaqueQuoteValid(quote, router, now)
          /\ Continue("read-weth")
          /\ UNCHANGED <<quote, router, read, regObs, refObs>>
       \/ /\ ~ (/\ StructurallyValid(quote, router, policy.selectors, now)
                /\ OpaqueQuoteValid(quote, router, now))
          /\ GiveUp /\ UNCHANGED spent

(* the feeds as they are now *)
LiveRead == [weth |-> wethFeed, nvda |-> nvdaFeed,
             oraclePaused |-> oraclePaused, sequencer |-> sequencer]

(* the price observations are requests of their own (token state and       *)
(* sequencer are read together with the second feed)                       *)
ReadPrice ==
    /\ \/ /\ pc = "read-weth"
          /\ read' = [read EXCEPT !.weth = wethFeed]
          /\ Continue("read-nvda")
       \/ /\ pc = "read-nvda"
          /\ read' = [LiveRead EXCEPT !.weth = read.weth]
          /\ Continue("price")
    /\ UNCHANGED <<quote, router, regObs, refObs>>

CheckPrice ==
    /\ pc = "price"
    /\ IF PriceAccepted(policy, read, quote.sellAmount, quote.minBuy, now)
       THEN /\ Continue("observe")
            /\ UNCHANGED <<quote, router, read, regObs, refObs>>
       ELSE GiveUp /\ UNCHANGED spent

(* the evaluator's own inputs: a registry observation, which may be        *)
(* undated or dated by a clock that runs ahead, and a reference price      *)
Observe ==
    /\ pc = "observe"
    /\ \E at \in {None} \cup {now + s : s \in Skews} :
           regObs' = [current |-> registry.current, paused |-> registry.paused,
                      at |-> at]
    /\ refObs' = [source |-> "feeds", at |-> now, sell |-> wethTokenUnit,
                  buy |-> IF wethFeed.answer > 0 /\ nvdaFeed.answer > 0
                          THEN ExpectedOut(policy.raw, LiveRead, wethTokenUnit)
                          ELSE 0]
    /\ Continue("evaluate")
    /\ UNCHANGED <<quote, router, read>>

BuildIntent(q, nonce, life) ==
    LET i == [taker |-> "executor", nonce |-> nonce, created |-> now,
              deadline |-> now + life, target |-> q.target,
              selector |-> q.selector, sell |-> q.sellAmount,
              minBuy |-> q.minBuy, platformFee |-> q.platformFee,
              integratorFee |-> q.integratorFee, slippage |-> 50,
              misbound |-> None, digest |-> None]
    IN  [i EXCEPT !.digest = Digest(i)]

(* evaluateGuardedSettlement of the intent built; one for another chain  *)
(* or pair fails like any other                                            *)
EvaluateIntent ==
    /\ pc = "evaluate"
    /\ \E life \in Lifetimes, nonce \in {1, 2}, bad \in {None, "WRONG_CHAIN"} :
           LET i == [BuildIntent(quote, nonce, life) EXCEPT !.misbound = bad]
           IN  IF Evaluate(policy, i, regObs, refObs, spent, now) = {}
               THEN /\ plan' = [intent |-> i, at |-> now, read |-> read,
                                ref |-> refObs]
                    /\ pc' = "ready"
                    /\ UNCHANGED <<policy, quote, router, read,
                                   regObs, refObs>>
               ELSE GiveUp
    /\ UNCHANGED spent

(* the plan is executed and recorded in the replay store *)
Consume ==
    /\ pc = "ready"
    /\ plan.intent.target \in ActiveRouters
    /\ Cardinality(spent.nonces) < MaxPlans
    /\ spent' = [digests |-> spent.digests \cup {plan.intent.digest},
                 nonces |-> spent.nonces
                     \cup {<<plan.intent.taker, plan.intent.nonce>>}]
    /\ GiveUp

ClientStep ==
    /\ \/ Fetch \/ ResolveRouter \/ CheckStructure \/ ReadPrice \/ CheckPrice
       \/ Observe \/ EvaluateIntent \/ Consume
    /\ UNCHANGED worldVars

(* The chain as the client finds it *)
WorldStart ==
    /\ now \in Times
    /\ FeedTypeOK
    /\ registry \in [current : Routers, previous : Routers \cup {None},
                     next : Routers \cup {None}, paused : BOOLEAN]
    /\ routersAt = [t \in Times |-> IF t = now THEN ActiveRouters ELSE {}]

ClientInit ==
    /\ moves = 0
    /\ pc = "fetch"
    /\ policy \in Policies
    /\ quote = None
    /\ router = None
    /\ read = NoRead
    /\ regObs = None
    /\ refObs = None
    /\ plan = None
    /\ spent = [digests |-> {}, nonces |-> {}]

ClientSpec ==
    WorldStart /\ ClientInit
        /\ [][ClientStep \/ WorldStep]_<<worldVars, clientVars>>

----------------------------------------------------------------------------
(* PROPERTIES *)

(* A plan names a router that really was the feature's active one no       *)
(* longer before the verdict than the policy's observation age (and the    *)
(* observer's clock error), however the registry was rotated or paused     *)
(* between the quote, the observation and the evaluation.                  *)
PlannedRouterWasActive ==
    plan # None =>
        \E t \in Times :
            /\ t <= plan.at
            /\ \E s \in Skews : t + s >= plan.at - policy.registryAge
            /\ plan.intent.target \in routersAt[t]

(* The minimum of a plan lies in the band both guards promise together, by *)
(* exact arithmetic: at least 99% of the fair output of the feeds read,    *)
(* less the two units its floors may lose, and at most 101% of the         *)
(* reference observed later.                                               *)
PlannedMinimumInBand ==
    plan # None =>
        LET i == plan.intent
        IN  /\ (i.minBuy + 2) * 10000 * FairDenominator(policy.raw, plan.read)
                  > FairNumerator(policy.raw, plan.read, i.sell)
                        * (10000 - DEVIATION_BPS)
            /\ i.minBuy * 10000 * plan.ref.sell
                  <= plan.ref.buy * i.sell * (10000 + DEVIATION_BPS)

(* The contract's guard, which rounds against the seller, is the stricter: *)
(* the least minimum it accepts at this moment the off-chain guard accepts *)
(* too, unless the fair output is less than one unit or the sequencer feed *)
(* never reported.                                                         *)
ChainGuardIsStricter ==
    \A sell \in {DecimalToBaseUnits(d) : d \in Decimals} \ {None} :
        /\ ~policy.raw /\ policy.cap # None /\ sell <= policy.cap
        /\ sequencer.startedAt > 0
        /\ wethFeed.answer > 0 /\ nvdaFeed.answer > 0
        /\ ExpectedOut(FALSE, LiveRead, sell) > 0
        /\ PriceAcceptable(sell, FloorAmount(sell, DEVIATION_BPS),
                           DEVIATION_BPS)
        => PriceAccepted(policy, LiveRead, sell,
                         FloorAmount(sell, DEVIATION_BPS), now)
=============================================================================
