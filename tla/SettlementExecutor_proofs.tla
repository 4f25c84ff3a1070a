---------------------- MODULE SettlementExecutor_proofs ----------------------
(***************************************************************************)
(* Proofs about a settlement.                                              *)
(*                                                                         *)
(* First SettlementExecutor, for every set of intents, routers, feed       *)
(* answers and units.  The router is external: the proofs hold whatever it *)
(* spends within its allowance and whatever it delivers.                   *)
(*                                                                         *)
(* Then RialtoClient and CanaryPreflight, its off-chain half, for every    *)
(* venue, policy, skew of the clock and order in which registry, feeds and *)
(* time move beside a run.                                                 *)
(***************************************************************************)
EXTENDS SettlementExecutor, CanaryPreflight, Sums_proofs

(* Between two transactions no router holds an allowance: what makes the   *)
(* opaque router's later pulls harmless.                                   *)
NoAllowanceLeft == \A r \in RouterAddresses : allowance[r] = 0

(* The replay protection remembers every settlement. *)
NoncesRemembered ==
    \A i \in DOMAIN settled : settled[i].intent.nonce \in usedNonce

(* setMaxSellAmount's ceiling *)
CapUnderCeiling == maxSellAmount <= CANARY_MAX_SELL_WETH

(* The inductive invariant *)
ExecInv ==
    /\ ExecTypeOK
    /\ NoAllowanceLeft
    /\ NoncesRemembered
    /\ CapUnderCeiling
    /\ SettledOnce
    /\ SpendingBounded
    /\ NeverBelowFairValue

----------------------------------------------------------------------------
(* The guard's arithmetic *)

(* Multiplication by a natural number is monotone. *)
LEMMA TimesMonotone ==
    ASSUME NEW x \in Int, NEW y \in Int, NEW z \in Nat, x >= y
    PROVE  x * z >= y * z
<1> DEFINE d == x - y
<1>1. d \in Nat /\ x = y + d
  OBVIOUS
<1> HIDE DEF d
<1>2. x * z = y * z + d * z
  BY <1>1
<1>3. d * z \in Nat
  BY <1>1
<1> QED  BY <1>2, <1>3

(* Math.mulDiv with Rounding.Ceil never loses any of the dividend. *)
LEMMA CeilDivCovers ==
    ASSUME NEW a \in Nat, NEW b \in Nat \ {0}
    PROVE  /\ CeilDiv(a, b) \in Nat
           /\ CeilDiv(a, b) * b >= a
<1> DEFINE n == a + b - 1
           q == n \div b
           r == n % b
<1>1. n \in Nat
  OBVIOUS
<1>2. n = b * q + r /\ r < b /\ q \in Nat /\ r \in Nat
  <2> HIDE DEF n
  <2> QED  BY <1>1
<1>3. CeilDiv(a, b) = q
  BY DEF CeilDiv
<1> HIDE DEF q, r
<1>4. b * q = q * b
  BY <1>2
<1> QED  BY <1>2, <1>3, <1>4

(* The floor is an integer, whatever the feeds answered. *)
LEMMA FloorIsInteger ==
    ASSUME GuardAssumption, NEW n \in Nat, wethFeed.answer \in Int,
           nvdaFeed.answer \in Int, nvdaFeed.answer > 0
    PROVE  FloorAmount(n, MAX_PRICE_DEVIATION_BPS) \in Int
<1>1. ASSUME NEW a \in Int, NEW b \in Nat \ {0}
      PROVE  CeilDiv(a, b) \in Int
  BY DEF CeilDiv
<1> DEFINE a == n * wethFeed.answer
           N == nvdaFeedUnit * nvdaTokenUnit
           D == wethFeedUnit * nvdaFeed.answer
           u == CeilDiv(a, wethTokenUnit)
           F == CeilDiv(u * N, D)
<1>2. /\ a \in Int /\ N \in Int /\ wethTokenUnit \in Nat \ {0}
      /\ wethFeedUnit \in Nat \ {0} /\ nvdaFeed.answer \in Nat \ {0}
  BY DEF GuardAssumption
<1>3. D \in Nat \ {0}
  <2> DEFINE x == wethFeedUnit
             y == nvdaFeed.answer
  <2>1. x \in Nat \ {0} /\ y \in Nat \ {0}
    BY <1>2
  <2> HIDE DEF x, y
  <2>2. x * y \in Nat \ {0}
    BY <2>1
  <2> QED  BY <2>2 DEF x, y
<1> HIDE DEF a, N, D
<1>4. u \in Int
  BY <1>1, <1>2
<1> HIDE DEF u
<1>5. u * N \in Int
  BY <1>2, <1>4
<1>6. F \in Int
  BY <1>1, <1>3, <1>5
<1> HIDE DEF F
<1>7. F * 9900 \in Int /\ 10000 \in Nat \ {0}
  BY <1>6
<1>8. CeilDiv(F * 9900, 10000) \in Int
  BY <1>1, <1>7
<1>9. FloorAmount(n, MAX_PRICE_DEVIATION_BPS) = CeilDiv(F * 9900, 10000)
  BY DEF F, u, a, N, D, FloorAmount, FairOut, MAX_PRICE_DEVIATION_BPS,
         MAX_DEVIATION_CEILING_BPS
<1> QED  BY <1>8, <1>9

(* The floor, in exact arithmetic: three roundings, each upwards.          *)
LEMMA FloorCoversFairValue ==
    ASSUME GuardAssumption, NEW n \in Nat, wethFeed.answer \in Nat,
           nvdaFeed.answer \in Nat \ {0}, NEW received \in Nat,
           received >= FloorAmount(n, MAX_PRICE_DEVIATION_BPS)
    PROVE  received * wethTokenUnit * wethFeedUnit * nvdaFeed.answer * 10000
               >= n * wethFeed.answer * nvdaFeedUnit * nvdaTokenUnit * 9900
<1> DEFINE W == wethTokenUnit
           D == wethFeedUnit * nvdaFeed.answer
           N == nvdaFeedUnit * nvdaTokenUnit
           a == n * wethFeed.answer
           u == CeilDiv(a, W)
           F == CeilDiv(u * N, D)
           L == CeilDiv(F * 9900, 10000)
<1>1. /\ W \in Nat \ {0} /\ N \in Nat /\ a \in Nat
      /\ wethFeedUnit \in Nat \ {0} /\ nvdaFeed.answer \in Nat \ {0}
      /\ nvdaFeedUnit \in Nat /\ nvdaTokenUnit \in Nat
  BY DEF GuardAssumption
<1>2. D \in Nat \ {0}
  <2> DEFINE x == wethFeedUnit
             y == nvdaFeed.answer
  <2>1. x \in Nat \ {0} /\ y \in Nat \ {0}
    BY <1>1
  <2> HIDE DEF x, y
  <2>2. x * y \in Nat \ {0}
    BY <2>1
  <2> QED  BY <2>2 DEF x, y
<1>3. L = FloorAmount(n, MAX_PRICE_DEVIATION_BPS)
  BY DEF FloorAmount, FairOut, MAX_PRICE_DEVIATION_BPS, MAX_DEVIATION_CEILING_BPS
<1>4. /\ u \in Nat
      /\ u * W >= a
  <2> HIDE DEF a, W
  <2> QED  BY <1>1, CeilDivCovers
<1>5. /\ F \in Nat
      /\ F * D >= u * N
  <2> HIDE DEF u, N, D
  <2>1. u * N \in Nat
    BY <1>1, <1>4
  <2> QED  BY <1>2, <2>1, CeilDivCovers
<1>6. /\ L \in Nat
      /\ L * 10000 >= F * 9900
  <2> HIDE DEF F
  <2>1. F * 9900 \in Nat /\ 10000 \in Nat \ {0}
    BY <1>5
  <2> QED  BY <2>1, CeilDivCovers
<1>7. received >= L
  BY <1>3
<1> DEFINE R == received * 10000
<1>8. R \in Nat /\ R >= F * 9900
  <2> HIDE DEF L, F
  <2> QED  BY <1>5, <1>6, <1>7
<1> HIDE DEF W, D, N, a, u, F, L, R
<1>9. (R * W) * D >= (a * N) * 9900
  <2>1. (R * W) * D = R * (W * D) /\ W * D \in Nat
    BY <1>1, <1>2, <1>8
  <2>2. R * (W * D) >= (F * 9900) * (W * D)
    BY <1>5, <1>8, <2>1, TimesMonotone
  <2>3. (F * 9900) * (W * D) = (F * D) * (W * 9900)
    BY <1>1, <1>2, <1>5
  <2>4. (F * D) * (W * 9900) >= (u * N) * (W * 9900)
    <3>1. F * D \in Int /\ u * N \in Int /\ W * 9900 \in Nat
      BY <1>1, <1>2, <1>4, <1>5
    <3> QED  BY <1>5, <3>1, TimesMonotone
  <2>5. (u * N) * (W * 9900) = (u * W) * (N * 9900)
    BY <1>1, <1>4
  <2>6. (u * W) * (N * 9900) >= a * (N * 9900)
    <3>1. u * W \in Int /\ a \in Int /\ N * 9900 \in Nat
      BY <1>1, <1>4
    <3> QED  BY <1>4, <3>1, TimesMonotone
  <2>7. a * (N * 9900) = (a * N) * 9900
    BY <1>1
  <2>8. /\ R * (W * D) \in Int /\ (F * D) * (W * 9900) \in Int
        /\ (u * W) * (N * 9900) \in Int /\ (a * N) * 9900 \in Int
    BY <1>1, <1>2, <1>4, <1>5, <1>8
  <2> QED  BY <2>1, <2>2, <2>3, <2>4, <2>5, <2>6, <2>7, <2>8
<1>10. received * wethTokenUnit * wethFeedUnit * nvdaFeed.answer * 10000
           = (R * W) * D
  BY <1>1 DEF R, W, D
<1>11. n * wethFeed.answer * nvdaFeedUnit * nvdaTokenUnit * 9900
           = (a * N) * 9900
  BY <1>1 DEF a, N
<1> QED  BY <1>9, <1>10, <1>11

----------------------------------------------------------------------------
(* The types *)

LEMMA FeedTypes ==
    ASSUME FeedTypeOK, now \in Times, FeedStep
    PROVE  FeedTypeOK'
<1>1. ASSUME NEW feed \in Feed, NEW answer \in Answers, NEW complete \in BOOLEAN
      PROVE  PublishedRound(feed, answer, complete) \in Feed
  BY <1>1 DEF PublishedRound, Feed
<1>2. ASSUME NEW feed \in Feed
      PROVE  [feed EXCEPT !.identical = ~@] \in Feed
  BY <1>2 DEF Feed
<1>3. CASE PublishRound /\ UNCHANGED <<oraclePaused, sequencer>>
  BY <1>1, <1>3 DEF FeedTypeOK, PublishRound
<1>4. CASE RotateFeed /\ UNCHANGED <<oraclePaused, sequencer>>
  BY <1>2, <1>4 DEF FeedTypeOK, RotateFeed
<1>5. CASE oraclePaused' = ~oraclePaused /\ UNCHANGED <<wethFeed, nvdaFeed, sequencer>>
  BY <1>5 DEF FeedTypeOK
<1>6. CASE /\ sequencer' = [up |-> ~sequencer.up, startedAt |-> now]
           /\ UNCHANGED <<wethFeed, nvdaFeed, oraclePaused>>
  BY <1>6 DEF FeedTypeOK
<1> QED  BY <1>3, <1>4, <1>5, <1>6 DEF FeedStep

(* What recover takes from a balance is taken from what was given. *)
LEMMA TakenFromGiven ==
    ASSUME NEW balance \in Nat, NEW given \in Nat, NEW left \in Nat, NEW rest,
           rest = given - (balance - left)
    PROVE  /\ left - balance = rest - given
           /\ left <= balance /\ balance <= given => rest \in Nat
OBVIOUS

(* The controller's steps *)
LEMMA ControlTypes ==
    ASSUME ExecTypeOK, execWeth <= wethGiven, ControlStep
    PROVE  ExecTypeOK'
<1>1. FeedTypeOK' /\ now' = now
  BY DEF ControlStep, ExecTypeOK, FeedTypeOK, Configure, PauseExecutor,
         UnpauseExecutor, ExecOwnership, Recover, RotateRouter, feedVars
<1>2. ASSUME NEW caller \in Callers, Configure(caller)
      PROVE  ExecTypeOK'
  BY <1>1, <1>2, ExecutorAssumption
     DEF ExecTypeOK, OwnTypeOK, Configure, SetApprovedRouterCode,
         SetTokenPairAllowed, SetMaxSellAmount, SetPriceGuard, replayVars,
         custodyVars, ownVars
<1>3. ASSUME NEW caller \in Callers,
             PauseExecutor(caller) \/ UnpauseExecutor(caller)
      PROVE  ExecTypeOK'
  BY <1>1, <1>3
     DEF ExecTypeOK, OwnTypeOK, PauseExecutor, UnpauseExecutor, configVars,
         replayVars, custodyVars, ownVars
<1>4. ASSUME NEW caller \in Callers, ExecOwnership(caller)
      PROVE  ExecTypeOK'
  BY <1>1, <1>4
     DEF ExecTypeOK, OwnTypeOK, ExecOwnership, TransferOwnership,
         AcceptOwnership, RenounceOwnership, execVars, configVars, replayVars,
         custodyVars
<1>5. ASSUME NEW caller \in Callers, NEW n \in Caps, Recover(caller, n)
      PROVE  ExecTypeOK'
  <2>1. n \in Nat
    BY ExecutorAssumption
  <2>2. ASSUME NEW b \in Nat
        PROVE  Recovered(n, b) \in 0 .. b
    BY <2>1 DEF Recovered
  <2>3. execWeth \in Nat /\ execStock \in Nat /\ wethGiven \in Nat
    BY DEF ExecTypeOK
  <2>4. /\ execWeth' \in 0 .. execWeth
        /\ execStock' \in 0 .. execStock
    BY <1>5, <2>2, <2>3 DEF Recover
  <2>5. wethGiven' = wethGiven - (execWeth - execWeth')
    BY <1>5 DEF Recover
  <2>6. execWeth' \in Nat /\ execStock' \in Nat /\ wethGiven' \in Nat
    <3>1. /\ execWeth' \in Nat /\ execWeth' <= execWeth
          /\ execStock' \in Nat
      BY <2>3, <2>4
    <3> QED  BY <2>3, <2>5, <3>1, TakenFromGiven
  <2> QED
    BY <1>1, <1>5, <2>6
       DEF ExecTypeOK, OwnTypeOK, Recover, configVars, replayVars, ownVars
<1>6. ASSUME NEW r \in RouterAddresses, RotateRouter(r)
      PROVE  ExecTypeOK'
  BY <1>1, <1>6
     DEF ExecTypeOK, OwnTypeOK, RotateRouter, configVars, replayVars,
         custodyVars, ownVars
<1> QED  BY <1>2, <1>3, <1>4, <1>5, <1>6 DEF ControlStep

----------------------------------------------------------------------------
(* The sum of the settlements' spending, before and after one more         *)

(* The events as a table of what was spent *)
SpentAt == [i \in DOMAIN settled |-> settled[i].spent]

LEMMA SpentCounts ==
    ASSUME ExecTypeOK
    PROVE  /\ IsFiniteSet(DOMAIN settled)
           /\ \A i \in DOMAIN settled : SpentAt[i] \in Nat
           /\ Spent \in Nat
<1>1. DOMAIN settled = 1 .. Len(settled) /\ Len(settled) \in Nat
  BY DEF ExecTypeOK
<1>2. IsFiniteSet(DOMAIN settled)
  BY <1>1, FS_Interval
<1>3. \A i \in DOMAIN settled : SpentAt[i] \in Nat
  <2>1. ASSUME NEW i \in DOMAIN settled PROVE settled[i].spent \in Nat
    <3>1. settled[i] \in Settlement
      BY <1>1 DEF ExecTypeOK
    <3> QED  BY <3>1 DEF Settlement
  <2> QED  BY <2>1 DEF SpentAt
<1>4. Spent = SumFunctionOnSet(SpentAt, DOMAIN settled)
  BY DEF Spent, SpentAt
<1> QED  BY <1>2, <1>3, <1>4, SumBound

LEMMA SpentGrows ==
    ASSUME ExecTypeOK, NEW x \in Settlement, settled' = Append(settled, x)
    PROVE  Spent' = Spent + x.spent
<1> DEFINE n == Len(settled) + 1
           D == DOMAIN settled
           g == [i \in DOMAIN settled' |-> settled'[i].spent]
<1>1. /\ settled \in Seq(Settlement) /\ Len(settled) \in Nat
      /\ D = 1 .. Len(settled)
  BY DEF ExecTypeOK
<1>2. /\ DOMAIN settled' = 1 .. n
      /\ n \notin D
      /\ (1 .. n) \ {n} = D
      /\ n \in 1 .. n
  BY <1>1
<1>3. /\ settled'[n] = x
      /\ \A i \in D : settled'[i] = settled[i]
  BY <1>1
<1>4. \A i \in 1 .. n : g[i] \in Int
  <2>1. ASSUME NEW i \in 1 .. n PROVE settled'[i].spent \in Int
    <3>1. i = n \/ i \in D
      BY <1>1
    <3>2. settled'[i] \in Settlement
      BY <1>1, <1>3, <3>1
    <3> QED  BY <3>2 DEF Settlement
  <2> QED  BY <1>2, <2>1
<1>5. IsFiniteSet(1 .. n) /\ IsFiniteSet(D)
  BY <1>1, FS_Interval
<1>6. g[n] = x.spent /\ \A i \in D : g[i] = SpentAt[i]
  <2>1. \A i \in D : i \in 1 .. n
    BY <1>1
  <2> QED  BY <1>2, <1>3, <2>1 DEF SpentAt
<1>7. Spent' = SumFunctionOnSet(g, 1 .. n)
  BY <1>2 DEF Spent
<1>8. Spent = SumFunctionOnSet(SpentAt, D)
  BY DEF Spent, SpentAt
<1> HIDE DEF g, D, n
<1>9. SumFunctionOnSet(g, 1 .. n) = g[n] + SumFunctionOnSet(g, D)
  BY <1>2, <1>4, <1>5, SumRemove
<1>10. SumFunctionOnSet(g, D) = SumFunctionOnSet(SpentAt, D)
  BY <1>5, <1>6, SumSame
<1>11. Spent \in Nat /\ x.spent \in Nat
  BY SpentCounts DEF Settlement
<1> QED  BY <1>6, <1>7, <1>8, <1>9, <1>10, <1>11

----------------------------------------------------------------------------
(* The steps *)

(* A step that settles nothing keeps the invariant when it keeps the types,*)
(* the cap, and the WETH in custody in step with the WETH given.           *)
LEMMA QuietPreserves ==
    ASSUME ExecInv, ExecTypeOK', UNCHANGED <<settled, usedNonce, allowance>>,
           maxSellAmount' <= CANARY_MAX_SELL_WETH,
           execWeth' - execWeth = wethGiven' - wethGiven
    PROVE  ExecInv'
<1>1. /\ settled' = settled /\ usedNonce' = usedNonce /\ allowance' = allowance
      /\ Spent' = Spent
  BY DEF Spent
<1>2. (execWeth + Spent = wethGiven)'
  <2>1. /\ execWeth \in Nat /\ execWeth' \in Nat /\ wethGiven \in Nat
        /\ wethGiven' \in Nat /\ Spent \in Nat
    BY SpentCounts DEF ExecInv, ExecTypeOK
  <2> QED  BY <1>1, <2>1 DEF ExecInv, SpendingBounded
<1>3. NoAllowanceLeft' /\ NoncesRemembered' /\ SettledOnce' /\ CapUnderCeiling'
  BY <1>1 DEF ExecInv, NoAllowanceLeft, NoncesRemembered, SettledOnce,
              CapUnderCeiling
<1>4. SpendingBounded'
  BY <1>1, <1>2 DEF ExecInv, SpendingBounded
<1>5. NeverBelowFairValue'
  BY <1>1 DEF ExecInv, NeverBelowFairValue
<1> QED  BY <1>3, <1>4, <1>5 DEF ExecInv

LEMMA ControlPreserves ==
    ASSUME ExecInv, ControlStep
    PROVE  ExecInv'
<1>1. execWeth <= wethGiven
  BY SpentCounts DEF ExecInv, ExecTypeOK, SpendingBounded
<1>2. ExecTypeOK'
  BY <1>1, ControlTypes DEF ExecInv
<1>3. UNCHANGED <<settled, usedNonce, allowance>>
  BY DEF ControlStep, Configure, PauseExecutor, UnpauseExecutor, ExecOwnership,
         Recover, RotateRouter, replayVars, custodyVars, execVars
<1>4. maxSellAmount' = maxSellAmount \/ maxSellAmount' <= CANARY_MAX_SELL_WETH
  BY DEF ControlStep, Configure, SetApprovedRouterCode, SetTokenPairAllowed,
         SetMaxSellAmount, SetPriceGuard, PauseExecutor, UnpauseExecutor,
         ExecOwnership, Recover, RotateRouter, configVars, execVars
<1>5. \/ UNCHANGED <<execWeth, wethGiven>>
      \/ wethGiven' = wethGiven - (execWeth - execWeth')
  BY DEF ControlStep, Configure, PauseExecutor, UnpauseExecutor, ExecOwnership,
         Recover, RotateRouter, custodyVars, execVars
<1>6. execWeth' - execWeth = wethGiven' - wethGiven
  <2>1. /\ execWeth \in Nat /\ execWeth' \in Nat
        /\ wethGiven \in Nat /\ wethGiven' \in Nat
    BY <1>2 DEF ExecInv, ExecTypeOK
  <2>2. CASE wethGiven' = wethGiven - (execWeth - execWeth')
    BY <2>1, <2>2, TakenFromGiven
  <2>3. CASE UNCHANGED <<execWeth, wethGiven>>
    BY <2>1, <2>3
  <2> QED  BY <1>5, <2>2, <2>3
<1>7. maxSellAmount' <= CANARY_MAX_SELL_WETH
  BY <1>4 DEF ExecInv, CapUnderCeiling
<1> QED  BY <1>2, <1>3, <1>6, <1>7, QuietPreserves

LEMMA MarketPreserves ==
    ASSUME ExecInv, MarketStep
    PROVE  ExecInv'
<1>1. UNCHANGED <<ownVars, execVars>>
  BY DEF MarketStep
<1>2. FeedTypeOK' /\ now' \in Times
  <2>1. now \in Times
    BY DEF ExecInv, ExecTypeOK
  <2>2. CASE FeedStep /\ UNCHANGED now
    BY <2>1, <2>2, FeedTypes DEF ExecInv, ExecTypeOK
  <2>3. CASE Tick /\ UNCHANGED feedVars
    BY <2>1, <2>3, ChainAssumption
       DEF Tick, Times, feedVars, FeedTypeOK, ExecInv, ExecTypeOK
  <2> QED  BY <2>2, <2>3 DEF MarketStep
<1>3. ExecTypeOK'
  BY <1>1, <1>2
     DEF ExecInv, ExecTypeOK, OwnTypeOK, ownVars, execVars, configVars,
         replayVars, custodyVars
<1>4. /\ UNCHANGED <<settled, usedNonce, allowance>>
      /\ maxSellAmount' <= CANARY_MAX_SELL_WETH
      /\ execWeth' = execWeth /\ wethGiven' = wethGiven
  BY <1>1 DEF execVars, configVars, replayVars, custodyVars, ExecInv,
              CapUnderCeiling
<1>5. execWeth' - execWeth = wethGiven' - wethGiven
  BY <1>4 DEF ExecInv, ExecTypeOK
<1> QED  BY <1>3, <1>4, <1>5, QuietPreserves

(* No allowance is left, so a router that pulls takes nothing. *)
LEMMA PullPreserves ==
    ASSUME ExecInv, NEW r \in RouterAddresses, RouterPulls(r), now' = now
    PROVE  ExecInv'
<1>1. allowance[r] = 0
  BY DEF ExecInv, NoAllowanceLeft
<1>2. PICK n \in 0 .. allowance[r] :
          /\ execWeth' = execWeth - n
          /\ allowance' = [allowance EXCEPT ![r] = @ - n]
  BY DEF RouterPulls
<1>3. n = 0
  BY <1>1
<1>4. execWeth' = execWeth
  BY <1>2, <1>3 DEF ExecInv, ExecTypeOK
<1>5. allowance' = allowance
  <2>1. allowance \in [RouterAddresses -> Nat]
    BY DEF ExecInv, ExecTypeOK
  <2> QED  BY <1>1, <1>2, <1>3, <2>1
<1>6. UNCHANGED <<paused, configVars, replayVars, execStock, wethGiven,
                  registryRouter, settled, ownVars, feedVars>>
  BY DEF RouterPulls
<1>7. ExecTypeOK'
  BY <1>4, <1>5, <1>6
     DEF ExecInv, ExecTypeOK, OwnTypeOK, FeedTypeOK, configVars, replayVars,
         ownVars, feedVars
<1>8. execWeth' - execWeth = wethGiven' - wethGiven
  BY <1>4, <1>6 DEF ExecInv, ExecTypeOK
<1>9. maxSellAmount' <= CANARY_MAX_SELL_WETH
  BY <1>6 DEF configVars, ExecInv, CapUnderCeiling
<1> QED  BY <1>5, <1>6, <1>7, <1>8, <1>9, QuietPreserves DEF replayVars

LEMMA FundPreserves ==
    ASSUME ExecInv, FundExecutor, now' = now
    PROVE  ExecInv'
<1>1. /\ execWeth' = execWeth + 1
      /\ wethGiven' = wethGiven + 1
      /\ UNCHANGED <<paused, configVars, replayVars, execStock, allowance,
                     registryRouter, settled, ownVars, feedVars>>
  BY DEF FundExecutor
<1>2. execWeth \in Nat /\ wethGiven \in Nat
  BY DEF ExecInv, ExecTypeOK
<1>3. /\ execWeth' \in Nat /\ wethGiven' \in Nat
      /\ execWeth' - execWeth = wethGiven' - wethGiven
  BY <1>1, <1>2
<1>4. ExecTypeOK'
  BY <1>1, <1>3
     DEF ExecInv, ExecTypeOK, OwnTypeOK, FeedTypeOK, configVars, replayVars,
         ownVars, feedVars
<1>5. maxSellAmount' <= CANARY_MAX_SELL_WETH
  BY <1>1 DEF configVars, ExecInv, CapUnderCeiling
<1> QED  BY <1>1, <1>3, <1>4, <1>5, QuietPreserves DEF replayVars

(* What executeSettlement records of this settlement *)
Recorded(p, taken, received) ==
    [intent |-> p, router |-> registryRouter, code |-> codeOf[registryRouter],
     spent |-> taken, received |-> received, wethUsd |-> wethFeed.answer,
     nvdaUsd |-> nvdaFeed.answer, wethAge |-> now - wethFeed.updatedAt,
     nvdaAge |-> now - nvdaFeed.updatedAt]

(* The record tells of a live price, of the approved code, and of an       *)
(* amount at or above the floor.                                           *)
LEMMA SettlementRecorded ==
    ASSUME ExecInv, NEW caller, NEW p \in Intents,
           NEW taken \in 0 .. p.sellAmount, NEW received \in StockOutputs,
           ExecuteSettlement(caller, p, taken, received)
    PROVE  /\ settled' = Append(settled, Recorded(p, taken, received))
           /\ Recorded(p, taken, received) \in Settlement
           /\ OnReviewedCode(Recorded(p, taken, received))
           /\ FairlyPriced(Recorded(p, taken, received))
<1> DEFINE x == Recorded(p, taken, received)
<1>1. p \in Intent /\ p.sellAmount \in Nat /\ p.minBuyAmount \in Nat
  BY ExecutorAssumption DEF Intent
<1>2. taken \in Nat /\ received \in Nat
  BY <1>1, ExecutorAssumption
<1>3. /\ wethFeed.answer \in Int /\ wethFeed.updatedAt \in Nat
      /\ nvdaFeed.answer \in Int /\ nvdaFeed.updatedAt \in Nat
      /\ now \in Nat
  <2>1. wethFeed \in Feed /\ nvdaFeed \in Feed /\ now \in Times
    BY DEF ExecInv, ExecTypeOK, FeedTypeOK
  <2>2. \A t \in Times : t \in Nat
    BY ChainAssumption DEF Times
  <2>3. \A a \in Answers \cup {0} : a \in Int
    BY GuardAssumption
  <2> QED  BY <2>1, <2>2, <2>3 DEF Feed
<1>4. /\ wethFeed.answer > 0 /\ wethFeed.updatedAt <= now
      /\ now - wethFeed.updatedAt <= maxWethFeedAge
      /\ nvdaFeed.answer > 0 /\ nvdaFeed.updatedAt <= now
      /\ now - nvdaFeed.updatedAt <= maxNvdaFeedAge
      /\ p.minBuyAmount >= FloorAmount(p.sellAmount, MAX_PRICE_DEVIATION_BPS)
  BY DEF ExecuteSettlement, PriceAcceptable, FeedFresh
<1>5. received >= p.minBuyAmount
  BY DEF ExecuteSettlement, MinimumMet
<1>6. registryRouter \in RouterAddresses /\ codeOf[registryRouter] \in CodeHashes
  BY ExecutorAssumption DEF ExecInv, ExecTypeOK
<1>7. x \in Settlement
  <2>1. now - wethFeed.updatedAt \in Nat /\ now - nvdaFeed.updatedAt \in Nat
    BY <1>3, <1>4
  <2> QED  BY <1>1, <1>2, <1>3, <1>6, <2>1 DEF Recorded, Settlement
<1>8. settled' = Append(settled, x) /\ codeOf[registryRouter] = approvedRouterCodeHash
  BY DEF ExecuteSettlement, Recorded, RouterApproved
<1>9. received >= FloorAmount(p.sellAmount, MAX_PRICE_DEVIATION_BPS)
  <2>1. FloorAmount(p.sellAmount, MAX_PRICE_DEVIATION_BPS) \in Int
    BY <1>1, <1>3, <1>4, GuardAssumption, FloorIsInteger
  <2> QED  BY <1>1, <1>2, <1>4, <1>5, <2>1
<1>10. received * wethTokenUnit * wethFeedUnit * nvdaFeed.answer * 10000
           >= p.sellAmount * wethFeed.answer * nvdaFeedUnit * nvdaTokenUnit * 9900
  <2>1. wethFeed.answer \in Nat /\ nvdaFeed.answer \in Nat \ {0}
    BY <1>3, <1>4
  <2> QED  BY <1>1, <1>2, <1>9, <2>1, GuardAssumption, FloorCoversFairValue
<1>11. FairlyPriced(x)
  BY <1>10 DEF FairlyPriced, Recorded
<1>12. OnReviewedCode(x)
  BY <1>4, <1>8 DEF OnReviewedCode, Recorded
<1> QED  BY <1>7, <1>8, <1>11, <1>12

LEMMA SettlePreserves ==
    ASSUME ExecInv, NEW caller, NEW p \in Intents,
           NEW taken \in 0 .. p.sellAmount, NEW received \in StockOutputs,
           ExecuteSettlement(caller, p, taken, received), now' = now
    PROVE  ExecInv'
<1> DEFINE x == Recorded(p, taken, received)
           n == Len(settled) + 1
<1>1. /\ x \in Settlement
      /\ settled' = Append(settled, x)
      /\ FairlyPriced(x)
  BY SettlementRecorded
<1>2. x.intent = p /\ x.spent = taken
  BY DEF Recorded
<1> HIDE DEF x
<1>3. /\ settled \in Seq(Settlement) /\ Len(settled) \in Nat
      /\ DOMAIN settled = 1 .. Len(settled)
  BY DEF ExecInv, ExecTypeOK
<1>4. /\ settled' \in Seq(Settlement)
      /\ settled'[n] = x
      /\ \A i \in DOMAIN settled' : i = n \/ i \in DOMAIN settled
      /\ \A i \in DOMAIN settled : settled'[i] = settled[i]
  BY <1>1, <1>3
<1>5. p \in Intent /\ p.sellAmount \in Nat /\ p.nonce \in Nat
  BY ExecutorAssumption DEF Intent
<1>6. /\ usedNonce' = usedNonce \cup {p.nonce} /\ p.nonce \notin usedNonce
      /\ consumedDigest' = consumedDigest \cup {p}
      /\ p.sellAmount <= maxSellAmount
      /\ taken <= execWeth
      /\ execWeth' = execWeth - taken
      /\ execStock' = execStock + received
      /\ allowance' = [allowance EXCEPT ![registryRouter] = 0]
      /\ UNCHANGED <<paused, configVars, registryRouter, wethGiven, ownVars,
                     feedVars>>
  BY DEF ExecuteSettlement, Unreplayed, PolicyAllows, ClearedAllowance
<1>7. taken \in Nat /\ taken <= p.sellAmount /\ received \in Nat
  BY <1>5, ExecutorAssumption
<1>8. /\ execWeth \in Nat /\ execWeth' \in Nat /\ execStock' \in Nat
      /\ Spent \in Nat /\ wethGiven \in Nat
      /\ maxSellAmount \in Nat /\ maxSellAmount <= CANARY_MAX_SELL_WETH
      /\ CANARY_MAX_SELL_WETH \in Nat
  <2>1. /\ execWeth \in Nat /\ execStock \in Nat /\ wethGiven \in Nat
        /\ maxSellAmount \in Nat /\ maxSellAmount <= CANARY_MAX_SELL_WETH
    BY DEF ExecInv, ExecTypeOK, CapUnderCeiling
  <2>2. Spent \in Nat
    BY SpentCounts DEF ExecInv
  <2>3. CANARY_MAX_SELL_WETH \in Nat
    BY ExecutorAssumption
  <2>4. execWeth' \in Nat /\ execStock' \in Nat
    BY <1>6, <1>7, <2>1
  <2> QED  BY <2>1, <2>2, <2>3, <2>4
<1>9. NoAllowanceLeft'
  BY <1>6 DEF ExecInv, NoAllowanceLeft, ExecTypeOK
<1>10. ExecTypeOK'
  <2>1. allowance' \in [RouterAddresses -> Nat]
    BY <1>6 DEF ExecInv, ExecTypeOK
  <2>2. consumedDigest' \subseteq Intent /\ usedNonce' \subseteq Nat
    BY <1>5, <1>6 DEF ExecInv, ExecTypeOK
  <2>3. FeedTypeOK' /\ OwnTypeOK' /\ now' \in Times
    BY <1>6 DEF ExecInv, ExecTypeOK, FeedTypeOK, OwnTypeOK, feedVars, ownVars
  <2> QED
    BY <1>4, <1>6, <1>8, <2>1, <2>2, <2>3 DEF ExecInv, ExecTypeOK, configVars
<1>11. NoncesRemembered'
  BY <1>2, <1>4, <1>6 DEF ExecInv, NoncesRemembered
<1>12. SettledOnce'
  <2> SUFFICES ASSUME NEW i \in DOMAIN settled', NEW j \in DOMAIN settled',
                      settled'[i].intent.nonce = settled'[j].intent.nonce
               PROVE  i = j
    BY DEF SettledOnce
  <2>1. CASE i \in DOMAIN settled /\ j \in DOMAIN settled
    BY <1>4, <2>1 DEF ExecInv, SettledOnce
  <2>2. CASE i \in DOMAIN settled /\ j = n
    BY <1>2, <1>4, <1>6, <2>2 DEF ExecInv, NoncesRemembered
  <2>3. CASE i = n /\ j \in DOMAIN settled
    BY <1>2, <1>4, <1>6, <2>3 DEF ExecInv, NoncesRemembered
  <2> QED  BY <1>4, <2>1, <2>2, <2>3
<1>13. SpendingBounded'
  <2>1. Spent' = Spent + taken
    BY <1>1, <1>2, SpentGrows DEF ExecInv
  <2>2. wethGiven' = wethGiven
    BY <1>6
  <2>3. execWeth' + Spent' = wethGiven'
    BY <1>6, <1>7, <1>8, <2>1, <2>2 DEF ExecInv, SpendingBounded
  <2>4. taken <= p.sellAmount /\ p.sellAmount <= CANARY_MAX_SELL_WETH
    BY <1>5, <1>6, <1>7, <1>8
  <2>5. ASSUME NEW i \in DOMAIN settled'
        PROVE  /\ settled'[i].spent <= settled'[i].intent.sellAmount
               /\ settled'[i].intent.sellAmount <= CANARY_MAX_SELL_WETH
    <3>1. CASE i = n
      BY <1>2, <1>4, <2>4, <3>1
    <3>2. CASE i \in DOMAIN settled
      BY <1>4, <3>2 DEF ExecInv, SpendingBounded
    <3> QED  BY <1>4, <3>1, <3>2
  <2> QED  BY <2>3, <2>5 DEF SpendingBounded
<1>14. NeverBelowFairValue'
  <2>1. FairlyPriced(x) /\ \A i \in DOMAIN settled : FairlyPriced(settled[i])
    BY <1>1 DEF ExecInv, NeverBelowFairValue
  <2>2. NeverBelowFairValue' <=> \A i \in DOMAIN settled' : FairlyPriced(settled'[i])
    BY DEF NeverBelowFairValue
  <2>3. ASSUME NEW i \in DOMAIN settled' PROVE FairlyPriced(settled'[i])
    BY <1>4, <2>1
  <2> QED  BY <2>2, <2>3
<1>15. CapUnderCeiling'
  BY <1>6 DEF ExecInv, CapUnderCeiling, configVars
<1> QED  BY <1>9, <1>10, <1>11, <1>12, <1>13, <1>14, <1>15 DEF ExecInv

----------------------------------------------------------------------------
LEMMA ExecStarts == ExecStart => ExecInv
<1> SUFFICES ASSUME ExecStart PROVE ExecInv
  OBVIOUS
<1>1. now \in Times /\ FeedTypeOK
  <2>1. 0 \in Times
    BY ChainAssumption DEF Times
  <2>2. NoRound \in Feed
    BY <2>1 DEF NoRound, Feed
  <2> QED  BY <2>1, <2>2 DEF ExecStart, FeedInit, FeedTypeOK
<1>2. ExecTypeOK
  <2>1. OwnTypeOK
    BY ExecutorAssumption DEF ExecStart, ExecInit, OwnInit, OwnTypeOK
  <2>2. << >> \in Seq(Settlement)
    OBVIOUS
  <2> QED  BY <1>1, <2>1, <2>2 DEF ExecStart, ExecInit, ExecTypeOK
<1>3. settled = << >> /\ DOMAIN settled = {}
  BY DEF ExecStart, ExecInit
<1>4. NoAllowanceLeft /\ NoncesRemembered /\ CapUnderCeiling /\ SettledOnce
  BY <1>3, ExecutorAssumption
     DEF ExecStart, ExecInit, NoAllowanceLeft, NoncesRemembered,
         CapUnderCeiling, SettledOnce
<1>5. Spent = 0
  BY <1>3, SumEmpty DEF Spent
<1>6. SpendingBounded /\ NeverBelowFairValue
  BY <1>3, <1>5 DEF ExecStart, ExecInit, SpendingBounded, NeverBelowFairValue
<1> QED  BY <1>2, <1>4, <1>6 DEF ExecInv

LEMMA ExecNextInv == ExecInv /\ [ExecNext]_allExecVars => ExecInv'
<1> SUFFICES ASSUME ExecInv, [ExecNext]_allExecVars PROVE ExecInv'
  OBVIOUS
<1>1. CASE SettleStep
  <2>1. now' = now
    BY <1>1 DEF SettleStep
  <2>2. ASSUME NEW caller \in Callers, NEW p \in Intents,
               NEW received \in StockOutputs, NEW taken \in 0 .. p.sellAmount,
               ExecuteSettlement(caller, p, taken, received)
        PROVE  ExecInv'
    BY <2>1, <2>2, SettlePreserves
  <2>3. CASE FundExecutor
    BY <2>1, <2>3, FundPreserves
  <2>4. ASSUME NEW r \in RouterAddresses, RouterPulls(r)
        PROVE  ExecInv'
    BY <2>1, <2>4, PullPreserves
  <2> QED  BY <1>1, <2>2, <2>3, <2>4 DEF SettleStep
<1>2. CASE UNCHANGED allExecVars
  <2>1. UNCHANGED <<now, feedVars, ownVars, execVars>>
    BY <1>2 DEF allExecVars
  <2>2. ExecTypeOK'
    BY <2>1 DEF ExecInv, ExecTypeOK, FeedTypeOK, OwnTypeOK, feedVars, ownVars,
                execVars, configVars, replayVars, custodyVars
  <2>3. /\ UNCHANGED <<settled, usedNonce, allowance>>
        /\ maxSellAmount' <= CANARY_MAX_SELL_WETH
        /\ execWeth' = execWeth /\ wethGiven' = wethGiven
    BY <2>1 DEF execVars, configVars, replayVars, custodyVars, ExecInv,
                CapUnderCeiling
  <2>4. execWeth' - execWeth = wethGiven' - wethGiven
    BY <2>3 DEF ExecInv, ExecTypeOK
  <2> QED  BY <2>2, <2>3, <2>4, QuietPreserves
<1> QED  BY <1>1, <1>2, ControlPreserves, MarketPreserves DEF ExecNext

LEMMA ExecInvAlways == ExecSpec => []ExecInv
BY ExecStarts, ExecNextInv, PTL DEF ExecSpec

(* The executor's storage and the events stay in range: executeSettlement, *)
(* recover and the router's pulls never underflow a balance.               *)
THEOREM ExecutorTyped == ExecSpec => []ExecTypeOK
<1>1. ExecInv => ExecTypeOK
  BY DEF ExecInv
<1> QED  BY <1>1, ExecInvAlways, PTL

(* executeSettlement's replay protection: a nonce is settled once, across  *)
(* pauses, reconfigurations, recoveries and changes of controller.         *)
THEOREM NonceSettledOnce == ExecSpec => []SettledOnce
<1>1. ExecInv => SettledOnce
  BY DEF ExecInv
<1> QED  BY <1>1, ExecInvAlways, PTL

(* executeSettlement, forceApprove(router, 0) and recover: whatever the    *)
(* opaque router does then or later, the WETH that left the executor is    *)
(* the WETH of settlements within their intent and the canary ceiling.     *)
THEOREM OnlySettlementsSpend == ExecSpec => []SpendingBounded
<1>1. ExecInv => SpendingBounded
  BY DEF ExecInv
<1> QED  BY <1>1, ExecInvAlways, PTL

(* ChainlinkSettlementPriceGuard.check and the executor's minimum: for     *)
(* every pair of decimals and every answer the feeds give, the three       *)
(* roundings never let a settlement below 99% of the fair value.           *)
THEOREM FairValueHeld == ExecSpec => []NeverBelowFairValue
<1>1. ExecInv => NeverBelowFairValue
  BY DEF ExecInv
<1> QED  BY <1>1, ExecInvAlways, PTL

(* executeSettlement: every settlement ran the registry's router of that   *)
(* moment, with the approved code, at a price of two live feeds.           *)
THEOREM ReviewedCodeOnly == ExecSpec => SettledOnReviewedCode
<1> DEFINE A == settled' # settled => OnReviewedCode(settled'[Len(settled')])
<1>1. ExecInv /\ [ExecNext]_allExecVars => [A]_allExecVars
  <2> SUFFICES ASSUME ExecInv, ExecNext, settled' # settled
               PROVE  OnReviewedCode(settled'[Len(settled')])
    BY DEF ExecInv
  <2>1. ~ControlStep /\ ~MarketStep
    BY DEF ControlStep, MarketStep, Configure, PauseExecutor, UnpauseExecutor,
           ExecOwnership, Recover, RotateRouter, execVars
  <2>2. PICK caller \in Callers, p \in Intents, received \in StockOutputs :
            \E taken \in 0 .. p.sellAmount :
                ExecuteSettlement(caller, p, taken, received)
    BY <2>1 DEF ExecNext, SettleStep, FundExecutor, RouterPulls
  <2>3. PICK taken \in 0 .. p.sellAmount :
            ExecuteSettlement(caller, p, taken, received)
    BY <2>2
  <2> DEFINE x == Recorded(p, taken, received)
  <2>4. settled' = Append(settled, x) /\ x \in Settlement /\ OnReviewedCode(x)
    BY <2>3, SettlementRecorded
  <2>5. settled \in Seq(Settlement)
    BY DEF ExecInv, ExecTypeOK
  <2> HIDE DEF x
  <2>6. settled'[Len(settled')] = x
    BY <2>4, <2>5
  <2> QED  BY <2>4, <2>6
<1> QED  BY <1>1, ExecInvAlways, PTL DEF ExecSpec, SettledOnReviewedCode

----------------------------------------------------------------------------
(* The off-chain client *)

WorldTypeOK ==
    /\ now \in Times
    /\ FeedTypeOK
    /\ registry \in [current : Routers, previous : Routers \cup {None},
                     next : Routers \cup {None}, paused : BOOLEAN]
    /\ routersAt \in [Times -> SUBSET Routers]

(* routersAt is up to date *)
ActiveRecorded == ActiveRouters \subseteq routersAt[now]

PriceRead == [weth : Feed, nvda : Feed, oraclePaused : BOOLEAN,
              sequencer : [up : BOOLEAN, startedAt : Times]]

ClientTypeOK ==
    /\ pc \in {"fetch", "resolve", "structural", "read-weth", "read-nvda",
               "price", "observe", "evaluate", "ready"}
    /\ policy \in Policies
    /\ read \in PriceRead
    /\ pc # "fetch" => quote.sellAmount \in Int /\ quote.minBuy \in Nat

(* What the price guard accepted is still what the run holds. *)
PriceHeld ==
    pc \in {"observe", "evaluate"} =>
        /\ read.weth.answer > 0 /\ read.nvda.answer > 0
        /\ quote.minBuy >= MinAllowed(policy.raw, read, quote.sellAmount)

(* The dated observation is of an earlier moment, dated by a clock that    *)
(* may run ahead.                                                          *)
ObservationTrue ==
    pc = "evaluate" =>
        /\ \E t \in Times :
               /\ t <= now
               /\ regObs.paused \/ regObs.current \in routersAt[t]
               /\ regObs.at = None \/ \E s \in Skews : regObs.at = t + s
        /\ refObs.sell = wethTokenUnit /\ refObs.buy \in Int

ClientInv ==
    /\ WorldTypeOK
    /\ ActiveRecorded
    /\ ClientTypeOK
    /\ PriceHeld
    /\ ObservationTrue
    /\ PlannedRouterWasActive
    /\ PlannedMinimumInBand

(* A product of positive numbers. *)
LEMMA PositiveTimes ==
    ASSUME NEW x \in Nat \ {0}, NEW y \in Nat \ {0}
    PROVE  x * y \in Nat \ {0}
OBVIOUS

LEMMA FeedAnswer ==
    ASSUME NEW f \in Feed
    PROVE  f.answer \in Int
<1>1. f.answer \in Answers \cup {0}
  BY DEF Feed
<1>2. Answers \cup {0} \subseteq Int
  <2>1. Answers \subseteq Int
    BY GuardAssumption
  <2> QED  BY <2>1
<1> QED  BY <1>1, <1>2

(* A test that is not among the failing ones does not hold. *)
LEMMA NoneFails ==
    ASSUME NEW T, Failing(T) = {}, NEW f \in DOMAIN T
    PROVE  ~T[f]
BY DEF Failing

(* The two sides of the fair output's fraction *)
LEMMA FairParts ==
    ASSUME NEW raw \in BOOLEAN, NEW r, NEW sell \in Int,
           r.weth.answer \in Nat \ {0}, r.nvda.answer \in Nat \ {0}
    PROVE  /\ FairNumerator(raw, r, sell) \in Int
           /\ FairDenominator(raw, r) \in Nat \ {0}
<1>1. /\ PerTokenNum(raw, r.nvda) \in Nat \ {0}
      /\ PerTokenDen(raw) \in Nat \ {0}
  BY ClientAssumption, PositiveTimes DEF PerTokenNum, PerTokenDen
<1>2. /\ wethTokenUnit \in Nat \ {0} /\ wethFeedUnit \in Nat \ {0}
      /\ nvdaTokenUnit \in Nat \ {0} /\ nvdaFeedUnit \in Nat \ {0}
  BY GuardAssumption
<1>3. FairDenominator(raw, r) \in Nat \ {0}
  <2>1. wethTokenUnit * wethFeedUnit \in Nat \ {0}
    BY <1>2, PositiveTimes
  <2> QED  BY <1>1, <2>1, PositiveTimes DEF FairDenominator
<1>4. FairNumerator(raw, r, sell) \in Int
  <2> DEFINE a == sell * r.weth.answer
             b == a * nvdaFeedUnit
             c == b * nvdaTokenUnit
  <2>1. a \in Int
    OBVIOUS
  <2> HIDE DEF a
  <2>2. b \in Int
    BY <1>2, <2>1
  <2> HIDE DEF b
  <2>3. c \in Int
    BY <1>2, <2>2
  <2> HIDE DEF c
  <2>4. c * PerTokenDen(raw) \in Int
    BY <1>1, <2>3
  <2> QED  BY <2>4 DEF FairNumerator, a, b, c
<1> QED  BY <1>3, <1>4

(* A quotient's floor *)
LEMMA FloorBetween ==
    ASSUME NEW a \in Int, NEW b \in Nat \ {0}
    PROVE  /\ a \div b \in Int
           /\ (a \div b) * b <= a
           /\ a < (a \div b) * b + b
<1> DEFINE q == a \div b
           r == a % b
<1>1. a = b * q + r /\ 0 <= r /\ r < b /\ q \in Int /\ r \in Int
  OBVIOUS
<1> HIDE DEF q, r
<1>2. b * q = q * b /\ q * b \in Int
  BY <1>1
<1>3. q \in Int /\ q * b <= a /\ a < q * b + b
  BY <1>1, <1>2
<1> QED  BY <1>3 DEF q

(* The lower edge of the band: two floors lose less than two units.        *)
LEMMA MinimumCovers ==
    ASSUME NEW n \in Int, NEW d \in Nat \ {0}, NEW m \in Int,
           m >= ((n \div d) * 9900) \div 10000
    PROVE  (m + 2) * 10000 * d > n * 9900
<1> DEFINE e == n \div d
           f == (e * 9900) \div 10000
<1>1. e \in Int /\ n < e * d + d /\ e * d \in Int
  BY FloorBetween
<1> HIDE DEF e
<1>2. f \in Int /\ e * 9900 < f * 10000 + 10000
  BY <1>1, FloorBetween
<1>3. m >= f
  BY DEF e
<1> HIDE DEF f
<1>4. /\ (m + 1) * 10000 \in Int /\ e * 9900 \in Int
      /\ (m + 1) * 10000 >= e * 9900
  BY <1>1, <1>2, <1>3
<1>5. ((m + 1) * 10000) * d >= (e * 9900) * d
  BY <1>4, TimesMonotone
<1>6. (e * 9900) * d = (e * d) * 9900
  BY <1>1
<1>7. ((m + 1) * 10000) * d = (m * d) * 10000 + d * 10000
  OBVIOUS
<1>8. (m + 2) * 10000 * d = (m * d) * 10000 + d * 20000
  OBVIOUS
<1> DEFINE md == m * d
           ed == e * d
<1>9. md \in Int /\ ed \in Int
  BY <1>1
<1>10. md * 10000 + d * 10000 >= ed * 9900 /\ n < ed + d
  BY <1>1, <1>5, <1>6, <1>7
<1> HIDE DEF md, ed
<1>11. md * 10000 + d * 20000 > n * 9900
  BY <1>9, <1>10
<1> QED  BY <1>8, <1>11 DEF md

(* The upper edge: both floors go down. *)
LEMMA MaximumCovers ==
    ASSUME NEW b \in Int, NEW s \in Int, NEW d \in Nat \ {0}, NEW m \in Int,
           m <= (((b * s) \div d) * 10100) \div 10000
    PROVE  m * 10000 * d <= b * s * 10100
<1> DEFINE n == b * s
           e == n \div d
           f == (e * 10100) \div 10000
<1>1. n \in Int
  OBVIOUS
<1>2. m <= f
  OBVIOUS
<1>3. b * s * 10100 = n * 10100
  OBVIOUS
<1> HIDE DEF n
<1>4. e \in Int /\ e * d <= n /\ e * d \in Int
  BY <1>1, FloorBetween
<1> HIDE DEF e
<1>5. f \in Int /\ f * 10000 <= e * 10100
  BY <1>4, FloorBetween
<1> HIDE DEF f
<1>6. m * 10000 \in Int /\ e * 10100 \in Int /\ e * 10100 >= m * 10000
  BY <1>2, <1>4, <1>5
<1>7. (e * 10100) * d >= (m * 10000) * d
  BY <1>6, TimesMonotone
<1>8. (e * 10100) * d = (e * d) * 10100
  BY <1>4
<1>9. (e * d) * 10100 <= n * 10100
  <2> DEFINE ed == e * d
  <2>1. ed \in Int /\ ed <= n
    BY <1>4
  <2> HIDE DEF ed
  <2>2. ed * 10100 <= n * 10100
    BY <1>1, <2>1
  <2> QED  BY <2>2 DEF ed
<1>10. /\ (e * d) * 10100 \in Int /\ n * 10100 \in Int
       /\ (m * 10000) * d \in Int
  BY <1>1, <1>4, <1>6
<1> QED  BY <1>3, <1>7, <1>8, <1>9, <1>10

(* The world's steps *)

LEMMA WorldStarts ==
    ASSUME WorldStart
    PROVE  WorldTypeOK /\ ActiveRecorded
<1>1. ActiveRouters \subseteq Routers
  BY DEF WorldStart, ActiveRouters
<1>2. routersAt \in [Times -> SUBSET Routers] /\ routersAt[now] = ActiveRouters
  BY <1>1 DEF WorldStart
<1> QED  BY <1>2 DEF WorldStart, WorldTypeOK, ActiveRecorded

(* Routers are only added to the record. *)
LEMMA WorldMoves ==
    ASSUME WorldTypeOK, ActiveRecorded, WorldStep
    PROVE  /\ WorldTypeOK' /\ ActiveRecorded' /\ now <= now'
           /\ \A t \in Times : routersAt[t] \subseteq routersAt'[t]
           /\ UNCHANGED clientVars
<1>1. /\ now' \in Times /\ now <= now' /\ FeedTypeOK'
      /\ registry' \in [current : Routers, previous : Routers \cup {None},
                        next : Routers \cup {None}, paused : BOOLEAN]
  <2>1. CASE MoveRegistry
    <3>1. /\ now' = now /\ UNCHANGED feedVars
          /\ \/ \E r \in Routers \ {registry.current} :
                   registry' = [registry EXCEPT !.current = r,
                                                !.previous = registry.current]
             \/ registry' = [registry EXCEPT !.paused = ~@]
      BY <2>1 DEF MoveRegistry
    <3>2. registry' \in [current : Routers, previous : Routers \cup {None},
                         next : Routers \cup {None}, paused : BOOLEAN]
      BY <3>1 DEF WorldTypeOK
    <3>3. now' \in Times /\ now <= now'
      <4>1. now' = now /\ now \in Times
        BY <3>1 DEF WorldTypeOK
      <4> QED  BY <4>1, ChainAssumption DEF Times
    <3>4. FeedTypeOK'
      BY <3>1 DEF WorldTypeOK, FeedTypeOK, feedVars
    <3> QED  BY <3>2, <3>3, <3>4
  <2>2. CASE FeedStep /\ UNCHANGED <<now, registry>>
    BY <2>2, FeedTypes, ChainAssumption DEF WorldTypeOK, Times
  <2>3. CASE Tick /\ UNCHANGED <<feedVars, registry, moves>>
    BY <2>3, ChainAssumption
       DEF Tick, WorldTypeOK, FeedTypeOK, feedVars, Times
  <2> QED  BY <2>1, <2>2, <2>3 DEF WorldStep
<1> DEFINE X == IF registry'.paused THEN {} ELSE {registry'.current}
<1>2. X \subseteq Routers /\ X = ActiveRouters'
  BY <1>1 DEF ActiveRouters
<1>3. routersAt' = [routersAt EXCEPT ![now'] = @ \cup X]
  BY DEF WorldStep
<1> HIDE DEF X
<1>4. /\ routersAt' \in [Times -> SUBSET Routers]
      /\ routersAt'[now'] = routersAt[now'] \cup X
      /\ \A t \in Times : routersAt[t] \subseteq routersAt'[t]
  BY <1>1, <1>2, <1>3 DEF WorldTypeOK
<1> QED  BY <1>1, <1>2, <1>4 DEF WorldTypeOK, ActiveRecorded, WorldStep

LEMMA WorldStays ==
    ASSUME WorldTypeOK, ActiveRecorded, UNCHANGED worldVars
    PROVE  WorldTypeOK' /\ ActiveRecorded'
BY DEF WorldTypeOK, ActiveRecorded, ActiveRouters, FeedTypeOK, feedVars, worldVars

(* A plan stays right while the record grows. *)
LEMMA PlanStays ==
    ASSUME PlannedRouterWasActive, PlannedMinimumInBand,
           UNCHANGED <<plan, policy>>,
           \A t \in Times : routersAt[t] \subseteq routersAt'[t]
    PROVE  PlannedRouterWasActive' /\ PlannedMinimumInBand'
<1>1. PlannedMinimumInBand'
  BY DEF PlannedMinimumInBand
<1>2. PlannedRouterWasActive'
  BY DEF PlannedRouterWasActive
<1> QED  BY <1>1, <1>2

LEMMA NoPlan ==
    ASSUME plan' = None
    PROVE  PlannedRouterWasActive' /\ PlannedMinimumInBand'
BY DEF PlannedRouterWasActive, PlannedMinimumInBand

LEMMA WorldKeepsClient ==
    ASSUME ClientInv, WorldStep
    PROVE  ClientInv'
<1>1. /\ WorldTypeOK' /\ ActiveRecorded' /\ now <= now'
      /\ \A t \in Times : routersAt[t] \subseteq routersAt'[t]
      /\ UNCHANGED clientVars
  BY WorldMoves DEF ClientInv
<1>2. ClientTypeOK'
  BY <1>1 DEF ClientInv, ClientTypeOK, clientVars
<1>3. PriceHeld'
  BY <1>1 DEF ClientInv, PriceHeld, clientVars, MinAllowed, ExpectedOut,
              FairNumerator, FairDenominator, PerTokenNum, PerTokenDen
<1>4. ObservationTrue'
  <2> SUFFICES ASSUME pc' = "evaluate" PROVE ObservationTrue'
    BY DEF ObservationTrue
  <2>1. PICK t \in Times :
            /\ t <= now
            /\ regObs.paused \/ regObs.current \in routersAt[t]
            /\ regObs.at = None \/ \E s \in Skews : regObs.at = t + s
    BY <1>1 DEF ClientInv, ObservationTrue, clientVars
  <2>2. t <= now'
    <3>1. t \in Int /\ now \in Int /\ now' \in Int
      BY <1>1, ChainAssumption DEF Times, ClientInv, WorldTypeOK
    <3> QED  BY <1>1, <2>1, <3>1
  <2>3. /\ regObs'.paused \/ regObs'.current \in routersAt'[t]
        /\ regObs'.at = None \/ \E s \in Skews : regObs'.at = t + s
    BY <1>1, <2>1 DEF clientVars
  <2>4. refObs'.sell = wethTokenUnit /\ refObs'.buy \in Int
    BY <1>1 DEF ClientInv, ObservationTrue, clientVars
  <2> QED  BY <2>2, <2>3, <2>4 DEF ObservationTrue
<1>5. PlannedRouterWasActive' /\ PlannedMinimumInBand'
  BY <1>1, PlanStays DEF ClientInv, clientVars
<1> QED  BY <1>1, <1>2, <1>3, <1>4, <1>5 DEF ClientInv

(* The client's steps.  What a run has read so far is forgotten when a     *)
(* check fails.                                                            *)
LEMMA NoReadTyped == NoRead \in PriceRead
BY ChainAssumption DEF NoRead, PriceRead, NoRound, Feed, Times

LEMMA GiveUpKeeps ==
    ASSUME ClientInv, GiveUp, UNCHANGED worldVars
    PROVE  ClientInv'
<1>1. WorldTypeOK' /\ ActiveRecorded'
  BY WorldStays DEF ClientInv
<1>2. ClientTypeOK' /\ PriceHeld' /\ ObservationTrue'
  BY NoReadTyped DEF GiveUp, ClientInv, ClientTypeOK, PriceHeld, ObservationTrue
<1>3. PlannedRouterWasActive' /\ PlannedMinimumInBand'
  BY NoPlan DEF GiveUp
<1> QED  BY <1>1, <1>2, <1>3 DEF ClientInv

(* A step that only goes on, to a place before the price check's end *)
LEMMA GoesOn ==
    ASSUME ClientInv, UNCHANGED <<worldVars, policy, plan>>,
           pc' \in {"resolve", "structural", "read-weth", "read-nvda", "price"},
           read' \in PriceRead,
           quote'.sellAmount \in Int, quote'.minBuy \in Nat
    PROVE  ClientInv'
<1>1. WorldTypeOK' /\ ActiveRecorded'
  BY WorldStays DEF ClientInv
<1>2. ClientTypeOK' /\ PriceHeld' /\ ObservationTrue'
  BY DEF ClientInv, ClientTypeOK, PriceHeld, ObservationTrue
<1>3. PlannedRouterWasActive' /\ PlannedMinimumInBand'
  BY PlanStays DEF ClientInv, worldVars
<1> QED  BY <1>1, <1>2, <1>3 DEF ClientInv

(* decimalToBaseUnits returns an integer, or null. *)
LEMMA BaseUnitsInteger ==
    ASSUME NEW d, d.int \in Int, d.frac \in Int, d.digits \in Nat,
           SELL_TOKEN_DECIMALS \in Nat, DecimalToBaseUnits(d) # None
    PROVE  DecimalToBaseUnits(d) \in Int
<1> DEFINE k == SELL_TOKEN_DECIMALS
           n == k - d.digits
<1>1. /\ DecimalToBaseUnits(d) = d.int * 10 ^ k + d.frac * 10 ^ n
      /\ d.digits <= k
  BY DEF DecimalToBaseUnits
<1>2. n \in Nat
  BY <1>1
<1> HIDE DEF n, k
<1>3. 10 ^ n \in Int
  BY <1>2
<1>4. 10 ^ k \in Int
  BY DEF k
<1> QED  BY <1>1, <1>3, <1>4

LEMMA EarlyStepsKeep ==
    ASSUME ClientInv, UNCHANGED worldVars,
           Fetch \/ ResolveRouter \/ CheckStructure \/ ReadPrice
    PROVE  ClientInv'
<1>1. read \in PriceRead
  BY DEF ClientInv, ClientTypeOK
<1>2. ASSUME pc # "fetch" PROVE quote.sellAmount \in Int /\ quote.minBuy \in Nat
  BY <1>2 DEF ClientInv, ClientTypeOK
<1>3. CASE Fetch
  <2>1. PICK d \in Decimals, q \in VenueQuotes :
            /\ DecimalToBaseUnits(d) # None
            /\ QuoteValid(q, d)
            /\ quote' = q
    BY <1>3 DEF Fetch
  <2>2. q.sellAmount \in Int
    <3>1. d.int \in Int /\ d.frac \in Int /\ d.digits \in Nat
          /\ SELL_TOKEN_DECIMALS \in Nat
      BY ClientAssumption
    <3> QED  BY <2>1, <3>1, BaseUnitsInteger DEF QuoteValid
  <2>3. q.minBuy \in Nat
    BY ClientAssumption
  <2> QED  BY <1>1, <1>3, <2>1, <2>2, <2>3, GoesOn DEF Fetch, Continue
<1>4. CASE ResolveRouter
  BY <1>1, <1>2, <1>4, GoesOn DEF ResolveRouter, Continue
<1>5. CASE CheckStructure
  BY <1>1, <1>2, <1>5, GoesOn, GiveUpKeeps DEF CheckStructure, Continue
<1>6. CASE ReadPrice
  <2>1. [read EXCEPT !.weth = wethFeed] \in PriceRead
        /\ [LiveRead EXCEPT !.weth = read.weth] \in PriceRead
    BY <1>1 DEF ClientInv, WorldTypeOK, FeedTypeOK, PriceRead, LiveRead
  <2> QED  BY <1>2, <1>6, <2>1, GoesOn DEF ReadPrice, Continue
<1> QED  BY <1>3, <1>4, <1>5, <1>6

LEMMA CheckPriceKeeps ==
    ASSUME ClientInv, UNCHANGED worldVars, CheckPrice
    PROVE  ClientInv'
<1>1. CASE ~ PriceAccepted(policy, read, quote.sellAmount, quote.minBuy, now)
  BY <1>1, GiveUpKeeps DEF CheckPrice
<1>2. CASE PriceAccepted(policy, read, quote.sellAmount, quote.minBuy, now)
  <2>1. /\ pc = "price" /\ pc' = "observe"
        /\ UNCHANGED <<policy, plan, quote, read>>
    BY <1>2 DEF CheckPrice, Continue
  <2>2. WorldTypeOK' /\ ActiveRecorded'
    BY WorldStays DEF ClientInv
  <2>3. ClientTypeOK' /\ ObservationTrue'
    BY <2>1 DEF ClientInv, ClientTypeOK, ObservationTrue
  <2>4. /\ read.weth.answer > 0 /\ read.nvda.answer > 0
        /\ quote.minBuy >= MinAllowed(policy.raw, read, quote.sellAmount)
    BY <1>2 DEF PriceAccepted, FeedAccepted
  <2>5. PriceHeld'
    BY <2>1, <2>4 DEF PriceHeld, MinAllowed, ExpectedOut, FairNumerator,
                      FairDenominator, PerTokenNum, PerTokenDen
  <2>6. PlannedRouterWasActive' /\ PlannedMinimumInBand'
    BY <2>1, PlanStays DEF ClientInv, worldVars
  <2> QED  BY <2>2, <2>3, <2>5, <2>6 DEF ClientInv
<1> QED  BY <1>1, <1>2

LEMMA ObserveKeeps ==
    ASSUME ClientInv, UNCHANGED worldVars, Observe
    PROVE  ClientInv'
<1>1. /\ pc = "observe" /\ pc' = "evaluate"
      /\ UNCHANGED <<policy, plan, quote, read>>
  BY DEF Observe, Continue
<1>2. WorldTypeOK' /\ ActiveRecorded'
  BY WorldStays DEF ClientInv
<1>3. ClientTypeOK' /\ PriceHeld'
  BY <1>1 DEF ClientInv, ClientTypeOK, PriceHeld, MinAllowed, ExpectedOut,
              FairNumerator, FairDenominator, PerTokenNum, PerTokenDen
<1>4. ObservationTrue'
  <2>1. PICK at \in {None} \cup {now + s : s \in Skews} :
            regObs' = [current |-> registry.current,
                       paused |-> registry.paused, at |-> at]
    BY DEF Observe
  <2>2. now \in Times /\ now <= now'
    BY ChainAssumption DEF ClientInv, WorldTypeOK, Times, worldVars
  <2>3. regObs'.paused \/ regObs'.current \in routersAt'[now]
    BY <2>1 DEF ClientInv, ActiveRecorded, ActiveRouters, worldVars
  <2>4. regObs'.at = None \/ \E s \in Skews : regObs'.at = now + s
    BY <2>1
  <2>5. refObs'.sell = wethTokenUnit
        /\ refObs'.buy = IF wethFeed.answer > 0 /\ nvdaFeed.answer > 0
                         THEN ExpectedOut(policy.raw, LiveRead, wethTokenUnit)
                         ELSE 0
    BY DEF Observe
  <2>6. ASSUME wethFeed.answer > 0, nvdaFeed.answer > 0
        PROVE  ExpectedOut(policy.raw, LiveRead, wethTokenUnit) \in Int
    <3>1. /\ LiveRead.weth.answer \in Nat \ {0}
          /\ LiveRead.nvda.answer \in Nat \ {0}
      <4>1. wethFeed \in Feed /\ nvdaFeed \in Feed
        BY DEF ClientInv, WorldTypeOK, FeedTypeOK
      <4>2. wethFeed.answer \in Int /\ nvdaFeed.answer \in Int
        BY <4>1, FeedAnswer
      <4> QED  BY <2>6, <4>2 DEF LiveRead
    <3>2. policy.raw \in BOOLEAN /\ wethTokenUnit \in Int
      BY ClientAssumption, GuardAssumption DEF ClientInv, ClientTypeOK
    <3>3. /\ FairNumerator(policy.raw, LiveRead, wethTokenUnit) \in Int
          /\ FairDenominator(policy.raw, LiveRead) \in Nat \ {0}
      BY <3>1, <3>2, FairParts
    <3> QED  BY <3>3, FloorBetween DEF ExpectedOut
  <2>7. refObs'.buy \in Int
    BY <2>5, <2>6
  <2> QED  BY <2>2, <2>3, <2>4, <2>5, <2>7 DEF ObservationTrue
<1>5. PlannedRouterWasActive' /\ PlannedMinimumInBand'
  BY <1>1, PlanStays DEF ClientInv, worldVars
<1> QED  BY <1>2, <1>3, <1>4, <1>5 DEF ClientInv

(* The verdict *)
LEMMA EvaluateKeeps ==
    ASSUME ClientInv, UNCHANGED worldVars, EvaluateIntent
    PROVE  ClientInv'
<1>1. SUFFICES
        ASSUME NEW life \in Lifetimes, NEW nonce \in {1, 2},
               NEW bad \in {None, "WRONG_CHAIN"},
               NEW i,
               i = [BuildIntent(quote, nonce, life) EXCEPT !.misbound = bad],
               Evaluate(policy, i, regObs, refObs, spent, now) = {},
               plan' = [intent |-> i, at |-> now, read |-> read, ref |-> refObs],
               pc = "evaluate", pc' = "ready",
               UNCHANGED <<policy, quote, router, read, regObs, refObs>>
        PROVE  ClientInv'
  BY GiveUpKeeps DEF EvaluateIntent
<1>2. WorldTypeOK' /\ ActiveRecorded'
  BY WorldStays DEF ClientInv
<1>3. ClientTypeOK' /\ PriceHeld' /\ ObservationTrue'
  BY <1>1 DEF ClientInv, ClientTypeOK, PriceHeld, ObservationTrue
<1>4. /\ i.target = quote.target /\ i.sell = quote.sellAmount
      /\ i.minBuy = quote.minBuy
  BY <1>1 DEF BuildIntent
<1>5. /\ RegistryFailures(policy, i, regObs, now) = {}
      /\ PriceFailures(policy, i, refObs, now) = {}
  BY <1>1 DEF Evaluate
<1>6. PlannedRouterWasActive'
  <2>1. /\ Reconcile(i.target, regObs) = "OK"
        /\ regObs.at # None /\ policy.registryAge # None
        /\ ~ (now - regObs.at > policy.registryAge)
    <3> DEFINE T == [REGISTRY_PAUSED |-> Reconcile(i.target, regObs) = "FEATURE_PAUSED",
                     ROUTER_MISMATCH |->
                         Reconcile(i.target, regObs) \notin {"FEATURE_PAUSED", "OK"},
                     REGISTRY_OBSERVATION_STALE |->
                         regObs.at = None \/ policy.registryAge = None
                           \/ now - regObs.at > policy.registryAge
                           \/ regObs.at > now]
    <3>1. Failing(T) = {}
      BY <1>5 DEF RegistryFailures
    <3>2. {"REGISTRY_PAUSED", "ROUTER_MISMATCH", "REGISTRY_OBSERVATION_STALE"}
              \subseteq DOMAIN T
      OBVIOUS
    <3>3. /\ ~T["REGISTRY_PAUSED"] /\ ~T["ROUTER_MISMATCH"]
          /\ ~T["REGISTRY_OBSERVATION_STALE"]
      <4> HIDE DEF T
      <4> QED  BY <3>1, <3>2, NoneFails
    <3> QED  BY <3>3
  <2>2. i.target = regObs.current /\ ~regObs.paused
    BY <2>1 DEF Reconcile
  <2>3. PICK t \in Times :
            /\ t <= now
            /\ regObs.paused \/ regObs.current \in routersAt[t]
            /\ regObs.at = None \/ \E s \in Skews : regObs.at = t + s
    BY <1>1 DEF ClientInv, ObservationTrue
  <2>4. PICK s \in Skews : regObs.at = t + s
    BY <2>1, <2>3
  <2>5. /\ t \in Int /\ s \in Int /\ now \in Int /\ policy.registryAge \in Int
    BY <2>1, ClientAssumption, ChainAssumption
       DEF Times, ClientInv, WorldTypeOK, ClientTypeOK
  <2>6. t + s >= now - policy.registryAge
    BY <2>1, <2>4, <2>5
  <2>7. i.target \in routersAt'[t]
    BY <2>2, <2>3 DEF worldVars
  <2>8. /\ plan'.at = now /\ plan'.intent.target = i.target
        /\ policy' = policy
    BY <1>1
  <2> QED  BY <2>3, <2>6, <2>7, <2>8 DEF PlannedRouterWasActive
<1>7. PlannedMinimumInBand'
  <2> DEFINE m == i.minBuy
             s == i.sell
             N == FairNumerator(policy.raw, read, s)
             D == FairDenominator(policy.raw, read)
  <2>1. m \in Int /\ s \in Int
    BY <1>1, <1>4 DEF ClientInv, ClientTypeOK
  <2>2. N \in Int /\ D \in Nat \ {0}
    <3>1. read.weth \in Feed /\ read.nvda \in Feed
      BY DEF ClientInv, ClientTypeOK, PriceRead
    <3>2. read.weth.answer \in Int /\ read.nvda.answer \in Int
      BY <3>1, FeedAnswer
    <3>3. read.weth.answer \in Nat \ {0} /\ read.nvda.answer \in Nat \ {0}
      BY <1>1, <3>2 DEF ClientInv, PriceHeld
    <3>4. policy.raw \in BOOLEAN
      BY ClientAssumption DEF ClientInv, ClientTypeOK
    <3> HIDE DEF s
    <3> QED  BY <2>1, <3>3, <3>4, FairParts
  <2>3. m >= ((N \div D) * 9900) \div 10000
    <3>1. m >= MinAllowed(policy.raw, read, s)
      BY <1>1, <1>4 DEF ClientInv, PriceHeld
    <3>2. MinAllowed(policy.raw, read, s) = ((N \div D) * 9900) \div 10000
      BY DEF MinAllowed, ExpectedOut, DEVIATION_BPS
    <3> QED  BY <3>1, <3>2
  <2>4. /\ refObs.sell = wethTokenUnit /\ refObs.buy \in Int
        /\ wethTokenUnit \in Nat \ {0}
    BY <1>1, GuardAssumption DEF ClientInv, ObservationTrue
  <2>5. m <= (((refObs.buy * s) \div refObs.sell) * 10100) \div 10000
    <3>1. ~ (m > PermittedMax(refObs, s))
      <4> DEFINE resolved == policy.sources # {} /\ policy.priceAge # None
                               /\ refObs.source \in policy.sources
                               /\ refObs.sell > 0 /\ refObs.buy > 0
                 fresh == now - refObs.at <= policy.priceAge /\ refObs.at <= now
                 T == [PRICE_SOURCE_UNRESOLVED |-> ~resolved,
                       PRICE_OBSERVATION_STALE |-> resolved /\ ~fresh,
                       PRICE_DEVIATION_EXCEEDED |-> resolved /\ fresh
                           /\ i.minBuy > PermittedMax(refObs, i.sell)]
      <4>1. Failing(T) = {}
        BY <1>5 DEF PriceFailures
      <4>2. {"PRICE_SOURCE_UNRESOLVED", "PRICE_OBSERVATION_STALE",
             "PRICE_DEVIATION_EXCEEDED"} \subseteq DOMAIN T
        OBVIOUS
      <4>3. /\ ~T["PRICE_SOURCE_UNRESOLVED"] /\ ~T["PRICE_OBSERVATION_STALE"]
            /\ ~T["PRICE_DEVIATION_EXCEEDED"]
        <5> HIDE DEF T
        <5> QED  BY <4>1, <4>2, NoneFails
      <4> QED  BY <4>3
    <3>2. PermittedMax(refObs, s)
            = (((refObs.buy * s) \div refObs.sell) * 10100) \div 10000
      BY DEF PermittedMax, DEVIATION_BPS
    <3> DEFINE x == (refObs.buy * s) \div refObs.sell
               y == (x * 10100) \div 10000
    <3> HIDE DEF m, s
    <3>3. x \in Int
      BY <2>1, <2>4, FloorBetween
    <3> HIDE DEF x
    <3>4. y \in Int
      BY <3>3, FloorBetween
    <3>5. ~ (m > y)
      BY <3>1, <3>2 DEF x
    <3> HIDE DEF y
    <3>6. m <= y
      BY <2>1, <3>4, <3>5
    <3> QED  BY <3>6 DEF y, x
  <2> HIDE DEF m, s, N, D
  <2>6. (m + 2) * 10000 * D > N * 9900
    BY <2>1, <2>2, <2>3, MinimumCovers
  <2>7. m * 10000 * refObs.sell <= refObs.buy * s * 10100
    BY <2>1, <2>4, <2>5, MaximumCovers
  <2>8. /\ plan'.intent = i /\ plan'.read = read /\ plan'.ref = refObs
        /\ policy' = policy
    BY <1>1
  <2> QED
    BY <2>6, <2>7, <2>8 DEF PlannedMinimumInBand, DEVIATION_BPS, m, s, N, D
<1> QED  BY <1>2, <1>3, <1>6, <1>7 DEF ClientInv

LEMMA ClientKeeps ==
    ASSUME ClientInv, [ClientStep \/ WorldStep]_<<worldVars, clientVars>>
    PROVE  ClientInv'
<1>1. CASE ClientStep
  <2>1. CASE Consume
    BY <1>1, <2>1, GiveUpKeeps DEF ClientStep, Consume
  <2> QED  BY <1>1, <2>1, EarlyStepsKeep, CheckPriceKeeps, ObserveKeeps,
              EvaluateKeeps DEF ClientStep
<1>2. CASE WorldStep
  BY <1>2, WorldKeepsClient
<1>3. CASE UNCHANGED <<worldVars, clientVars>>
  <2>1. WorldTypeOK' /\ ActiveRecorded'
    BY <1>3, WorldStays DEF ClientInv
  <2>2. ClientTypeOK' /\ PriceHeld'
    BY <1>3 DEF ClientInv, ClientTypeOK, PriceHeld, clientVars
  <2>3. ObservationTrue'
    BY <1>3 DEF ClientInv, ObservationTrue, clientVars, worldVars
  <2>4. PlannedRouterWasActive' /\ PlannedMinimumInBand'
    BY <1>3, PlanStays DEF ClientInv, clientVars, worldVars
  <2> QED  BY <2>1, <2>2, <2>3, <2>4 DEF ClientInv
<1> QED  BY <1>1, <1>2, <1>3

LEMMA ClientInvAlways == ClientSpec => []ClientInv
<1>1. WorldStart /\ ClientInit => ClientInv
  <2> SUFFICES ASSUME WorldStart, ClientInit PROVE ClientInv
    OBVIOUS
  <2>1. WorldTypeOK /\ ActiveRecorded
    BY WorldStarts
  <2>2. /\ ClientTypeOK /\ PriceHeld /\ ObservationTrue
        /\ PlannedRouterWasActive /\ PlannedMinimumInBand
    BY NoReadTyped DEF ClientInit, ClientTypeOK, PriceHeld, ObservationTrue,
       PlannedRouterWasActive, PlannedMinimumInBand
  <2> QED  BY <2>1, <2>2 DEF ClientInv
<1> QED  BY <1>1, ClientKeeps, PTL DEF ClientSpec

(* A plan names a router that was active no longer before the verdict than *)
(* the policy allows: for any rotations and pauses of the registry between *)
(* the quote, the observation and evaluateGuardedSettlement.               *)
THEOREM PlannedRouterActive == ClientSpec => []PlannedRouterWasActive
<1>1. ClientInv => PlannedRouterWasActive
  BY DEF ClientInv
<1> QED  BY <1>1, ClientInvAlways, PTL

(* The minimum of a plan, in exact arithmetic: for any answers, units and  *)
(* multiplier, the floors of price-guard.ts lose less than two units.      *)
THEOREM PlannedMinimumBanded == ClientSpec => []PlannedMinimumInBand
<1>1. ClientInv => PlannedMinimumInBand
  BY DEF ClientInv
<1> QED  BY <1>1, ClientInvAlways, PTL

(* The contract's ages are bounded by 900 seconds at construction, the     *)
(* off-chain policy's is configured apart: what the theorem below needs.   *)
AgesAgree == maxWethFeedAge <= maxStaleness /\ maxNvdaFeedAge <= maxStaleness

LEMMA FloorNatural ==
    ASSUME NEW n \in Nat, wethFeed.answer \in Nat, nvdaFeed.answer \in Nat \ {0}
    PROVE  FloorAmount(n, MAX_PRICE_DEVIATION_BPS) \in Nat
<1> DEFINE a == n * wethFeed.answer
           N == nvdaFeedUnit * nvdaTokenUnit
           D == wethFeedUnit * nvdaFeed.answer
           u == CeilDiv(a, wethTokenUnit)
           F == CeilDiv(u * N, D)
<1>1. a \in Nat /\ N \in Nat /\ D \in Nat \ {0} /\ wethTokenUnit \in Nat \ {0}
  BY GuardAssumption, PositiveTimes
<1>2. FloorAmount(n, MAX_PRICE_DEVIATION_BPS) = CeilDiv(F * 9900, 10000)
  BY DEF FloorAmount, FairOut, MAX_PRICE_DEVIATION_BPS, MAX_DEVIATION_CEILING_BPS
<1> HIDE DEF a, N, D
<1>3. u \in Nat
  BY <1>1, CeilDivCovers
<1> HIDE DEF u
<1>4. F \in Nat
  <2>1. u * N \in Nat
    BY <1>1, <1>3
  <2> QED  BY <1>1, <2>1, CeilDivCovers
<1> HIDE DEF F
<1>5. F * 9900 \in Nat /\ 10000 \in Nat \ {0}
  BY <1>4
<1>6. CeilDiv(F * 9900, 10000) \in Nat
  BY <1>5, CeilDivCovers
<1> QED  BY <1>2, <1>6

(* A floor of the exact quotient is under the guard's floor of three       *)
(* roundings up.                                                           *)
LEMMA FloorsCompare ==
    ASSUME WorldTypeOK, wethFeed.answer > 0, nvdaFeed.answer > 0,
           NEW raw \in BOOLEAN, ~raw, NEW sell \in Int,
           ExpectedOut(raw, LiveRead, sell) > 0
    PROVE  /\ sell > 0
           /\ FloorAmount(sell, DEVIATION_BPS) \in Int
           /\ FloorAmount(sell, DEVIATION_BPS) >= MinAllowed(raw, LiveRead, sell)
<1> DEFINE L == FloorAmount(sell, DEVIATION_BPS)
           N == FairNumerator(raw, LiveRead, sell)
           D == FairDenominator(raw, LiveRead)
           e == N \div D
<1>1. wethFeed.answer \in Nat \ {0} /\ nvdaFeed.answer \in Nat \ {0}
  <2>1. wethFeed \in Feed /\ nvdaFeed \in Feed
    BY DEF WorldTypeOK, FeedTypeOK
  <2>2. wethFeed.answer \in Int /\ nvdaFeed.answer \in Int
    BY <2>1, FeedAnswer
  <2> QED  BY <2>2
<1>2. LiveRead.weth = wethFeed /\ LiveRead.nvda = nvdaFeed
  BY DEF LiveRead
<1>3. N \in Int /\ D \in Nat \ {0}
  BY <1>1, <1>2, FairParts
<1>4. /\ N = sell * wethFeed.answer * nvdaFeedUnit * nvdaTokenUnit
      /\ N = sell * (wethFeed.answer * nvdaFeedUnit * nvdaTokenUnit)
  <2> DEFINE x == wethFeed.answer
             y == nvdaFeedUnit
             z == nvdaTokenUnit
  <2>1. N = sell * x * y * z * 1
    BY <1>2 DEF FairNumerator, PerTokenDen
  <2>2. x \in Int /\ y \in Int /\ z \in Int
    BY <1>1, GuardAssumption
  <2> HIDE DEF x, y, z, N
  <2>3. N = sell * x * y * z /\ N = sell * (x * y * z)
    BY <2>1, <2>2
  <2> QED  BY <2>3 DEF x, y, z
<1>5. D = wethTokenUnit * wethFeedUnit * nvdaFeed.answer
  BY <1>2 DEF FairDenominator, PerTokenNum
<1>6. MinAllowed(raw, LiveRead, sell) = (e * 9900) \div 10000
  BY DEF MinAllowed, ExpectedOut, DEVIATION_BPS
<1>7. L = FloorAmount(sell, MAX_PRICE_DEVIATION_BPS)
  BY DEF DEVIATION_BPS, MAX_PRICE_DEVIATION_BPS
<1>8. e \in Int /\ e * D <= N /\ e > 0
  <2>1. e > 0
    BY DEF ExpectedOut
  <2> HIDE DEF N, D
  <2> QED  BY <1>3, <2>1, FloorBetween
<1> HIDE DEF L, N, D, e
<1>9. sell > 0
  <2> DEFINE p == wethFeed.answer * nvdaFeedUnit * nvdaTokenUnit
  <2>1. p \in Nat
    <3>1. wethFeed.answer * nvdaFeedUnit \in Nat
      BY <1>1, GuardAssumption
    <3> QED  BY <3>1, GuardAssumption
  <2>2. N = sell * p
    BY <1>4
  <2>3. N > 0
    <3>1. e * D \in Nat \ {0}
      BY <1>3, <1>8, PositiveTimes
    <3> QED  BY <1>3, <1>8, <3>1
  <2> HIDE DEF p
  <2>4. ASSUME ~ (sell > 0) PROVE FALSE
    <3>1. 0 >= sell
      BY <2>4
    <3>2. 0 * p >= sell * p
      BY <2>1, <3>1, TimesMonotone
    <3> QED  BY <1>3, <2>1, <2>2, <2>3, <3>2
  <2> QED  BY <2>4
<1>10. sell \in Nat /\ L \in Nat
  BY <1>1, <1>7, <1>9, FloorNatural
<1>11. L * 10000 * D >= N * 9900
  <2>1. L >= FloorAmount(sell, MAX_PRICE_DEVIATION_BPS)
    BY <1>7, <1>10
  <2>2. L * wethTokenUnit * wethFeedUnit * nvdaFeed.answer * 10000
            >= sell * wethFeed.answer * nvdaFeedUnit * nvdaTokenUnit * 9900
    BY <1>1, <1>10, <2>1, FloorCoversFairValue, GuardAssumption
  <2>3. L * 10000 * D = L * wethTokenUnit * wethFeedUnit * nvdaFeed.answer * 10000
    <3> DEFINE x == wethTokenUnit
               y == wethFeedUnit
               z == nvdaFeed.answer
    <3>1. x \in Int /\ y \in Int /\ z \in Int /\ D = x * y * z
      BY <1>1, <1>5, GuardAssumption
    <3> HIDE DEF x, y, z
    <3>2. L * 10000 * (x * y * z) = L * x * y * z * 10000
      BY <1>10, <3>1
    <3> QED  BY <3>1, <3>2 DEF x, y, z
  <2> QED  BY <1>4, <2>2, <2>3
<1>12. L * 10000 >= e * 9900
  <2>1. (e * D) * 9900 <= N * 9900
    <3> DEFINE ed == e * D
    <3>1. ed \in Int /\ ed <= N
      BY <1>3, <1>8
    <3> HIDE DEF ed
    <3>2. ed * 9900 <= N * 9900
      BY <1>3, <3>1
    <3> QED  BY <3>2 DEF ed
  <2>2. (L * 10000) * D >= (e * 9900) * D
    <3>1. (e * 9900) * D = (e * D) * 9900
      BY <1>3, <1>8
    <3>2. /\ (L * 10000) * D \in Int /\ N * 9900 \in Int
          /\ (e * D) * 9900 \in Int
      BY <1>3, <1>8, <1>10
    <3> QED  BY <1>11, <2>1, <3>1, <3>2
  <2>3. ASSUME ~ (L * 10000 >= e * 9900) PROVE FALSE
    <3> DEFINE x == L * 10000
               y == e * 9900
    <3>1. x \in Int /\ y \in Int /\ y >= x + 1
      BY <1>8, <1>10, <2>3
    <3>2. x * D >= y * D
      BY <2>2
    <3> HIDE DEF x, y
    <3>3. y * D >= (x + 1) * D
      BY <1>3, <3>1, TimesMonotone
    <3>4. (x + 1) * D = x * D + D
      BY <1>3, <3>1
    <3>5. x * D \in Int /\ y * D \in Int
      BY <1>3, <3>1
    <3> QED  BY <1>3, <3>2, <3>3, <3>4, <3>5
  <2> QED  BY <2>3
<1>13. L >= (e * 9900) \div 10000
  <2> DEFINE f == (e * 9900) \div 10000
  <2>1. f \in Int /\ f * 10000 <= e * 9900
    BY <1>8, FloorBetween
  <2> HIDE DEF f
  <2>2. L >= f
    BY <1>8, <1>10, <1>12, <2>1
  <2> QED  BY <2>2 DEF f
<1>14. L \in Int /\ L >= MinAllowed(raw, LiveRead, sell)
  <2> DEFINE m == MinAllowed(raw, LiveRead, sell)
             f == (e * 9900) \div 10000
  <2>1. m = f /\ L >= f /\ L \in Nat
    BY <1>6, <1>10, <1>13
  <2> HIDE DEF m, f
  <2>2. L \in Int /\ L >= m
    BY <2>1
  <2> QED  BY <2>2 DEF m
<1> QED  BY <1>9, <1>14 DEF L

LEMMA MinimumNatural ==
    ASSUME WorldTypeOK, wethFeed.answer > 0, nvdaFeed.answer > 0,
           NEW raw \in BOOLEAN, NEW sell \in Int,
           ExpectedOut(raw, LiveRead, sell) > 0
    PROVE  MinAllowed(raw, LiveRead, sell) \in Nat
<1> DEFINE e == ExpectedOut(raw, LiveRead, sell)
<1>1. e \in Int
  <2>1. wethFeed \in Feed /\ nvdaFeed \in Feed
    BY DEF WorldTypeOK, FeedTypeOK
  <2>2. wethFeed.answer \in Int /\ nvdaFeed.answer \in Int
    BY <2>1, FeedAnswer
  <2>3. /\ LiveRead.weth.answer \in Nat \ {0}
        /\ LiveRead.nvda.answer \in Nat \ {0}
    BY <2>2 DEF LiveRead
  <2> QED  BY <2>3, FairParts, FloorBetween DEF ExpectedOut
<1>2. MinAllowed(raw, LiveRead, sell) = (e * (10000 - DEVIATION_BPS)) \div 10000
  BY DEF MinAllowed
<1>3. e > 0
  OBVIOUS
<1> HIDE DEF e
<1> DEFINE x == e * (10000 - DEVIATION_BPS)
<1>4. x \in Nat
  BY <1>1, <1>3 DEF DEVIATION_BPS
<1> HIDE DEF x
<1>5. x \div 10000 \in Nat
  BY <1>4
<1>6. MinAllowed(raw, LiveRead, sell) = x \div 10000
  BY <1>2 DEF x
<1> QED  BY <1>5, <1>6

(* The least minimum the contract's guard accepts at a moment the          *)
(* off-chain guard accepts too: two implementations of one check, for any  *)
(* feeds, units and amounts.                                               *)
THEOREM ChainGuardStricter ==
    ASSUME AgesAgree
    PROVE  ClientSpec => []ChainGuardIsStricter
<1>1. ASSUME ClientInv PROVE ChainGuardIsStricter
  <2>1. SUFFICES
          ASSUME NEW sell \in {DecimalToBaseUnits(d) : d \in Decimals} \ {None},
                 ~policy.raw, policy.cap # None, sell <= policy.cap,
                 sequencer.startedAt > 0,
                 wethFeed.answer > 0, nvdaFeed.answer > 0,
                 ExpectedOut(FALSE, LiveRead, sell) > 0,
                 PriceAcceptable(sell, FloorAmount(sell, DEVIATION_BPS),
                                 DEVIATION_BPS)
          PROVE  PriceAccepted(policy, LiveRead, sell,
                               FloorAmount(sell, DEVIATION_BPS), now)
    BY DEF ChainGuardIsStricter
  <2> DEFINE least == FloorAmount(sell, DEVIATION_BPS)
  <2>2. sell \in Int
    <3>1. PICK d \in Decimals : sell = DecimalToBaseUnits(d)
      BY <2>1
    <3>2. d.int \in Int /\ d.frac \in Int /\ d.digits \in Nat
          /\ SELL_TOKEN_DECIMALS \in Nat
      BY ClientAssumption
    <3> QED  BY <2>1, <3>1, <3>2, BaseUnitsInteger
  <2>10. policy.raw \in BOOLEAN /\ ~policy.raw
    BY <1>1, <2>1, ClientAssumption DEF ClientInv, ClientTypeOK
  <2>12. ExpectedOut(policy.raw, LiveRead, sell) > 0
    BY <2>1, <2>10 DEF ExpectedOut, FairNumerator, FairDenominator, PerTokenNum,
                       PerTokenDen
  <2>3. /\ sell > 0 /\ least \in Int
        /\ least >= MinAllowed(policy.raw, LiveRead, sell)
    BY <1>1, <2>1, <2>2, <2>10, <2>12, FloorsCompare DEF ClientInv
  <2> HIDE DEF least
  <2>4. /\ least # 0 /\ SequencerOk /\ ~oraclePaused
        /\ FeedFresh(wethFeed, maxWethFeedAge)
        /\ FeedFresh(nvdaFeed, maxNvdaFeedAge)
    <3>1. PriceAcceptable(sell, least, DEVIATION_BPS)
      BY <2>1 DEF least
    <3> QED  BY <3>1 DEF PriceAcceptable
  <2>5. /\ now \in Int /\ now = now
        /\ wethFeed.updatedAt \in Nat /\ nvdaFeed.updatedAt \in Nat
        /\ sequencer.startedAt \in Int
    <3>1. /\ now \in Times /\ wethFeed.updatedAt \in Times
          /\ nvdaFeed.updatedAt \in Times /\ sequencer.startedAt \in Times
      BY <1>1 DEF ClientInv, WorldTypeOK, FeedTypeOK, Feed
    <3> QED  BY <3>1, ChainAssumption DEF Times
  <2>6. ASSUME NEW f, NEW age \in Nat, f.updatedAt \in Nat, age <= maxStaleness,
               FeedFresh(f, age)
        PROVE  FeedAccepted(f, now)
    <3>1. maxStaleness \in Int
      BY ClientAssumption
    <3> QED  BY <2>5, <2>6, <3>1 DEF FeedFresh, FeedAccepted
  <2>7. FeedAccepted(wethFeed, now) /\ FeedAccepted(nvdaFeed, now)
    <3>1. maxWethFeedAge \in Nat /\ maxNvdaFeedAge \in Nat
      BY GuardAssumption
    <3> QED  BY <2>4, <2>5, <2>6, <3>1 DEF AgesAgree
  <2>8. SequencerAccepted(sequencer, now)
    <3>1. sequencerRecoveryGrace \in Int
      BY GuardAssumption
    <3> QED  BY <2>1, <2>4, <2>5, <3>1 DEF SequencerOk, SequencerAccepted
  <2>9. least > 0
    <3>1. MinAllowed(policy.raw, LiveRead, sell) \in Nat
      BY <1>1, <2>1, <2>2, <2>10, <2>12, MinimumNatural DEF ClientInv
    <3>2. least # 0
      BY <2>4
    <3> DEFINE m == MinAllowed(policy.raw, LiveRead, sell)
    <3>3. m \in Nat /\ least \in Int /\ least >= m
      BY <2>3, <3>1
    <3> HIDE DEF m
    <3> QED  BY <3>2, <3>3
  <2>11. /\ LiveRead.weth = wethFeed /\ LiveRead.nvda = nvdaFeed
         /\ LiveRead.oraclePaused = oraclePaused /\ LiveRead.sequencer = sequencer
    BY DEF LiveRead
  <2> QED
    BY <2>1, <2>3, <2>4, <2>7, <2>8, <2>9, <2>10, <2>11, <2>12
       DEF PriceAccepted, least
<1> QED  BY <1>1, ClientInvAlways, PTL

----------------------------------------------------------------------------
(* The preflight *)

(* the steps after each check, the last first *)
PastLock == {"report", "reported"}
PastConfig == PastLock \cup {"executor"}
PastOracle == PastConfig \cup {"config"}
PastNvda == PastOracle \cup {"oracle"}
PastNvdaIdentity == PastNvda \cup {"nvda-round"}
PastWeth == PastNvdaIdentity \cup {"nvda-identity"}
PastWethIdentity == PastWeth \cup {"weth-round"}
PastRouter == PastWethIdentity \cup {"weth-identity"}

(* the checks by name, or by the step they are made at *)
Ids == {"chain", "router", "router-code-hash", "execution-locked", "identity",
        "owner", "code"} \cup PastRouter

Flights ==
    [step : PastRouter \cup {"idle", "identity", "owner", "code"},
     config : Configs \cup {None}, nowSec : Times \cup {0},
     router : Routers \cup {None}, failed : SUBSET Ids, locked : BOOLEAN,
     status : {None, "ABORTED", "CANARY_NOT_READY",
               "CANARY_BUILD_READY_EXECUTION_LOCKED"},
     quiet : BOOLEAN, readFailed : BOOLEAN]

(* the facts behind the checks that a run has made when it comes to s *)
Facts(s) ==
    /\ s \in PastRouter => ~registry.paused /\ registry.current \in PinnedRouters
    /\ s \in PastWethIdentity => wethFeed.identical
    /\ s \in PastWeth => RoundOk(wethFeed, flight.config.wethAge)
    /\ s \in PastNvdaIdentity => nvdaFeed.identical
    /\ s \in PastNvda => RoundOk(nvdaFeed, flight.config.nvdaAge)
    /\ s \in PastOracle => ~oraclePaused
    /\ s \in PastConfig => ConfigOk(flight.config)
    /\ s \in PastLock => ExecutionLocked(flight.config)

FactsSoFar == Facts(flight.step)

(* a run that read the state as it still is *)
Undisturbed == flight.quiet /\ ~flight.readFailed /\ flight.config # None

(* What an undisturbed run has noted is what the state shows. *)
NotedRight ==
    Undisturbed =>
        /\ flight.step # "idle" /\ flight.nowSec = now
        /\ flight.step = "code" =>
               ~registry.paused /\ flight.router = registry.current
        /\ flight.failed = {} <=> FactsSoFar
        /\ flight.step \in PastLock =>
               (flight.locked <=> ExecutionLocked(flight.config))
        /\ flight.step = "reported" =>
               (flight.status = "CANARY_BUILD_READY_EXECUTION_LOCKED"
                  <=> flight.failed = {} /\ flight.locked)

PreflightInv == WorldTypeOK /\ ActiveRecorded /\ flight \in Flights /\ NotedRight

(* Where nothing but the run moves, the facts change with its step only.   *)
LEMMA SameFacts ==
    ASSUME flight \in Flights, UNCHANGED <<worldVars, executor>>,
           flight'.config = flight.config, flight'.nowSec = flight.nowSec
    PROVE  FactsSoFar' <=> Facts(flight'.step)
BY DEF FactsSoFar, Facts, RoundOk, ConfigOk, ExecutionLocked, worldVars, feedVars

(* What each check adds *)
LEMMA FactsGrow ==
    /\ Facts("identity") /\ Facts("owner") /\ Facts("code")
    /\ Facts("weth-identity")
         <=> ~registry.paused /\ registry.current \in PinnedRouters
    /\ Facts("weth-round") <=> Facts("weth-identity") /\ wethFeed.identical
    /\ Facts("nvda-identity")
         <=> Facts("weth-round") /\ RoundOk(wethFeed, flight.config.wethAge)
    /\ Facts("nvda-round") <=> Facts("nvda-identity") /\ nvdaFeed.identical
    /\ Facts("oracle")
         <=> Facts("nvda-round") /\ RoundOk(nvdaFeed, flight.config.nvdaAge)
    /\ Facts("config") <=> Facts("oracle") /\ ~oraclePaused
    /\ Facts("executor") <=> Facts("config") /\ ConfigOk(flight.config)
    /\ Facts("report") <=> Facts("executor") /\ ExecutionLocked(flight.config)
    /\ Facts("reported") <=> Facts("report")
BY DEF Facts, PastRouter, PastWethIdentity, PastWeth, PastNvdaIdentity, PastNvda,
       PastOracle, PastConfig, PastLock

LEMMA StepOrder ==
    /\ PastRouter = {"weth-identity", "weth-round", "nvda-identity", "nvda-round",
                     "oracle", "config", "executor", "report", "reported"}
    /\ PastLock = {"report", "reported"}
BY DEF PastRouter, PastWethIdentity, PastWeth, PastNvdaIdentity, PastNvda,
       PastOracle, PastConfig, PastLock

(* One check: an undisturbed run keeps count of the facts that hold.       *)
LEMMA CheckKeeps ==
    ASSUME PreflightInv, UNCHANGED <<worldVars, executor>>,
           NEW next \in {"owner"} \cup (PastRouter \ PastLock),
           NEW failed \in SUBSET Ids,
           flight' = [flight EXCEPT !.step = next, !.failed = failed],
           flight.step # "idle",
           Undisturbed /\ (flight.failed = {} <=> Facts(flight.step))
             => (failed = {} <=> Facts(next))
    PROVE  PreflightInv'
<1>1. flight \in Flights /\ WorldTypeOK' /\ ActiveRecorded' /\ now' = now
  BY WorldStays DEF PreflightInv, worldVars
<1>2. /\ flight' \in Flights /\ flight'.step = next /\ flight'.failed = failed
      /\ flight'.config = flight.config /\ flight'.nowSec = flight.nowSec
      /\ flight'.quiet = flight.quiet /\ flight'.readFailed = flight.readFailed
  BY <1>1, StepOrder DEF Flights
<1>3. FactsSoFar' <=> Facts(next)
  BY <1>1, <1>2, SameFacts
<1>4. NotedRight'
  <2> SUFFICES ASSUME Undisturbed' PROVE NotedRight'
    BY DEF NotedRight
  <2>1. Undisturbed /\ NotedRight
    BY <1>2 DEF Undisturbed, PreflightInv
  <2>2. flight'.failed = {} <=> FactsSoFar'
    BY <1>2, <1>3, <2>1 DEF NotedRight, FactsSoFar
  <2>3. flight'.step \notin {"idle", "code", "reported"} \cup PastLock
    BY <1>2, StepOrder
  <2> QED  BY <1>1, <1>2, <2>1, <2>2, <2>3 DEF NotedRight
<1> QED  BY <1>1, <1>2, <1>4 DEF PreflightInv

(* The checks that end with one verdict *)
LEMMA ChecksKeep ==
    ASSUME PreflightInv, UNCHANGED <<worldVars, executor>>,
           \/ CheckIdentity \/ CheckCode
           \/ CheckFeedIdentity("weth-identity", wethFeed, "weth-round")
           \/ CheckFeedRound("weth-round", wethFeed, flight.config.wethAge,
                             "nvda-identity")
           \/ CheckFeedIdentity("nvda-identity", nvdaFeed, "nvda-round")
           \/ CheckFeedRound("nvda-round", nvdaFeed, flight.config.nvdaAge,
                             "oracle")
           \/ CheckOraclePaused \/ CheckConfig
    PROVE  PreflightInv'
<1>1. flight.failed \in SUBSET Ids
  BY DEF PreflightInv, Flights
<1>2. CASE CheckIdentity
  <2> DEFINE failed == IF TRUE THEN flight.failed
                       ELSE flight.failed \cup {"chain"}
  <2>1. /\ flight.step = "identity"
        /\ flight' = [flight EXCEPT !.step = "owner", !.failed = failed]
    BY <1>2 DEF CheckIdentity, Checked
  <2>3. (flight.failed = {} <=> Facts("identity"))
          => (failed = {} <=> Facts("owner"))
    BY FactsGrow
  <2>4. failed \in SUBSET Ids
    BY <1>1, StepOrder DEF Ids
  <2> HIDE DEF failed
  <2> QED  BY <2>1, <2>3, <2>4, CheckKeeps, StepOrder
<1>3. CASE CheckCode
  <2> DEFINE failed == IF RouterCodePinned(flight.router) THEN flight.failed
                       ELSE flight.failed \cup {"router-code-hash"}
  <2>1. /\ flight.step = "code"
        /\ flight' = [flight EXCEPT !.step = "weth-identity", !.failed = failed]
    BY <1>3 DEF CheckCode, Checked
  <2>2. Undisturbed => ~registry.paused /\ flight.router = registry.current
    BY <2>1 DEF PreflightInv, NotedRight
  <2>3. Undisturbed /\ (flight.failed = {} <=> Facts("code"))
          => (failed = {} <=> Facts("weth-identity"))
    BY <2>2, FactsGrow DEF RouterCodePinned
  <2>4. failed \in SUBSET Ids
    BY <1>1, StepOrder DEF Ids
  <2> HIDE DEF failed
  <2> QED  BY <2>1, <2>3, <2>4, CheckKeeps, StepOrder
<1>4. CASE CheckFeedIdentity("weth-identity", wethFeed, "weth-round")
  <2> DEFINE failed == IF wethFeed.identical THEN flight.failed
                       ELSE flight.failed \cup {"weth-identity"}
  <2>1. /\ flight.step = "weth-identity"
        /\ flight' = [flight EXCEPT !.step = "weth-round", !.failed = failed]
    BY <1>4 DEF CheckFeedIdentity, Checked
  <2>3. (flight.failed = {} <=> Facts("weth-identity"))
          => (failed = {} <=> Facts("weth-round"))
    BY FactsGrow
  <2>4. failed \in SUBSET Ids
    BY <1>1, StepOrder DEF Ids
  <2> HIDE DEF failed
  <2> QED  BY <2>1, <2>3, <2>4, CheckKeeps, StepOrder
<1>5. CASE CheckFeedRound("weth-round", wethFeed, flight.config.wethAge,
                          "nvda-identity")
  <2> DEFINE failed == IF RoundOk(wethFeed, flight.config.wethAge) THEN flight.failed
                       ELSE flight.failed \cup {"weth-round"}
  <2>1. /\ flight.step = "weth-round"
        /\ flight' = [flight EXCEPT !.step = "nvda-identity", !.failed = failed]
    BY <1>5 DEF CheckFeedRound, Checked
  <2>3. (flight.failed = {} <=> Facts("weth-round"))
          => (failed = {} <=> Facts("nvda-identity"))
    BY FactsGrow
  <2>4. failed \in SUBSET Ids
    BY <1>1, StepOrder DEF Ids
  <2> HIDE DEF failed
  <2> QED  BY <2>1, <2>3, <2>4, CheckKeeps, StepOrder
<1>6. CASE CheckFeedIdentity("nvda-identity", nvdaFeed, "nvda-round")
  <2> DEFINE failed == IF nvdaFeed.identical THEN flight.failed
                       ELSE flight.failed \cup {"nvda-identity"}
  <2>1. /\ flight.step = "nvda-identity"
        /\ flight' = [flight EXCEPT !.step = "nvda-round", !.failed = failed]
    BY <1>6 DEF CheckFeedIdentity, Checked
  <2>3. (flight.failed = {} <=> Facts("nvda-identity"))
          => (failed = {} <=> Facts("nvda-round"))
    BY FactsGrow
  <2>4. failed \in SUBSET Ids
    BY <1>1, StepOrder DEF Ids
  <2> HIDE DEF failed
  <2> QED  BY <2>1, <2>3, <2>4, CheckKeeps, StepOrder
<1>7. CASE CheckFeedRound("nvda-round", nvdaFeed, flight.config.nvdaAge, "oracle")
  <2> DEFINE failed == IF RoundOk(nvdaFeed, flight.config.nvdaAge) THEN flight.failed
                       ELSE flight.failed \cup {"nvda-round"}
  <2>1. /\ flight.step = "nvda-round"
        /\ flight' = [flight EXCEPT !.step = "oracle", !.failed = failed]
    BY <1>7 DEF CheckFeedRound, Checked
  <2>3. (flight.failed = {} <=> Facts("nvda-round"))
          => (failed = {} <=> Facts("oracle"))
    BY FactsGrow
  <2>4. failed \in SUBSET Ids
    BY <1>1, StepOrder DEF Ids
  <2> HIDE DEF failed
  <2> QED  BY <2>1, <2>3, <2>4, CheckKeeps, StepOrder
<1>8. CASE CheckOraclePaused
  <2> DEFINE failed == IF ~oraclePaused THEN flight.failed
                       ELSE flight.failed \cup {"oracle"}
  <2>1. /\ flight.step = "oracle"
        /\ flight' = [flight EXCEPT !.step = "config", !.failed = failed]
    BY <1>8 DEF CheckOraclePaused, Checked
  <2>3. (flight.failed = {} <=> Facts("oracle"))
          => (failed = {} <=> Facts("config"))
    BY FactsGrow
  <2>4. failed \in SUBSET Ids
    BY <1>1, StepOrder DEF Ids
  <2> HIDE DEF failed
  <2> QED  BY <2>1, <2>3, <2>4, CheckKeeps, StepOrder
<1>9. CASE CheckConfig
  <2> DEFINE failed == IF ConfigOk(flight.config) THEN flight.failed
                       ELSE flight.failed \cup {"config"}
  <2>1. /\ flight.step = "config"
        /\ flight' = [flight EXCEPT !.step = "executor", !.failed = failed]
    BY <1>9 DEF CheckConfig, Checked
  <2>3. (flight.failed = {} <=> Facts("config"))
          => (failed = {} <=> Facts("executor"))
    BY FactsGrow
  <2>4. failed \in SUBSET Ids
    BY <1>1, StepOrder DEF Ids
  <2> HIDE DEF failed
  <2> QED  BY <2>1, <2>3, <2>4, CheckKeeps, StepOrder
<1> QED  BY <1>2, <1>3, <1>4, <1>5, <1>6, <1>7, <1>8, <1>9

(* ownerOf names the router whose code is read next, or fails the check.   *)
LEMMA OwnerKeeps ==
    ASSUME PreflightInv, UNCHANGED <<worldVars, executor>>, CheckOwner
    PROVE  PreflightInv'
<1>1. /\ flight \in Flights /\ WorldTypeOK' /\ ActiveRecorded'
      /\ flight.step = "owner" /\ now' = now
      /\ registry.current \in Routers /\ registry' = registry
  BY WorldStays DEF PreflightInv, CheckOwner, WorldTypeOK, worldVars
<1>2. FactsSoFar
  BY <1>1, FactsGrow DEF FactsSoFar
<1>3. CASE registry.paused
  <2>1. flight' = [flight EXCEPT !.step = "weth-identity",
                        !.failed = IF FALSE THEN @ ELSE @ \cup {"router"}]
    BY <1>3 DEF CheckOwner, Checked
  <2>2. /\ flight' \in Flights /\ flight'.step = "weth-identity"
        /\ flight'.failed # {}
        /\ flight'.config = flight.config /\ flight'.nowSec = flight.nowSec
        /\ flight'.quiet = flight.quiet /\ flight'.readFailed = flight.readFailed
    BY <1>1, <2>1, StepOrder DEF Flights, Ids
  <2>3. ~FactsSoFar'
    BY <1>1, <1>3, <2>2, SameFacts, FactsGrow
  <2>4. NotedRight'
    BY <1>1, <2>2, <2>3, StepOrder
       DEF NotedRight, Undisturbed, PreflightInv
  <2> QED  BY <1>1, <2>2, <2>4 DEF PreflightInv
<1>4. CASE ~registry.paused
  <2>1. flight' = [flight EXCEPT !.step = "code", !.router = registry.current]
    BY <1>4 DEF CheckOwner
  <2>2. /\ flight' \in Flights /\ flight'.step = "code"
        /\ flight'.failed = flight.failed /\ flight'.router = registry.current
        /\ flight'.config = flight.config /\ flight'.nowSec = flight.nowSec
        /\ flight'.quiet = flight.quiet /\ flight'.readFailed = flight.readFailed
    BY <1>1, <2>1, StepOrder DEF Flights, Ids
  <2>3. FactsSoFar'
    BY <1>1, <2>2, SameFacts, FactsGrow
  <2>4. NotedRight'
    BY <1>1, <1>2, <1>4, <2>2, <2>3, StepOrder
       DEF NotedRight, Undisturbed, PreflightInv
  <2> QED  BY <1>1, <2>2, <2>4 DEF PreflightInv
<1> QED  BY <1>3, <1>4

(* The lock is looked at last, and the report sums up what was noted.      *)
LEMMA LastStepsKeep ==
    ASSUME PreflightInv, UNCHANGED <<worldVars, executor>>, CheckLock \/ Report
    PROVE  PreflightInv'
<1>1. /\ flight \in Flights /\ WorldTypeOK' /\ ActiveRecorded' /\ now' = now
  BY WorldStays DEF PreflightInv, worldVars
<1>2. CASE CheckLock
  <2> DEFINE locked == ExecutionLocked(flight.config)
             failed == IF ExecutionLocked(flight.config) THEN flight.failed
                       ELSE flight.failed \cup {"execution-locked"}
  <2>1. /\ flight.step = "executor"
        /\ flight' = [flight EXCEPT !.step = "report", !.locked = locked,
                          !.failed = failed]
    BY <1>2 DEF CheckLock
  <2>2. /\ locked \in BOOLEAN /\ failed \in SUBSET Ids
        /\ locked <=> ExecutionLocked(flight.config)
        /\ failed = {} <=> flight.failed = {} /\ ExecutionLocked(flight.config)
    <3>1. flight.failed \in SUBSET Ids
      BY <1>1 DEF Flights
    <3>2. locked \in BOOLEAN
      BY DEF ExecutionLocked
    <3> QED  BY <3>1, <3>2 DEF Ids
  <2> HIDE DEF locked, failed
  <2>3. /\ flight' \in Flights /\ flight'.step = "report"
        /\ flight'.failed = failed /\ flight'.locked = locked
        /\ flight'.config = flight.config /\ flight'.nowSec = flight.nowSec
        /\ flight'.quiet = flight.quiet /\ flight'.readFailed = flight.readFailed
    BY <1>1, <2>1, <2>2, StepOrder DEF Flights
  <2>4. FactsSoFar' <=> FactsSoFar /\ ExecutionLocked(flight.config)
    BY <1>1, <2>1, <2>3, SameFacts, FactsGrow DEF FactsSoFar
  <2>5. ExecutionLocked(flight.config)' <=> ExecutionLocked(flight.config)
    BY <2>3 DEF ExecutionLocked
  <2>6. NotedRight'
    BY <1>1, <2>1, <2>2, <2>3, <2>4, <2>5, StepOrder
       DEF NotedRight, Undisturbed, PreflightInv
  <2> QED  BY <1>1, <2>3, <2>6 DEF PreflightInv
<1>3. CASE Report
  <2> DEFINE status == IF flight.failed = {} /\ flight.locked
                       THEN "CANARY_BUILD_READY_EXECUTION_LOCKED"
                       ELSE "CANARY_NOT_READY"
  <2>1. /\ flight.step = "report"
        /\ flight' = [flight EXCEPT !.step = "reported", !.status = status]
    BY <1>3 DEF Report
  <2>2. /\ status \in {"CANARY_NOT_READY", "CANARY_BUILD_READY_EXECUTION_LOCKED"}
        /\ status = "CANARY_BUILD_READY_EXECUTION_LOCKED"
              <=> flight.failed = {} /\ flight.locked
    OBVIOUS
  <2> HIDE DEF status
  <2>3. /\ flight' \in Flights /\ flight'.step = "reported"
        /\ flight'.failed = flight.failed /\ flight'.locked = flight.locked
        /\ flight'.status = status
        /\ flight'.config = flight.config /\ flight'.nowSec = flight.nowSec
        /\ flight'.quiet = flight.quiet /\ flight'.readFailed = flight.readFailed
    BY <1>1, <2>1, <2>2, StepOrder DEF Flights
  <2>4. FactsSoFar' <=> FactsSoFar
    BY <1>1, <2>1, <2>3, SameFacts, FactsGrow DEF FactsSoFar
  <2>5. ExecutionLocked(flight.config)' <=> ExecutionLocked(flight.config)
    BY <2>3 DEF ExecutionLocked
  <2>6. NotedRight'
    BY <1>1, <2>1, <2>2, <2>3, <2>4, <2>5, StepOrder
       DEF NotedRight, Undisturbed, PreflightInv
  <2> QED  BY <1>1, <2>3, <2>6 DEF PreflightInv
<1> QED  BY <1>2, <1>3

(* A run begins, or a read throws. *)
LEMMA OthersKeep ==
    ASSUME PreflightInv, UNCHANGED <<worldVars, executor>>,
           (\E c \in Configs : Start(c)) \/ ReadFails
    PROVE  PreflightInv'
<1>1. /\ flight \in Flights /\ WorldTypeOK' /\ ActiveRecorded' /\ now' = now
      /\ now \in Times
  BY WorldStays DEF PreflightInv, worldVars, WorldTypeOK
<1>2. ASSUME NEW c \in Configs, Start(c) PROVE PreflightInv'
  <2>1. flight' \in Flights
    BY <1>1, <1>2, StepOrder DEF Start, NoFlight, Flights
  <2>2. CASE c.secrets \/ ~c.rpc
    <3>1. flight'.config = None
      BY <1>2, <2>2 DEF Start, NoFlight
    <3> QED  BY <1>1, <2>1, <3>1 DEF PreflightInv, NotedRight, Undisturbed
  <2>3. CASE ~c.secrets /\ c.rpc
    <3>1. flight'.step = "identity" /\ flight'.nowSec = now /\ flight'.failed = {}
      BY <1>2, <2>3 DEF Start, NoFlight
    <3>2. FactsSoFar'
      BY <3>1, StepOrder DEF FactsSoFar, Facts, PastWethIdentity, PastWeth,
         PastNvdaIdentity, PastNvda, PastOracle, PastConfig, PastRouter
    <3>3. NotedRight'
      BY <1>1, <3>1, <3>2, StepOrder DEF NotedRight
    <3> QED  BY <1>1, <2>1, <3>3 DEF PreflightInv
  <2> QED  BY <2>2, <2>3
<1>3. CASE ReadFails
  <2>1. flight' \in Flights /\ flight'.readFailed
    <3>1. flight.step \in PastRouter \cup {"identity", "owner", "code"}
          /\ After[flight.step] \in PastRouter \cup {"owner"}
      <4>1. flight.step \in DOMAIN After
        BY <1>3 DEF ReadFails
      <4> QED  BY <4>1, StepOrder DEF After
    <3>2. /\ flight' = [flight EXCEPT
                          !.step = After[flight.step],
                          !.failed = @ \cup {flight.step},
                          !.locked = @ /\ flight.step # "executor",
                          !.readFailed = TRUE,
                          !.status = IF flight.step = "config"
                                     THEN "CANARY_NOT_READY" ELSE @]
      BY <1>3 DEF ReadFails
    <3> DEFINE status == IF flight.step = "config"
                         THEN "CANARY_NOT_READY" ELSE flight.status
               failed == flight.failed \cup {flight.step}
               locked == flight.locked /\ flight.step # "executor"
               next == After[flight.step]
    <3>3. /\ failed \in SUBSET Ids /\ locked \in BOOLEAN
          /\ next \in PastRouter \cup {"owner"}
      BY <1>1, <3>1 DEF Flights, Ids
    <3>4. status \in {None, "ABORTED", "CANARY_NOT_READY",
                      "CANARY_BUILD_READY_EXECUTION_LOCKED"}
      BY <1>1 DEF Flights
    <3>5. flight' = [flight EXCEPT !.step = next, !.failed = failed,
                         !.locked = locked, !.readFailed = TRUE, !.status = status]
      BY <3>2
    <3> HIDE DEF status, failed, locked, next
    <3> QED  BY <1>1, <3>3, <3>4, <3>5 DEF Flights
  <2> QED  BY <1>1, <2>1 DEF PreflightInv, NotedRight, Undisturbed
<1> QED  BY <1>2, <1>3

(* The state moves on beside a run, which is then not undisturbed.         *)
LEMMA MovesKeep ==
    ASSUME PreflightInv, WorldMovesOn \/ MoveExecutor
    PROVE  PreflightInv'
<1>1. WorldTypeOK' /\ ActiveRecorded'
  <2>1. CASE WorldMovesOn
    BY <2>1, WorldMoves DEF WorldMovesOn, PreflightInv
  <2>2. CASE MoveExecutor
    BY <2>2 DEF MoveExecutor, PreflightInv, WorldTypeOK, ActiveRecorded,
                ActiveRouters, FeedTypeOK, feedVars
  <2> QED  BY <2>1, <2>2
<1>2. flight' \in Flights /\ ~flight'.quiet
  <2>1. flight' = [flight EXCEPT !.quiet = FALSE]
    BY DEF WorldMovesOn, MoveExecutor
  <2> QED  BY <2>1 DEF PreflightInv, Flights
<1> QED  BY <1>1, <1>2 DEF PreflightInv, NotedRight, Undisturbed

LEMMA PreflightInvAlways == PreflightSpec => []PreflightInv
<1>1. WorldStart /\ ClientInit /\ PreflightInit => PreflightInv
  <2> SUFFICES ASSUME WorldStart, PreflightInit PROVE PreflightInv
    OBVIOUS
  <2>1. flight \in Flights /\ flight.config = None
    BY StepOrder DEF PreflightInit, NoFlight, Flights
  <2> QED  BY <2>1, WorldStarts DEF PreflightInv, NotedRight, Undisturbed
<1>2. ASSUME PreflightInv,
             [PreflightStep \/ WorldMovesOn \/ MoveExecutor]_
                 <<worldVars, clientVars, preflightVars>>
      PROVE  PreflightInv'
  <2>1. CASE PreflightStep
    BY <1>2, <2>1, ChecksKeep, OwnerKeeps, LastStepsKeep, OthersKeep
       DEF PreflightStep
  <2>2. CASE WorldMovesOn \/ MoveExecutor
    BY <1>2, <2>2, MovesKeep
  <2>3. CASE UNCHANGED <<worldVars, clientVars, preflightVars>>
    <3>1. /\ WorldTypeOK' /\ ActiveRecorded' /\ flight' = flight /\ now' = now
          /\ flight \in Flights /\ executor' = executor
      BY <1>2, <2>3, WorldStays DEF PreflightInv, preflightVars, worldVars
    <3>2. FactsSoFar' <=> FactsSoFar
      BY <2>3, <3>1, SameFacts DEF FactsSoFar
    <3>3. ExecutionLocked(flight.config)' <=> ExecutionLocked(flight.config)
      BY <3>1 DEF ExecutionLocked
    <3>4. NotedRight
      BY <1>2 DEF PreflightInv
    <3>5. /\ flight'.config = flight.config /\ flight'.nowSec = flight.nowSec
          /\ flight'.step = flight.step /\ flight'.router = flight.router
          /\ flight'.failed = flight.failed /\ flight'.locked = flight.locked
          /\ flight'.status = flight.status /\ flight'.quiet = flight.quiet
          /\ flight'.readFailed = flight.readFailed /\ registry' = registry
      BY <2>3, <3>1 DEF worldVars
    <3>6. NotedRight'
      BY <3>1, <3>2, <3>3, <3>4, <3>5, StepOrder DEF NotedRight, Undisturbed
    <3> QED  BY <3>1, <3>6 DEF PreflightInv
  <2> QED  BY <1>2, <2>1, <2>2, <2>3
<1> QED  BY <1>1, <1>2, PTL DEF PreflightSpec

(* Fifteen reads of a chain that may move between any two of them: when it *)
(* did not and all were answered, canary-preflight.ts reports ready exactly*)
(* if the executor could not run and, with this configuration, the         *)
(* contract would find the pinned router and both feeds fresh.             *)
THEOREM PreflightExact == PreflightSpec => []ReportIsExact
<1>1. ASSUME PreflightInv PROVE ReportIsExact
  <2> DEFINE c == flight.config
  <2>1. SUFFICES
          ASSUME flight.step = "reported", Undisturbed
          PROVE  flight.status = "CANARY_BUILD_READY_EXECUTION_LOCKED"
                   <=> /\ c.executor => executor # "live"
                       /\ ~registry.paused /\ registry.current \in PinnedRouters
                       /\ FeedFresh(wethFeed, c.wethAge)
                       /\ FeedFresh(nvdaFeed, c.nvdaAge)
                       /\ ~oraclePaused
                       /\ ConfigOk(c)
    BY DEF ReportIsExact, Undisturbed
  <2>2. /\ flight.nowSec = now
        /\ flight.status = "CANARY_BUILD_READY_EXECUTION_LOCKED"
              <=> Facts("reported") /\ ExecutionLocked(c)
    BY <1>1, <2>1, StepOrder DEF PreflightInv, NotedRight, FactsSoFar
  <2>3. wethFeed.updatedAt \in Nat /\ nvdaFeed.updatedAt \in Nat
    BY <1>1, ChainAssumption
       DEF PreflightInv, WorldTypeOK, FeedTypeOK, Feed, Times
  <2>4. /\ FeedFresh(wethFeed, c.wethAge)
             <=> wethFeed.identical /\ RoundOk(wethFeed, c.wethAge)
        /\ FeedFresh(nvdaFeed, c.nvdaAge)
             <=> nvdaFeed.identical /\ RoundOk(nvdaFeed, c.nvdaAge)
    BY <2>2, <2>3 DEF FeedFresh, RoundOk
  <2>5. ExecutionLocked(c) <=> (c.executor => executor # "live")
    BY DEF ExecutionLocked
  <2> QED  BY <2>2, <2>4, <2>5, FactsGrow
<1> QED  BY <1>1, PreflightInvAlways, PTL
=============================================================================
