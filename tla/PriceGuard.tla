----------------------------- MODULE PriceGuard -----------------------------
(***************************************************************************)
(* ChainlinkSettlementPriceGuard.sol: the oracle floor under the minimum a *)
(* settlement may accept.  The feeds are external: they publish rounds,    *)
(* stop, are rotated to another aggregator or pause.                       *)
(***************************************************************************)
EXTENDS Chain

CONSTANTS
    Answers,             \* answers a feed may publish, wrong ones included
    maxWethFeedAge, maxNvdaFeedAge,
    wethTokenUnit, nvdaTokenUnit, wethFeedUnit, nvdaFeedUnit,
                         \* 10 ^ decimals of the two tokens and feeds
    sequencerRecoveryGrace

MAX_DEVIATION_CEILING_BPS == 100

ASSUME GuardAssumption ==
    /\ Answers \subseteq Int
    /\ maxWethFeedAge \in Nat \ {0}
    /\ maxNvdaFeedAge \in Nat \ {0}
    /\ wethTokenUnit \in Nat \ {0}
    /\ nvdaTokenUnit \in Nat \ {0}
    /\ wethFeedUnit \in Nat \ {0}
    /\ nvdaFeedUnit \in Nat \ {0}
    /\ sequencerRecoveryGrace \in Nat

VARIABLES
    wethFeed,        \* latestRoundData and identity of the ETH/USD feed
    nvdaFeed,        \* the same of RHNVDA/USD
    oraclePaused,    \* the stock token's own switch
    sequencer        \* the sequencer uptime feed

feedVars == <<wethFeed, nvdaFeed, oraclePaused, sequencer>>

(* `identical': decimals and description are those pinned at construction; *)
(* `complete': a nonzero round, answered in itself.                        *)
Feed == [answer : Answers \cup {0}, updatedAt : Times, identical : BOOLEAN,
         complete : BOOLEAN]

FeedTypeOK ==
    /\ wethFeed \in Feed
    /\ nvdaFeed \in Feed
    /\ oraclePaused \in BOOLEAN
    /\ sequencer \in [up : BOOLEAN, startedAt : Times]

NoRound == [answer |-> 0, updatedAt |-> 0, identical |-> TRUE,
            complete |-> FALSE]

FeedInit ==
    /\ wethFeed = NoRound
    /\ nvdaFeed = NoRound
    /\ oraclePaused = FALSE
    /\ sequencer = [up |-> TRUE, startedAt |-> 0]

(* _readFreshAnswer's conditions *)
FeedFresh(feed, maxAge) ==
    /\ feed.identical
    /\ feed.complete
    /\ feed.answer > 0
    /\ feed.updatedAt # 0
    /\ feed.updatedAt <= now
    /\ now - feed.updatedAt <= maxAge

(* _checkSequencer *)
SequencerOk ==
    /\ sequencer.up
    /\ sequencer.startedAt <= now
    /\ now - sequencer.startedAt >= sequencerRecoveryGrace

(* Math.mulDiv(.., .., .., Rounding.Ceil) *)
CeilDiv(a, b) == (a + b - 1) \div b

FairOut_DefectRoundsDown(sellAmount) ==
    LET usdScaled == (sellAmount * wethFeed.answer) \div wethTokenUnit
    IN  (usdScaled * (nvdaFeedUnit * nvdaTokenUnit))
            \div (wethFeedUnit * nvdaFeed.answer)

(* check's fair output and the floor under it *)
FairOut(sellAmount) ==
    LET usdScaled == CeilDiv(sellAmount * wethFeed.answer, wethTokenUnit)
    IN  CeilDiv(usdScaled * (nvdaFeedUnit * nvdaTokenUnit),
                wethFeedUnit * nvdaFeed.answer)

FloorAmount(sellAmount, maxDeviationBps) ==
    LET dev == IF maxDeviationBps < MAX_DEVIATION_CEILING_BPS
               THEN maxDeviationBps ELSE MAX_DEVIATION_CEILING_BPS
    IN  CeilDiv(FairOut(sellAmount) * (10000 - dev), 10000)

(* check: does not revert (the pair is the configured one) *)
PriceAcceptable(sellAmount, minBuyAmount, maxDeviationBps) ==
    /\ sellAmount # 0
    /\ minBuyAmount # 0
    /\ SequencerOk
    /\ ~oraclePaused
    /\ FeedFresh(wethFeed, maxWethFeedAge)
    /\ FeedFresh(nvdaFeed, maxNvdaFeedAge)
    /\ minBuyAmount >= FloorAmount(sellAmount, maxDeviationBps)

----------------------------------------------------------------------------
(* The feeds' side *)

(* a new round, complete or not *)
PublishedRound(feed, answer, complete) ==
    [feed EXCEPT !.answer = answer, !.updatedAt = now, !.complete = complete]

PublishRound ==
    \E answer \in Answers, complete \in BOOLEAN :
        \/ /\ wethFeed' = PublishedRound(wethFeed, answer, complete)
           /\ UNCHANGED nvdaFeed
        \/ /\ nvdaFeed' = PublishedRound(nvdaFeed, answer, complete)
           /\ UNCHANGED wethFeed

(* the proxy is pointed at another aggregator *)
RotateFeed ==
    /\ nvdaFeed' = [nvdaFeed EXCEPT !.identical = ~@]
    /\ UNCHANGED wethFeed

FeedStep ==
    \/ (PublishRound \/ RotateFeed) /\ UNCHANGED <<oraclePaused, sequencer>>
    \/ oraclePaused' = ~oraclePaused /\ UNCHANGED <<wethFeed, nvdaFeed, sequencer>>
    \/ /\ sequencer' = [up |-> ~sequencer.up, startedAt |-> now]
       /\ UNCHANGED <<wethFeed, nvdaFeed, oraclePaused>>
=============================================================================
