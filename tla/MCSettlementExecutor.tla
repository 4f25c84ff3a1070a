------------------------ MODULE MCSettlementExecutor ------------------------
(***************************************************************************)
(* A small instance of SettlementExecutor for TLC.  The steps of the       *)
(* controller and those of the feeds are explored apart, each together     *)
(* with settlements (one, on the feeds' side): `side' says which.          *)
(***************************************************************************)
EXTENDS SettlementExecutor

CONSTANTS safe, safe2, r1, r2, noContract

(* r1 and r2 run different code; the third is no contract at all. *)
RouterCode == [r \in RouterAddresses |-> IF r = r1 THEN 1 ELSE 2]

VARIABLE side

(* A good intent, and one defect in each field the policy looks at. *)
Good(nonce, sell, min) ==
    [rightPair |-> TRUE, sellAmount |-> sell, minBuyAmount |-> min,
     target |-> r1, selector |-> 1, platformFeeBps |-> 5,
     integratorFeePresent |-> FALSE, slippageBps |-> 100, nonce |-> nonce,
     deadline |-> 1, bound |-> TRUE]

ControlIntents ==
    { Good(1, 2, 3), Good(1, 1, 2), Good(2, 3, 5),
      [Good(2, 2, 3) EXCEPT !.target = r2],
      [Good(2, 2, 3) EXCEPT !.target = noContract] }

FeedIntents ==
    { Good(1, 2, 3), Good(2, 1, 1), [Good(2, 2, 4) EXCEPT !.deadline = 3],
      [Good(1, 2, 3) EXCEPT !.rightPair = FALSE],
      [Good(1, 2, 3) EXCEPT !.bound = FALSE],
      [Good(1, 2, 3) EXCEPT !.selector = 0],
      [Good(1, 2, 3) EXCEPT !.platformFeeBps = 6],
      [Good(1, 2, 3) EXCEPT !.integratorFeePresent = TRUE],
      [Good(1, 2, 3) EXCEPT !.slippageBps = 101],
      [Good(1, 2, 3) EXCEPT !.deadline = 0],
      [Good(1, 2, 3) EXCEPT !.minBuyAmount = 0] }

MCIntents == ControlIntents \cup FeedIntents

LiveFeed(answer) == [answer |-> answer, updatedAt |-> 1, identical |-> TRUE,
                     complete |-> TRUE]

(* The controller's side: the feeds are live and stand still. *)
ControlStart ==
    /\ now = 1
    /\ wethFeed = LiveFeed(3)
    /\ nvdaFeed = LiveFeed(2)
    /\ oraclePaused = FALSE
    /\ sequencer = [up |-> TRUE, startedAt |-> 0]
    /\ ExecInit

(* The feeds' side: the executor is deployed, configured, unpaused and     *)
(* funded, as the controller's steps leave it.                             *)
ActivatedInit ==
    /\ OwnInit(deployer)
    /\ paused = FALSE
    /\ guardSet = TRUE
    /\ approvedRouterCodeHash = 1
    /\ approvedSelector = 1
    /\ maxSellAmount = CANARY_MAX_SELL_WETH
    /\ pairAllowed = TRUE
    /\ consumedDigest = {}
    /\ usedNonce = {}
    /\ execWeth = MaxWeth
    /\ execStock = 0
    /\ allowance = [r \in RouterAddresses |-> 0]
    /\ wethGiven = MaxWeth
    /\ registryRouter = r1
    /\ settled = << >>

MarketStart == now = 0 /\ FeedInit /\ ActivatedInit

SettlementStart ==
    \/ side = "control" /\ ControlStart
    \/ side = "market" /\ MarketStart

SettlementNext ==
    /\ \/ side = "control" /\ ControlStep
       \/ side = "market" /\ MarketStep
       \/ /\ side = "market" => settled = << >>
          /\ SettleStep
    /\ UNCHANGED side

SettlementSpec == SettlementStart /\ [][SettlementNext]_<<side, allExecVars>>
=============================================================================
