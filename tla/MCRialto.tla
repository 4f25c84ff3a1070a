------------------------------ MODULE MCRialto ------------------------------
(***************************************************************************)
(* A small instance of the off-chain Rialto code for TLC.  The client and  *)
(* the preflight are explored apart (`side'), each with a moving world.    *)
(***************************************************************************)
EXTENDS CanaryPreflight

CONSTANTS r1, r2

VARIABLE side

(* "0.3", "1.0", "0.25" (more digits than the token has) and "0" *)
MCDecimals ==
    { [int |-> 0, frac |-> 3, digits |-> 1], [int |-> 1, frac |-> 0, digits |-> 1],
      [int |-> 0, frac |-> 25, digits |-> 2], [int |-> 0, frac |-> 0, digits |-> 0] }

Quoted(min) ==
    [target |-> r1, selector |-> "settle", spender |-> r1, sellAmount |-> 10,
     minBuy |-> min, expiry |-> MaxTime, platformFee |-> 5,
     integratorFee |-> FALSE, defect |-> None]

(* Good quotes at several minimums, and one fault in each of the others.   *)
MCQuotes ==
    { Quoted(9), Quoted(15),
      [Quoted(4) EXCEPT !.sellAmount = 3],
      [Quoted(2) EXCEPT !.sellAmount = 3],
      [Quoted(15) EXCEPT !.target = r2, !.spender = None],
      [Quoted(15) EXCEPT !.spender = r2],
      [Quoted(15) EXCEPT !.selector = "multicall"],
      [Quoted(15) EXCEPT !.expiry = 2],
      [Quoted(15) EXCEPT !.expiry = None],
      [Quoted(15) EXCEPT !.platformFee = 6],
      [Quoted(15) EXCEPT !.defect = "permit2"],
      [Quoted(15) EXCEPT !.defect = "trailing"] }

Completed == [ProductionCandidatePolicy EXCEPT
                !.cap = 10, !.selectors = {"settle"}, !.taker = "executor",
                !.registryAge = 0, !.priceAge = 2, !.sources = {"feeds"}]

MCPolicies ==
    { ProductionCandidatePolicy, Completed,
      [Completed EXCEPT !.raw = TRUE, !.allowRaw = TRUE] }

Config == [secrets |-> FALSE, rpc |-> TRUE, executor |-> TRUE,
           controller |-> "safe", cap |-> 1, maxCap |-> 1, wethAge |-> 2,
           nvdaAge |-> 1]

MCConfigs ==
    { Config, [Config EXCEPT !.executor = FALSE],
      [Config EXCEPT !.controller = None], [Config EXCEPT !.cap = 2],
      [Config EXCEPT !.nvdaAge = 0], [Config EXCEPT !.secrets = TRUE],
      [Config EXCEPT !.rpc = FALSE] }

Round(answer, t) == [answer |-> answer, updatedAt |-> t, identical |-> TRUE,
                     complete |-> TRUE]

(* Both feeds have just published and the sequencer has been up for long.  *)
RialtoInit ==
    /\ side \in {"client", "preflight"}
    /\ now = 2
    /\ wethFeed = Round(3, 2)
    /\ nvdaFeed = Round(2, 2)
    /\ oraclePaused = FALSE
    /\ sequencer = [up |-> TRUE, startedAt |-> 1]
    /\ registry \in [current : {r1}, previous : {None}, next : {r2},
                     paused : {FALSE}]
    /\ WorldStart
    /\ ClientInit
    /\ PreflightInit
    /\ side = "preflight" => policy = ProductionCandidatePolicy
    /\ side = "client" => executor = "none"

RialtoNext ==
    /\ \/ side = "client" /\ ClientStep /\ UNCHANGED preflightVars
       \/ side = "client" /\ WorldStep /\ UNCHANGED preflightVars
       \/ side = "preflight" /\ PreflightStep
       \/ side = "preflight" /\ (WorldMovesOn \/ MoveExecutor)
    /\ UNCHANGED side

RialtoSpec ==
    RialtoInit /\ [][RialtoNext]_<<side, worldVars, clientVars, preflightVars>>
=============================================================================
