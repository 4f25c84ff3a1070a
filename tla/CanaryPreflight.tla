--------------------------- MODULE CanaryPreflight ---------------------------
(***************************************************************************)
(* packages/rialto canary-preflight.ts and its CLI: is the canary build    *)
(* ready while execution stays locked?  Fifteen checks, most of them reads *)
(* of the latest block made one after another; none stops the others, and  *)
(* "now" is taken before the first.                                        *)
(***************************************************************************)
EXTENDS RialtoClient

CONSTANTS
    PinnedRouters,    \* the routers whose code has the pinned hash
    Configs           \* environments the CLI is run in

MAX_FEED_AGE_CEILING == 900
QEX1_CONSUMED == TRUE

VARIABLES
    executor,         \* the executor's address: no code yet, paused or live
    flight            \* the run of the CLI

preflightVars == <<executor, flight>>

NoFlight == [step |-> "idle", config |-> None, nowSec |-> 0, router |-> None,
             failed |-> {}, locked |-> TRUE, status |-> None, quiet |-> TRUE,
             readFailed |-> FALSE]

PreflightInit ==
    /\ executor \in {"none", "paused", "live"}
    /\ flight = NoFlight

(* runCanaryPreflightCli: refused with a secret in the environment or      *)
(* without an endpoint; otherwise the clock is read and the checks begin   *)
Start(c) ==
    /\ flight.step = "idle"
    /\ flight' =
         IF c.secrets THEN [NoFlight EXCEPT !.step = "reported",
                                            !.status = "ABORTED"]
         ELSE IF ~c.rpc THEN [NoFlight EXCEPT !.step = "reported",
                                              !.status = "CANARY_NOT_READY"]
         ELSE [NoFlight EXCEPT !.step = "identity", !.config = c,
                               !.nowSec = now]

(* One check: its id fails unless the fact it reads holds.                 *)
Checked(id, fact, next) ==
    flight' = [flight EXCEPT !.step = next,
                             !.failed = IF fact THEN @ ELSE @ \cup {id}]

(* chain id, selector pin, code of the registry and the tokens: fixed      *)
(* facts, which only a failing read makes fail                             *)
CheckIdentity == flight.step = "identity" /\ Checked("chain", TRUE, "owner")

(* ownerOf(2), then the code of the router it named *)
CheckOwner ==
    /\ flight.step = "owner"
    /\ IF registry.paused
       THEN Checked("router", FALSE, "weth-identity")
       ELSE flight' = [flight EXCEPT !.step = "code",
                                     !.router = registry.current]

RouterCodePinned_DefectAnyCode(r) == r \in Routers

(* keccak256(code) is the pinned hash, with which alone the selector is    *)
(* approvable                                                              *)
RouterCodePinned(r) == r \in PinnedRouters

CheckCode ==
    /\ flight.step = "code"
    /\ Checked("router-code-hash", RouterCodePinned(flight.router),
               "weth-identity")

(* feedCheck: decimals and description, then the round *)
CheckFeedIdentity(at, feed, next) ==
    flight.step = at /\ Checked(at, feed.identical, next)

RoundOk(feed, maxAge) ==
    /\ feed.answer > 0
    /\ feed.complete
    /\ feed.updatedAt > 0
    /\ feed.updatedAt <= flight.nowSec
    /\ flight.nowSec - feed.updatedAt <= maxAge

CheckFeedRound(at, feed, maxAge, next) ==
    flight.step = at /\ Checked(at, RoundOk(feed, maxAge), next)

CheckOraclePaused ==
    flight.step = "oracle" /\ Checked("oracle", ~oraclePaused, "config")

(* sequencer policy, controller, cap and age bounds, QEX-1 retired         *)
ConfigOk(c) ==
    /\ c.controller # None
    /\ c.cap > 0 /\ c.cap <= c.maxCap
    /\ c.wethAge \in 1 .. MAX_FEED_AGE_CEILING
    /\ c.nvdaAge \in 1 .. MAX_FEED_AGE_CEILING
    /\ QEX1_CONSUMED

CheckConfig ==
    /\ flight.step = "config"
    /\ Checked("config", ConfigOk(flight.config), "executor")

(* execution lock: no executor, no code at its address, or paused *)
ExecutionLocked(c) == ~c.executor \/ executor # "live"

CheckLock ==
    /\ flight.step = "executor"
    /\ flight' = [flight EXCEPT
                    !.step = "report",
                    !.locked = ExecutionLocked(flight.config),
                    !.failed = IF ExecutionLocked(flight.config)
                               THEN @ ELSE @ \cup {"execution-locked"}]

Report ==
    /\ flight.step = "report"
    /\ flight' = [flight EXCEPT
                    !.step = "reported",
                    !.status = IF flight.failed = {} /\ flight.locked
                               THEN "CANARY_BUILD_READY_EXECUTION_LOCKED"
                               ELSE "CANARY_NOT_READY"]

(* the step after a check whose read failed *)
After ==
    [s \in {"identity", "owner", "code", "weth-identity", "weth-round",
            "nvda-identity", "nvda-round", "oracle", "config", "executor"} |->
        CASE s = "identity" -> "owner"
          [] s \in {"owner", "code"} -> "weth-identity"
          [] s \in {"weth-identity", "weth-round"} -> "nvda-identity"
          [] s \in {"nvda-identity", "nvda-round"} -> "oracle"
          [] s = "oracle" -> "config"
          [] s = "config" -> "reported"
          [] s = "executor" -> "report"]

(* A read throws: the check it belongs to fails and the rest go on, but    *)
(* for the code of the controller, where the run is aborted.               *)
ReadFails ==
    /\ flight.step \in DOMAIN After
    /\ flight' = [flight EXCEPT
                    !.step = After[flight.step],
                    !.failed = @ \cup {flight.step},
                    !.locked = @ /\ flight.step # "executor",
                    !.readFailed = TRUE,
                    !.status = IF flight.step = "config"
                               THEN "CANARY_NOT_READY" ELSE @]

PreflightStep ==
    /\ \/ \E c \in Configs : Start(c)
       \/ CheckIdentity \/ CheckOwner \/ CheckCode
       \/ CheckFeedIdentity("weth-identity", wethFeed, "weth-round")
       \/ CheckFeedRound("weth-round", wethFeed, flight.config.wethAge,
                         "nvda-identity")
       \/ CheckFeedIdentity("nvda-identity", nvdaFeed, "nvda-round")
       \/ CheckFeedRound("nvda-round", nvdaFeed, flight.config.nvdaAge,
                         "oracle")
       \/ CheckOraclePaused \/ CheckConfig \/ CheckLock \/ Report
       \/ ReadFails
    /\ UNCHANGED <<worldVars, clientVars, executor>>

(* The executor is deployed paused, unpaused and paused again.             *)
MoveExecutor ==
    /\ moves < MaxMoves
    /\ moves' = moves + 1
    /\ executor' \in CASE executor = "none" -> {"paused"}
                       [] executor = "paused" -> {"live"}
                       [] executor = "live" -> {"paused"}
    /\ flight' = [flight EXCEPT !.quiet = FALSE]
    /\ UNCHANGED <<now, feedVars, registry, routersAt, clientVars>>

WorldMovesOn ==
    /\ WorldStep
    /\ flight' = [flight EXCEPT !.quiet = FALSE]
    /\ UNCHANGED executor

PreflightSpec ==
    WorldStart /\ ClientInit /\ PreflightInit
        /\ [][PreflightStep \/ WorldMovesOn \/ MoveExecutor]_
               <<worldVars, clientVars, preflightVars>>

----------------------------------------------------------------------------
(* PROPERTIES *)

(* The report is exact: when the chain stood still and every read was      *)
(* answered, it says CANARY_BUILD_READY_EXECUTION_LOCKED exactly if the    *)
(* executor cannot run and, once unpaused with this configuration, the     *)
(* contract would find the pinned router current and both feeds fresh.     *)
ReportIsExact ==
    flight.step = "reported" /\ flight.quiet /\ ~flight.readFailed
      /\ flight.config # None
    => LET c == flight.config
       IN  flight.status = "CANARY_BUILD_READY_EXECUTION_LOCKED"
             <=> /\ c.executor => executor # "live"
                 /\ ~registry.paused /\ registry.current \in PinnedRouters
                 /\ FeedFresh(wethFeed, c.wethAge)
                 /\ FeedFresh(nvdaFeed, c.nvdaAge)
                 /\ ~oraclePaused
                 /\ ConfigOk(c)
=============================================================================
