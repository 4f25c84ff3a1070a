------------------------ MODULE MCFundingCoordinator ------------------------
(* Small instances of the composed distribution pipeline for TLC. *)
EXTENDS FundingCoordinator, TLC

CONSTANTS s1, s2, w1, w2, operator, publisher, coordinator, routerA, weth

Leaf(c, w, a, n) == [cycle |-> c, claimant |-> w, asset |-> a, amount |-> n]

ClaimWindows == {<<1, 2>>, <<2, 2>>}

(* a good quote, one that goes stale, one for the wrong target and one     *)
(* without calldata                                                        *)
PipelineQuotes ==
    { [target |-> routerA, quoteDeadline |-> MaxTime, hasSelector |-> TRUE],
      [target |-> routerA, quoteDeadline |-> 0, hasSelector |-> TRUE],
      [target |-> weth, quoteDeadline |-> MaxTime, hasSelector |-> TRUE],
      [target |-> routerA, quoteDeadline |-> MaxTime, hasSelector |-> FALSE] }

(* Cycle id 0 is a cycle id like any other (it is also the default of      *)
(* AcquisitionRecord.cycleId).  Both roots leave a unit of dust in the     *)
(* smaller pots, and promise less than 4, the larger pot.                  *)
PipelineRoots ==
    { {Leaf(0, w1, s1, 1), Leaf(0, w2, s1, 2)},
      {Leaf(1, w1, s1, 1), Leaf(1, w2, s1, 1)} }
=============================================================================
