--------------------------- MODULE MCClaimManager ---------------------------
(***************************************************************************)
(* Small instances for TLC of the two contracts that keep stock, each      *)
(* alone and against anything its neighbours may do (`part'); their        *)
(* composition is checked in MCFundingCoordinator.                         *)
(***************************************************************************)
EXTENDS ClaimManager, AcquisitionVault

CONSTANTS c1, c2, w1, w2, s1, s2, executor, stranger

VARIABLE part

custodyVars == <<now, mgrVars, vaultVars>>

(* overlapping windows, and one of length zero *)
ClaimWindows == {<<1, 2>>, <<2, 3>>, <<2, 2>>}

Leaf(c, w, a, n) == [cycle |-> c, claimant |-> w, asset |-> a, amount |-> n]
Entry(a, n, r) == [asset |-> a, amount |-> n, received |-> r]

(* A root of cycle c1 that its fundings may cover, and one of cycle c2     *)
(* that promises more s1 than it may be funded with and holds two leaves   *)
(* of one claimant.  Either can be published under the other cycle.        *)
MCRoots ==
    { {Leaf(c1, w1, s1, 1), Leaf(c1, w1, s2, 2), Leaf(c1, w2, s2, 1)},
      {Leaf(c2, w1, s1, 1), Leaf(c2, w1, s1, 2), Leaf(c2, w2, s1, 2),
       Leaf(c2, w2, s2, 1)} }

(* funding in both stocks or in one, a short credit, a repeated asset, a   *)
(* zero amount, the zero address, no asset at all                          *)
MCFundings ==
    { <<Entry(s1, 1, 1), Entry(s2, 3, 3)>>, <<Entry(s2, 1, 1), Entry(s1, 3, 3)>>,
      <<Entry(s2, 3, 3)>>, <<Entry(s1, 2, 2), Entry(s2, 2, 1)>>,
      <<Entry(s1, 1, 1), Entry(s1, 1, 1)>>, <<Entry(s1, 0, 0)>>,
      <<Entry(ZeroAddress, 1, 1)>>, << >> }

(* The vault knows no window, only deadlines: one tick passes the early one *)
VaultMaxTime == 1

ManagerTick == part = "manager" /\ Tick /\ UNCHANGED <<mgrVars, vaultVars>>
ManagerSweep(c, a) ==
    part = "manager" /\ RecoverExpired(c, a) /\ UNCHANGED <<now, vaultVars>>

CustodyInit ==
    /\ part \in {"manager", "vault"}
    /\ MgrStart
    /\ VaultInit

CustodyNext ==
    /\ \/ part = "manager" /\ MgrNext /\ UNCHANGED vaultVars
       \/ /\ part = "vault"
          /\ VaultNext
          /\ now' <= VaultMaxTime
          /\ UNCHANGED mgrVars
    /\ UNCHANGED part

(* MgrFairness, in the part it is about *)
CustodySpec ==
    /\ CustodyInit
    /\ [][CustodyNext]_<<part, custodyVars>>
    /\ WF_custodyVars(ManagerTick)
    /\ \A c \in Cycles, a \in StockTokens : WF_custodyVars(ManagerSweep(c, a))
=============================================================================
