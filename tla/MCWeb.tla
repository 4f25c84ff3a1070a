-------------------------------- MODULE MCWeb --------------------------------
(***************************************************************************)
(* A small instance of the web application for TLC.  Its three parts share *)
(* nothing but the page, so that each is explored alone (`part'): the      *)
(* lives of transactions, the account and its panels, the transparency     *)
(* panel.                                                                  *)
(***************************************************************************)
EXTENDS WalletTx, Dashboard, Transparency

VARIABLE part

webVars == <<walletVars, dashboardVars, transparencyVars>>

WebInit ==
    /\ part \in {"transactions", "account", "transparency"}
    /\ WalletInit
    /\ DashboardInit
    /\ TransparencyInit
    /\ part # "transactions" =>
           positions = << >> /\ allowance = [k \in DOMAIN allowance |-> FALSE]

WebNext ==
    /\ \/ /\ part = "transactions"
          /\ WalletNext
          /\ UNCHANGED <<dashboardVars, transparencyVars>>
       \/ /\ part = "account"
          /\ DashboardNext
          /\ UNCHANGED <<walletVars, transparencyVars>>
       \/ /\ part = "transparency"
          /\ TransparencyNext
          /\ UNCHANGED <<walletVars, dashboardVars>>
    /\ UNCHANGED part

WebSpec == WebInit /\ [][WebNext]_<<part, webVars>>
=============================================================================
