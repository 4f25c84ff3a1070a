------------------------- MODULE TradeRouter_proofs -------------------------
(***************************************************************************)
(* Proofs about TradeRouter, for every set of accounts, amounts and        *)
(* outputs, and whatever the venue does within its approval and its        *)
(* balance.  The whole of a swap comes down to two transfers               *)
(* (SwapIsTwoTransfers), and a trade to a sequence of transfers and one    *)
(* burn; what each of these keeps is a lemma.                              *)
(***************************************************************************)
EXTENDS TradeRouter, Sums_proofs

Balances == [Tokens -> [Addresses -> Nat]]

(* The inductive invariant *)
RouterInv ==
    /\ RouterTypeOK
    /\ OnlyGiftsRemain
    /\ SupplyAccountsForBurns
    /\ BudgetsMatchRates

----------------------------------------------------------------------------
(* Transfers and burns *)

LEMMA SystemApart ==
    /\ router \in Addresses /\ adapter \in Addresses /\ venue \in Addresses
    /\ stockBudgetRecipient \in Addresses
    /\ weth \in Tokens /\ bps \in Tokens /\ weth # bps
    /\ router # adapter /\ router # venue /\ router # stockBudgetRecipient
    /\ adapter # venue /\ adapter # stockBudgetRecipient
    /\ venue # stockBudgetRecipient
    /\ \A a \in Callers : /\ a \in Addresses
                          /\ a \notin {router, adapter, venue,
                                       stockBudgetRecipient}
BY RouterAssumption DEF Addresses, System, Tokens

LEMMA AddressesFinite == IsFiniteSet(Addresses)
<1>1. IsFiniteSet(System)
  <2>1. /\ IsFiniteSet({router}) /\ IsFiniteSet({adapter})
        /\ IsFiniteSet({venue}) /\ IsFiniteSet({stockBudgetRecipient})
    BY FS_Singleton
  <2>2. IsFiniteSet({router} \cup {adapter})
    BY <2>1, FS_Union
  <2>3. IsFiniteSet({venue} \cup {stockBudgetRecipient})
    BY <2>1, FS_Union
  <2>4. System = ({router} \cup {adapter}) \cup ({venue} \cup {stockBudgetRecipient})
    BY DEF System
  <2> QED  BY <2>2, <2>3, <2>4, FS_Union
<1> QED  BY <1>1, RouterAssumption, FS_Union DEF Addresses

(* A transfer, address by address *)
LEMMA MovedAt ==
    ASSUME NEW b \in Balances, NEW t \in Tokens, NEW from \in Addresses,
           NEW to \in Addresses, NEW n \in Nat, b[t][from] >= n
    PROVE  /\ Moved(b, t, from, to, n) \in Balances
           /\ \A a \in Addresses :
                  Moved(b, t, from, to, n)[t][a] =
                      b[t][a] + (IF a = to THEN n ELSE 0)
                              - (IF a = from THEN n ELSE 0)
           /\ \A u \in Tokens : u # t => Moved(b, t, from, to, n)[u] = b[u]
<1> DEFINE row == [a \in Addresses |->
               b[t][a] + (IF a = to THEN n ELSE 0)
                       - (IF a = from THEN n ELSE 0)]
<1>1. row \in [Addresses -> Nat]
  BY DEF Balances
<1>2. Moved(b, t, from, to, n) = [b EXCEPT ![t] = row]
  BY DEF Moved
<1>3. \A a \in Addresses : row[a] = b[t][a] + (IF a = to THEN n ELSE 0)
                                            - (IF a = from THEN n ELSE 0)
  OBVIOUS
<1> HIDE DEF row
<1> QED  BY <1>1, <1>2, <1>3 DEF Balances

(* keeps the sum of every token's balances, *)
LEMMA MovedHeld ==
    ASSUME NEW b \in Balances, NEW t \in Tokens, NEW from \in Addresses,
           NEW to \in Addresses, NEW n \in Nat, b[t][from] >= n,
           NEW u \in Tokens
    PROVE  Held(Moved(b, t, from, to, n), u) = Held(b, u)
<1> DEFINE m == Moved(b, t, from, to, n)
           f == b[u]
           g == m[u]
           d == [a \in Addresses |-> f[a] + (IF a = to THEN n ELSE 0)]
<1>1. /\ m \in Balances
      /\ \A a \in Addresses : m[t][a] = b[t][a] + (IF a = to THEN n ELSE 0)
                                                - (IF a = from THEN n ELSE 0)
      /\ u # t => m[u] = b[u]
  BY MovedAt
<1>2. Held(m, u) = SumFunctionOnSet(g, Addresses)
      /\ Held(b, u) = SumFunctionOnSet(f, Addresses)
  BY DEF Held
<1>3. CASE u # t
  BY <1>1, <1>2, <1>3
<1>4. CASE u = t
  <2>1. \A a \in Addresses : /\ f[a] \in Int /\ g[a] \in Int /\ d[a] \in Int
                             /\ d[a] = f[a] + (IF a = to THEN n ELSE 0)
                             /\ g[a] = d[a] - (IF a = from THEN n ELSE 0)
    <3> SUFFICES ASSUME NEW a \in Addresses
                 PROVE  /\ f[a] \in Int /\ g[a] \in Int /\ d[a] \in Int
                        /\ d[a] = f[a] + (IF a = to THEN n ELSE 0)
                        /\ g[a] = d[a] - (IF a = from THEN n ELSE 0)
      OBVIOUS
    <3>1. f[a] \in Nat /\ g[a] \in Nat
      BY <1>1 DEF Balances
    <3>2. d[a] = f[a] + (IF a = to THEN n ELSE 0)
      OBVIOUS
    <3>3. g[a] = f[a] + (IF a = to THEN n ELSE 0) - (IF a = from THEN n ELSE 0)
      BY <1>1, <1>4
    <3> HIDE DEF f, g, d, m
    <3> QED  BY <3>1, <3>2, <3>3
  <2> HIDE DEF m, f, g, d
  <2>2. SumFunctionOnSet(d, Addresses)
            = SumFunctionOnSet(f, Addresses) + (d[to] - f[to])
    <3>1. \A a \in Addresses : a # to => d[a] = f[a]
      BY <2>1
    <3> QED  BY <2>1, <3>1, AddressesFinite, SumUpdate
  <2>3. SumFunctionOnSet(g, Addresses)
            = SumFunctionOnSet(d, Addresses) + (g[from] - d[from])
    <3>1. \A a \in Addresses : a # from => g[a] = d[a]
      BY <2>1
    <3> QED  BY <2>1, <3>1, AddressesFinite, SumUpdate
  <2>4. d[to] - f[to] = n /\ g[from] - d[from] = 0 - n
    BY <2>1
  <2>5. SumFunctionOnSet(f, Addresses) \in Int
    BY <2>1, AddressesFinite, SumType
  <2> QED  BY <1>2, <2>2, <2>3, <2>4, <2>5 DEF m
<1> QED  BY <1>3, <1>4

(* and a burn takes what it burns from one of them. *)
LEMMA BurntAt ==
    ASSUME NEW b \in Balances, NEW from \in Addresses, NEW n \in Nat,
           b[bps][from] >= n
    PROVE  /\ Burnt(b, from, n) \in Balances
           /\ Burnt(b, from, n)[bps][from] = b[bps][from] - n
           /\ \A a \in Addresses :
                  a # from => Burnt(b, from, n)[bps][a] = b[bps][a]
           /\ Burnt(b, from, n)[weth] = b[weth]
           /\ Held(Burnt(b, from, n), bps) = Held(b, bps) - n
           /\ Held(Burnt(b, from, n), weth) = Held(b, weth)
<1> DEFINE m == Burnt(b, from, n)
           f == b[bps]
           g == m[bps]
<1>1. /\ m \in Balances
      /\ g[from] = f[from] - n
      /\ \A a \in Addresses : a # from => g[a] = f[a]
      /\ m[weth] = b[weth]
  BY SystemApart DEF Burnt, Balances
<1>2. \A a \in Addresses : f[a] \in Int /\ g[a] \in Int
  BY <1>1, SystemApart DEF Balances
<1>3. /\ Held(m, bps) = SumFunctionOnSet(g, Addresses)
      /\ Held(b, bps) = SumFunctionOnSet(f, Addresses)
      /\ Held(m, weth) = Held(b, weth)
  BY <1>1 DEF Held
<1>4. SumFunctionOnSet(g, Addresses)
          = SumFunctionOnSet(f, Addresses) + (g[from] - f[from])
  <2> HIDE DEF m, f, g
  <2> QED  BY <1>1, <1>2, AddressesFinite, SumUpdate
<1>5. SumFunctionOnSet(f, Addresses) \in Int
  <2> HIDE DEF m, f, g
  <2> QED  BY <1>2, AddressesFinite, SumType
<1>6. f[from] \in Int /\ g[from] \in Int
  BY <1>2
<1> HIDE DEF f, g
<1>7. Held(m, bps) = Held(b, bps) - n
  BY <1>1, <1>3, <1>4, <1>5, <1>6
<1> QED  BY <1>1, <1>3, <1>7 DEF f, g

(* Balances are what they say of each token and each address. *)
LEMMA SameBalances ==
    ASSUME NEW x \in Balances, NEW y \in Balances,
           \A t \in Tokens, a \in Addresses : x[t][a] = y[t][a]
    PROVE  x = y
<1>1. ASSUME NEW t \in Tokens PROVE x[t] = y[t]
  <2>1. x[t] \in [Addresses -> Nat] /\ y[t] \in [Addresses -> Nat]
    BY DEF Balances
  <2> QED  BY <2>1
<1> QED  BY <1>1 DEF Balances

LEMMA MovedNothing ==
    ASSUME NEW b \in Balances, NEW t \in Tokens, NEW from \in Addresses,
           NEW to \in Addresses
    PROVE  Moved(b, t, from, to, 0) = b
<1> DEFINE m == Moved(b, t, from, to, 0)
<1>1. \A u \in Tokens, a \in Addresses : b[u][a] \in Nat
  BY DEF Balances
<1>2. /\ m \in Balances
      /\ \A a \in Addresses : m[t][a] = b[t][a] + (IF a = to THEN 0 ELSE 0)
                                                - (IF a = from THEN 0 ELSE 0)
      /\ \A u \in Tokens : u # t => m[u] = b[u]
  BY <1>1, MovedAt
<1>3. ASSUME NEW u \in Tokens, NEW a \in Addresses PROVE m[u][a] = b[u][a]
  <2> HIDE DEF m
  <2>1. CASE u = t
    BY <1>1, <1>2, <2>1
  <2>2. CASE u # t
    BY <1>2, <2>2
  <2> QED  BY <2>1, <2>2
<1> HIDE DEF m
<1>4. m = b
  BY <1>2, <1>3, SameBalances
<1> QED  BY <1>4 DEF m

----------------------------------------------------------------------------
(* The swap: whatever the venue did, a call that passes the adapter's and  *)
(* the router's checks moved the declared input to the venue and the       *)
(* reported output to the recipient, and nothing else.                     *)
LEMMA SwapIsTwoTransfers ==
    ASSUME NEW b \in Balances, NEW tin \in Tokens, NEW tout \in Tokens,
           tin # tout, NEW n \in Nat, b[tin][router] >= n, NEW minOut,
           NEW recipient \in Addresses, NEW deadline,
           NEW r \in AdapterSwap(b, tin, tout, n, minOut, recipient, deadline)
    PROVE  /\ r.reported \in Nat
           /\ r.reported <= b[tout][venue]
           /\ r.bal = Moved(Moved(b, tin, router, venue, n),
                            tout, venue, recipient, r.reported)
<1> DEFINE b1 == Moved(b, tin, router, adapter, n)
<1>1. \A t \in Tokens, a \in Addresses : b[t][a] \in Nat
  BY DEF Balances
<1>2. CASE n = 0
  <2>1. r.bal = b /\ r.reported = 0
    BY <1>2 DEF AdapterSwap
  <2>2. Moved(b, tin, router, venue, 0) = b
    BY SystemApart, MovedNothing
  <2>3. Moved(b, tout, venue, recipient, 0) = b
    BY SystemApart, MovedNothing
  <2> QED  BY <1>1, <1>2, <2>1, <2>2, <2>3, SystemApart
<1>3. CASE n # 0
  <2>1. r \in SwapExactInput(b, tin, tout, n, minOut, recipient, deadline)
    BY <1>3 DEF AdapterSwap
  <2>2. /\ r \in VenueResults(b1, tin, tout, n, recipient)
        /\ recipient \notin {adapter, venue}
        /\ r.bal[tout][recipient] - b[tout][recipient] = r.reported
        /\ \A t \in Tokens : r.bal[t][adapter] = b[t][adapter]
    BY <2>1 DEF SwapExactInput, AdapterRecipientOk, SwapVerified
  <2>4. PICK p \in Nat, o \in Nat, m \in Nat :
            /\ p <= n
            /\ o + m <= b1[tout][venue]
            /\ r.bal = Moved(Moved(Moved(b1, tin, adapter, venue, p),
                                   tout, venue, recipient, o),
                             tout, venue, adapter, m)
    <3>1. PICK v \in VenueActs(n, b1[tout][venue]) :
              r = [bal |-> Moved(Moved(Moved(b1, tin, adapter, venue, v.pulled),
                                       tout, venue, recipient, v.delivered),
                                 tout, venue, adapter, v.astray),
                   reported |-> v.reported]
      BY <2>2 DEF VenueResults
    <3>2. /\ v.pulled \in {n, n - 1} /\ v.astray \in {0, 1}
          /\ v.delivered \in SwapOutputs
      BY DEF VenueActs
    <3>3. v.delivered + v.astray <= b1[tout][venue]
      BY DEF VenueActs
    <3>4. v.pulled \in Nat /\ v.pulled <= n
      BY <1>3, <3>2
    <3>5. v.delivered \in Nat /\ v.astray \in Nat
      <4>1. \A x \in SwapOutputs : x \in Nat
        BY RouterAssumption
      <4>2. v.delivered \in Nat
        BY <3>2, <4>1
      <4>3. v.astray = 0 \/ v.astray = 1
        BY <3>2
      <4> QED  BY <4>2, <4>3
    <3> QED  BY <3>1, <3>3, <3>4, <3>5
  <2> DEFINE b2 == Moved(b1, tin, adapter, venue, p)
             b3 == Moved(b2, tout, venue, recipient, o)
             b4 == Moved(b3, tout, venue, adapter, m)
             c1 == Moved(b, tin, router, venue, n)
             c2 == Moved(c1, tout, venue, recipient, o)
  <2>5. r.bal = b4
    BY <2>4
  <2>6. /\ b1 \in Balances /\ b1[tout] = b[tout]
        /\ \A a \in Addresses : b1[tin][a] = b[tin][a]
               + (IF a = adapter THEN n ELSE 0) - (IF a = router THEN n ELSE 0)
    BY SystemApart, MovedAt
  <2>7. b1[tin][adapter] >= p
    BY <1>1, <2>4, <2>6, SystemApart
  <2> HIDE DEF b1
  <2>8. /\ b2 \in Balances /\ b2[tout] = b[tout]
        /\ \A a \in Addresses : b2[tin][a] = b1[tin][a]
               + (IF a = venue THEN p ELSE 0)
               - (IF a = adapter THEN p ELSE 0)
    BY <2>4, <2>6, <2>7, SystemApart, MovedAt
  <2>9. b[tout][venue] \in Nat /\ o + m <= b[tout][venue]
    BY <1>1, <2>4, <2>6, SystemApart
  <2>10. b2[tout][venue] >= o
    BY <2>4, <2>8, <2>9
  <2> HIDE DEF b2
  <2>11. /\ b3 \in Balances /\ b3[tin] = b2[tin]
         /\ \A a \in Addresses : b3[tout][a] = b2[tout][a]
                + (IF a = recipient THEN o ELSE 0)
                - (IF a = venue THEN o ELSE 0)
    <3>1. b2 \in Balances /\ venue \in Addresses
      BY <2>8, SystemApart
    <3> QED  BY <2>10, <3>1, MovedAt
  <2>12. b3[tout][venue] >= m
    BY <2>2, <2>4, <2>8, <2>9, <2>11, SystemApart
  <2> HIDE DEF b3
  <2>13. /\ b4 \in Balances /\ b4[tin] = b3[tin]
         /\ \A a \in Addresses : b4[tout][a] = b3[tout][a]
                + (IF a = adapter THEN m ELSE 0)
                - (IF a = venue THEN m ELSE 0)
    BY <2>4, <2>11, <2>12, SystemApart, MovedAt
  <2> HIDE DEF b4
  <2>14. b4[tin][adapter] = b[tin][adapter] /\ b4[tout][adapter] = b[tout][adapter]
    BY <2>2, <2>5
  <2>15. p = n
    <3>1. b4[tin][adapter] = b[tin][adapter] + n - p
      BY <1>1, <2>4, <2>6, <2>8, <2>11, <2>13, SystemApart
    <3> QED  BY <1>1, <2>4, <2>14, <3>1, SystemApart
  <2>16. m = 0
    <3>1. b4[tout][adapter] = b[tout][adapter] + m
      BY <1>1, <2>2, <2>4, <2>8, <2>11, <2>13, SystemApart
    <3> QED  BY <1>1, <2>4, <2>14, <3>1, SystemApart
  <2>17. r.reported = o
    <3>1. b4[tout][recipient] = b[tout][recipient] + o
      BY <1>1, <2>2, <2>4, <2>8, <2>11, <2>13, SystemApart
    <3> QED  BY <1>1, <2>2, <2>4, <2>5, <3>1
  <2>18. /\ c1 \in Balances /\ c1[tout] = b[tout]
         /\ \A a \in Addresses : c1[tin][a] = b[tin][a]
                + (IF a = venue THEN n ELSE 0) - (IF a = router THEN n ELSE 0)
    BY SystemApart, MovedAt
  <2> HIDE DEF c1
  <2>19. /\ c2 \in Balances /\ c2[tin] = c1[tin]
         /\ \A a \in Addresses : c2[tout][a] = c1[tout][a]
                + (IF a = recipient THEN o ELSE 0)
                - (IF a = venue THEN o ELSE 0)
    <3>1. c1[tout][venue] >= o
      BY <2>4, <2>9, <2>18
    <3>2. c1 \in Balances /\ venue \in Addresses
      BY <2>18, SystemApart
    <3> QED  BY <3>1, <3>2, MovedAt
  <2> HIDE DEF c2
  <2>20. ASSUME NEW t \in Tokens, NEW a \in Addresses
         PROVE  b4[t][a] = c2[t][a]
    <3>1. b[t][a] \in Nat
      BY <1>1
    <3>2. CASE t = tin
      <4>1. b4[tin][a] = b[tin][a]
                + (IF a = adapter THEN n ELSE 0) - (IF a = router THEN n ELSE 0)
                + (IF a = venue THEN n ELSE 0) - (IF a = adapter THEN n ELSE 0)
        BY <2>6, <2>8, <2>11, <2>13, <2>15
      <4>2. c2[tin][a] = b[tin][a]
                + (IF a = venue THEN n ELSE 0) - (IF a = router THEN n ELSE 0)
        BY <2>18, <2>19
      <4> QED  BY <3>1, <3>2, <4>1, <4>2, SystemApart
    <3>3. CASE t = tout
      <4>1. b4[tout][a] = b[tout][a]
                + (IF a = recipient THEN o ELSE 0)
                - (IF a = venue THEN o ELSE 0)
                + (IF a = adapter THEN 0 ELSE 0) - (IF a = venue THEN 0 ELSE 0)
        BY <2>8, <2>11, <2>13, <2>16
      <4>2. c2[tout][a] = b[tout][a]
                + (IF a = recipient THEN o ELSE 0)
                - (IF a = venue THEN o ELSE 0)
        BY <2>18, <2>19
      <4> QED  BY <2>4, <3>1, <3>3, <4>1, <4>2
    <3> QED  BY <3>2, <3>3 DEF Tokens
  <2>21. b4 = c2
    BY <2>13, <2>19, <2>20, SameBalances
  <2> QED  BY <2>4, <2>5, <2>9, <2>17, <2>21 DEF c1, c2
<1> QED  BY <1>2, <1>3

----------------------------------------------------------------------------
(* What every part of a trade keeps from the balances b to the balances c: *)
(* the WETH in circulation, the adapter's balances, and what the stock     *)
(* budget's recipient was sent.                                            *)
Keeps(b, c) ==
    /\ c \in Balances
    /\ Held(c, weth) = Held(b, weth)
    /\ \A u \in Tokens : c[u][adapter] = b[u][adapter]
    /\ c[weth][stockBudgetRecipient] >= b[weth][stockBudgetRecipient]

LEMMA KeepsOn ==
    ASSUME NEW b \in Balances, NEW c, NEW d, Keeps(b, c), Keeps(c, d)
    PROVE  Keeps(b, d)
<1>1. \A x \in Balances : x[weth][stockBudgetRecipient] \in Nat
  BY SystemApart DEF Balances
<1> QED  BY <1>1 DEF Keeps

(* A transfer between others than the adapter, and not out of the stock    *)
(* budget's account                                                        *)
LEMMA TransferKeeps ==
    ASSUME NEW b \in Balances, NEW t \in Tokens, NEW from \in Addresses,
           NEW to \in Addresses, NEW n \in Nat, b[t][from] >= n,
           from # adapter, to # adapter, from # stockBudgetRecipient
    PROVE  LET m == Moved(b, t, from, to, n) IN
           /\ Keeps(b, m)
           /\ Held(m, bps) = Held(b, bps)
           /\ t = weth /\ to = stockBudgetRecipient =>
                  m[weth][stockBudgetRecipient]
                      = b[weth][stockBudgetRecipient] + n
           /\ m[t][router] = b[t][router] + (IF to = router THEN n ELSE 0)
                                 - (IF from = router THEN n ELSE 0)
           /\ \A u \in Tokens : u # t => m[u][router] = b[u][router]
<1> DEFINE m == Moved(b, t, from, to, n)
           sbr == stockBudgetRecipient
<1>1. /\ m \in Balances
      /\ \A a \in Addresses : m[t][a] = b[t][a] + (IF a = to THEN n ELSE 0)
                                                - (IF a = from THEN n ELSE 0)
      /\ \A u \in Tokens : u # t => m[u] = b[u]
  BY MovedAt
<1>2. Held(m, weth) = Held(b, weth) /\ Held(m, bps) = Held(b, bps)
  BY MovedHeld, SystemApart
<1>3. \A u \in Tokens, a \in Addresses : b[u][a] \in Nat
  BY DEF Balances
<1> HIDE DEF m
<1>4. ASSUME NEW u \in Tokens PROVE m[u][adapter] = b[u][adapter]
  <2>1. CASE u = t
    BY <1>1, <1>3, <2>1, SystemApart
  <2>2. CASE u # t
    BY <1>1, <2>2
  <2> QED  BY <2>1, <2>2
<1>5. m[weth][sbr] = b[weth][sbr] + (IF t = weth /\ to = sbr THEN n ELSE 0)
  <2>1. CASE t = weth
    BY <1>1, <1>3, <2>1, SystemApart
  <2>2. CASE t # weth
    BY <1>1, <1>3, <2>2, SystemApart
  <2> QED  BY <2>1, <2>2
<1>6. m[weth][sbr] >= b[weth][sbr]
  BY <1>3, <1>5, SystemApart
<1>7. t = weth /\ to = sbr => m[weth][sbr] = b[weth][sbr] + n
  BY <1>5
<1>8. /\ m[t][router] = b[t][router] + (IF router = to THEN n ELSE 0)
                            - (IF router = from THEN n ELSE 0)
      /\ \A u \in Tokens : u # t => m[u][router] = b[u][router]
  BY <1>1, SystemApart
<1>9. Keeps(b, m)
  BY <1>1, <1>2, <1>4, <1>6 DEF Keeps
<1> QED  BY <1>2, <1>7, <1>8, <1>9 DEF m

(* _adapterSwap *)
LEMMA SwapKeeps ==
    ASSUME NEW b \in Balances, NEW tin \in Tokens, NEW tout \in Tokens,
           tin # tout, NEW n \in Nat, b[tin][router] >= n, NEW minOut,
           NEW recipient \in Addresses, recipient # adapter, NEW deadline,
           NEW r \in AdapterSwap(b, tin, tout, n, minOut, recipient, deadline)
    PROVE  /\ r.reported \in Nat
           /\ Keeps(b, r.bal)
           /\ Held(r.bal, bps) = Held(b, bps)
           /\ r.bal[tin][router] = b[tin][router] - n
           /\ r.bal[tout][router] = b[tout][router]
                  + (IF recipient = router THEN r.reported ELSE 0)
<1> DEFINE c == Moved(b, tin, router, venue, n)
           o == r.reported
<1>1. /\ o \in Nat /\ o <= b[tout][venue]
      /\ r.bal = Moved(c, tout, venue, recipient, o)
  BY SwapIsTwoTransfers
<1>2. \A u \in Tokens, a \in Addresses : b[u][a] \in Nat
  BY DEF Balances
<1>3. /\ Keeps(b, c)
      /\ Held(c, bps) = Held(b, bps)
      /\ c[tin][router] = b[tin][router] - n
      /\ c[tout][router] = b[tout][router]
  <2>1. /\ Keeps(b, c)
        /\ Held(c, bps) = Held(b, bps)
        /\ c[tin][router] = b[tin][router] + (IF venue = router THEN n ELSE 0)
               - (IF router = router THEN n ELSE 0)
        /\ \A u \in Tokens : u # tin => c[u][router] = b[u][router]
    BY TransferKeeps, SystemApart
  <2> HIDE DEF c
  <2> QED  BY <1>2, <2>1, SystemApart
<1>4. c[tout] = b[tout] /\ c \in Balances
  BY MovedAt, SystemApart
<1> HIDE DEF c
<1>5. c[tout][venue] >= o
  BY <1>1, <1>4
<1> HIDE DEF o
<1> DEFINE d == Moved(c, tout, venue, recipient, o)
<1>6. /\ Keeps(c, d)
      /\ Held(d, bps) = Held(c, bps)
      /\ d[tout][router] = c[tout][router]
             + (IF recipient = router THEN o ELSE 0)
      /\ d[tin][router] = c[tin][router]
  <2>1. /\ Keeps(c, d)
        /\ Held(d, bps) = Held(c, bps)
        /\ d[tout][router] = c[tout][router]
               + (IF recipient = router THEN o ELSE 0)
               - (IF venue = router THEN o ELSE 0)
        /\ \A u \in Tokens : u # tout => d[u][router] = c[u][router]
    <3>1. /\ c \in Balances /\ tout \in Tokens /\ o \in Nat
          /\ venue \in Addresses /\ recipient \in Addresses
          /\ c[tout][venue] >= o
          /\ venue # adapter /\ recipient # adapter
          /\ venue # stockBudgetRecipient
      BY <1>1, <1>4, <1>5, SystemApart
    <3> HIDE DEF d
    <3>2. LET m == Moved(c, tout, venue, recipient, o) IN
          /\ Keeps(c, m)
          /\ Held(m, bps) = Held(c, bps)
          /\ m[tout][router] = c[tout][router]
                 + (IF recipient = router THEN o ELSE 0)
                 - (IF venue = router THEN o ELSE 0)
          /\ \A u \in Tokens : u # tout => m[u][router] = c[u][router]
      BY <3>1, TransferKeeps
    <3> QED  BY <3>2 DEF d
  <2>2. c[tout][router] \in Nat
    BY <1>4, SystemApart DEF Balances
  <2> HIDE DEF d
  <2> QED  BY <1>1, <2>1, <2>2, SystemApart
<1>7. r.bal = d
  BY <1>1
<1> HIDE DEF d
<1>8. Keeps(b, d)
  BY <1>3, <1>6, KeepsOn
<1> QED  BY <1>1, <1>3, <1>6, <1>7, <1>8 DEF o

(* _buybackAndBurn *)
LEMMA BuybackKeeps ==
    ASSUME NEW b \in Balances, NEW n \in Nat, b[weth][router] >= n, NEW minOut,
           NEW deadline, NEW r \in BuybackAndBurn(b, n, minOut, deadline)
    PROVE  /\ r.reported \in Nat
           /\ Keeps(b, r.bal)
           /\ Held(r.bal, bps) = Held(b, bps) - r.reported
<1>1. PICK x \in AdapterSwap(b, weth, bps, n, minOut, router, deadline) :
          r = [bal |-> Burnt(x.bal, router, x.reported),
               reported |-> x.reported]
  BY DEF BuybackAndBurn
<1> DEFINE c == x.bal
           o == x.reported
           d == Burnt(c, router, o)
<1>2. /\ o \in Nat
      /\ Keeps(b, c)
      /\ Held(c, bps) = Held(b, bps)
      /\ c[bps][router] = b[bps][router] + o
  BY SwapKeeps, SystemApart
<1>3. r.bal = d /\ r.reported = o
  BY <1>1
<1> HIDE DEF c, o
<1>4. c \in Balances /\ c[bps][router] >= o
  <2>1. b[bps][router] \in Nat
    BY SystemApart DEF Balances
  <2> QED  BY <1>2, <2>1 DEF Keeps
<1>5. /\ d \in Balances
      /\ \A a \in Addresses : a # router => d[bps][a] = c[bps][a]
      /\ d[weth] = c[weth]
      /\ Held(d, bps) = Held(c, bps) - o
      /\ Held(d, weth) = Held(c, weth)
  BY <1>2, <1>4, BurntAt, SystemApart
<1> HIDE DEF d
<1>6. Keeps(c, d)
  <2>1. \A u \in Tokens : d[u][adapter] = c[u][adapter]
    BY <1>5, SystemApart DEF Tokens
  <2>2. c[weth][stockBudgetRecipient] \in Nat
    BY <1>4, SystemApart DEF Balances
  <2> QED  BY <1>5, <2>1, <2>2 DEF Keeps
<1>7. Keeps(b, d)
  BY <1>2, <1>6, KeepsOn
<1> QED  BY <1>2, <1>3, <1>5, <1>7

----------------------------------------------------------------------------
(* Trades *)

(* Math.mulDiv(amount, rate, 10000) at the two rates, rounded down *)
LEMMA CutFloor ==
    ASSUME NEW n \in Nat
    PROVE  /\ Cut(n, 200) \in Nat
           /\ Cut(n, 200) * 10000 <= n * 200
           /\ n * 200 <= Cut(n, 200) * 10000 + 10000
           /\ Cut(n, 100) \in Nat
           /\ Cut(n, 100) * 10000 <= n * 100
           /\ n * 100 <= Cut(n, 100) * 10000 + 10000
<1>1. ASSUME NEW p \in Nat
      PROVE  /\ p \div 10000 \in Nat
             /\ (p \div 10000) * 10000 <= p
             /\ p <= (p \div 10000) * 10000 + 10000
  OBVIOUS
<1>2. /\ Cut(n, 200) = (n * 200) \div 10000
      /\ Cut(n, 100) = (n * 100) \div 10000
  BY DEF Cut, BPS_DENOMINATOR
<1>3. n * 200 \in Nat /\ n * 100 \in Nat
  OBVIOUS
<1> QED  BY <1>1, <1>2, <1>3

(* The budgets leave the trader something of every amount. *)
LEMMA CutsFit ==
    ASSUME NEW n \in Nat
    PROVE  n - Cut(n, 200) - Cut(n, 100) \in Nat /\ n - Cut(n, 200) - Cut(n, 200) \in Nat
<1> DEFINE x == Cut(n, 200)
           y == Cut(n, 100)
<1>1. /\ x \in Nat /\ x * 10000 <= n * 200
      /\ y \in Nat /\ y * 10000 <= n * 100
  BY CutFloor
<1> HIDE DEF x, y
<1>2. n - x - y \in Nat /\ n - x - x \in Nat
  BY <1>1
<1> QED  BY <1>2 DEF x, y

(* What a trade does to the balances: nothing sticks to the router or the  *)
(* adapter, the stock budget arrives, and the burn is a burn.              *)
TradeBooks(stockBudget, burnt) ==
    /\ burnt \in Nat
    /\ bal' \in Balances
    /\ Held(bal', weth) = Held(bal, weth)
    /\ Held(bal', bps) = Held(bal, bps) - burnt
    /\ \A t \in Tokens, a \in {router, adapter} : bal'[t][a] = bal[t][a]
    /\ bal'[weth][stockBudgetRecipient]
           >= bal[weth][stockBudgetRecipient] + stockBudget
    /\ totalSupply' = totalSupply - burnt
    /\ totalBpsBurned' = totalBpsBurned + burnt

(* _deliverStockBudget *)
LEMMA BudgetArrives ==
    ASSUME NEW b \in Balances, NEW n \in Nat, b[weth][router] >= n
    PROVE  /\ Keeps(b, Budgeted(b, n))
           /\ Held(Budgeted(b, n), bps) = Held(b, bps)
           /\ Budgeted(b, n)[weth][stockBudgetRecipient]
                  = b[weth][stockBudgetRecipient] + n
           /\ Budgeted(b, n)[weth][router] = b[weth][router] - n
           /\ Budgeted(b, n)[bps][router] = b[bps][router]
<1> DEFINE m == Moved(b, weth, router, stockBudgetRecipient, n)
<1>1. /\ Keeps(b, m)
      /\ Held(m, bps) = Held(b, bps)
      /\ m[weth][stockBudgetRecipient] = b[weth][stockBudgetRecipient] + n
      /\ m[weth][router] = b[weth][router]
             + (IF stockBudgetRecipient = router THEN n ELSE 0)
             - (IF router = router THEN n ELSE 0)
      /\ \A u \in Tokens : u # weth => m[u][router] = b[u][router]
  BY TransferKeeps, SystemApart
<1>2. m = Budgeted(b, n)
  BY DEF Budgeted
<1>3. b[weth][router] \in Nat
  BY SystemApart DEF Balances
<1> HIDE DEF m
<1> QED  BY <1>1, <1>2, <1>3, SystemApart

(* _pullExact *)
LEMMA PullArrives ==
    ASSUME NEW b \in Balances, NEW t \in Tokens, NEW trader \in Callers,
           NEW n \in Nat, b[t][trader] >= n
    PROVE  /\ Keeps(b, Moved(b, t, trader, router, n))
           /\ Held(Moved(b, t, trader, router, n), bps) = Held(b, bps)
           /\ Moved(b, t, trader, router, n)[t][router] = b[t][router] + n
           /\ \A u \in Tokens : u # t =>
                  Moved(b, t, trader, router, n)[u][router] = b[u][router]
<1> DEFINE m == Moved(b, t, trader, router, n)
<1>1. /\ Keeps(b, m)
      /\ Held(m, bps) = Held(b, bps)
      /\ m[t][router] = b[t][router]
             + (IF router = router THEN n ELSE 0)
             - (IF trader = router THEN n ELSE 0)
      /\ \A u \in Tokens : u # t => m[u][router] = b[u][router]
  BY TransferKeeps, SystemApart
<1>2. b[t][router] \in Nat /\ trader # router
  BY SystemApart DEF Balances
<1> HIDE DEF m
<1>3. m[t][router] = b[t][router] + n
  BY <1>1, <1>2
<1> QED  BY <1>1, <1>3 DEF m

(* buyExactWethForBps *)
LEMMA BuyEffect ==
    ASSUME bal \in Balances, NEW trader \in Callers, NEW gross \in Nat,
           NEW minUser, NEW minBurn, NEW recipient \in Recipients, NEW deadline,
           Buy(trader, gross, minUser, minBurn, recipient, deadline)
    PROVE  \E burnt : TradeBooks(Cut(gross, 200), burnt)
<1> DEFINE sb == Cut(gross, 200)
           bb == Cut(gross, 100)
           uw == gross - sb - bb
           b1 == Moved(bal, weth, trader, router, gross)
           b2 == Budgeted(b1, sb)
           R == bal[weth][router]
<1>1. /\ sb \in Nat /\ bb \in Nat /\ uw \in Nat
  BY CutFloor, CutsFit
<1>2. /\ recipient \in Addresses /\ recipient # router /\ recipient # adapter
      /\ bal[weth][trader] >= gross
  BY RouterAssumption DEF Buy, RouterRecipientOk, CanPay
<1>3. PICK user \in AdapterSwap(b2, weth, bps, uw, minUser, recipient, deadline) :
      \E burn \in BuybackAndBurn(user.bal, bb, minBurn, deadline) :
           /\ NoNewResidue(burn.bal)
           /\ bal' = burn.bal
           /\ totalSupply' = totalSupply - burn.reported
           /\ totalBpsBurned' = totalBpsBurned + burn.reported
  BY DEF Buy, BuyStockBudget, BUY_STOCK_BPS, BUY_BURN_BPS
<1>4. PICK burn \in BuybackAndBurn(user.bal, bb, minBurn, deadline) :
           /\ NoNewResidue(burn.bal)
           /\ bal' = burn.bal
           /\ totalSupply' = totalSupply - burn.reported
           /\ totalBpsBurned' = totalBpsBurned + burn.reported
  BY <1>3
<1>5. R \in Nat
  BY SystemApart DEF Balances
<1> HIDE DEF sb, bb, uw
<1>6. /\ Keeps(bal, b1) /\ Held(b1, bps) = Held(bal, bps)
      /\ b1[weth][router] = R + gross
  BY <1>2, PullArrives, SystemApart
<1>7. b1 \in Balances /\ b1[weth][router] >= sb
  BY <1>1, <1>5, <1>6 DEF Keeps, uw
<1> HIDE DEF b1, R
<1>8. /\ Keeps(b1, b2) /\ Held(b2, bps) = Held(b1, bps)
      /\ b2[weth][stockBudgetRecipient] = b1[weth][stockBudgetRecipient] + sb
      /\ b2[weth][router] = b1[weth][router] - sb
  BY <1>1, <1>7, BudgetArrives
<1>9. /\ b2 \in Balances /\ b2[weth][router] = R + gross - sb
      /\ b2[weth][router] >= uw
  BY <1>1, <1>5, <1>6, <1>8 DEF Keeps, uw
<1> HIDE DEF b2
<1>10. /\ Keeps(b2, user.bal) /\ Held(user.bal, bps) = Held(b2, bps)
       /\ user.bal[weth][router] = b2[weth][router] - uw
  BY <1>1, <1>2, <1>9, SwapKeeps, SystemApart
<1>11. user.bal \in Balances /\ user.bal[weth][router] >= bb
  <2>1. user.bal[weth][router] = R + gross - sb - uw
    BY <1>1, <1>5, <1>9, <1>10
  <2> QED  BY <1>1, <1>5, <1>10, <2>1 DEF Keeps, uw
<1>12. /\ burn.reported \in Nat
       /\ Keeps(user.bal, burn.bal)
       /\ Held(burn.bal, bps) = Held(user.bal, bps) - burn.reported
  BY <1>1, <1>11, BuybackKeeps
<1>13. Keeps(bal, burn.bal) /\ Keeps(b2, burn.bal)
  BY <1>6, <1>7, <1>8, <1>9, <1>10, <1>11, <1>12, KeepsOn
<1>14. burn.bal[weth][stockBudgetRecipient]
           >= bal[weth][stockBudgetRecipient] + sb
  <2>1. \A x \in Balances : x[weth][stockBudgetRecipient] \in Nat
    BY SystemApart DEF Balances
  <2>2. /\ bal[weth][stockBudgetRecipient] \in Nat
        /\ b1[weth][stockBudgetRecipient] \in Nat
        /\ burn.bal[weth][stockBudgetRecipient] \in Nat
    BY <1>7, <1>13, <2>1 DEF Keeps
  <2> QED  BY <1>1, <1>6, <1>8, <1>13, <2>2 DEF Keeps
<1>15. \A t \in Tokens, a \in {router, adapter} : burn.bal[t][a] = bal[t][a]
  BY <1>4, <1>13 DEF NoNewResidue, Keeps
<1>16. TradeBooks(sb, burn.reported)
  BY <1>4, <1>6, <1>8, <1>10, <1>12, <1>13, <1>14, <1>15 DEF TradeBooks, Keeps
<1> QED  BY <1>16 DEF sb

(* sellExactBpsForWeth *)
LEMMA SellEffect ==
    ASSUME bal \in Balances, NEW trader \in Callers, NEW gross \in Nat,
           NEW minGross, NEW minUser, NEW minBurn,
           NEW recipient \in Recipients, NEW deadline,
           Sell(trader, gross, minGross, minUser, minBurn, recipient, deadline)
    PROVE  \E burnt, proceeds \in Nat :
               /\ TradeBooks(Cut(proceeds, 200), burnt)
               /\ grossWethFromSells' = grossWethFromSells + proceeds
               /\ totalStockBudgetDelivered'
                      = totalStockBudgetDelivered + Cut(proceeds, 200)
               /\ totalBurnBudgetConsumed'
                      = totalBurnBudgetConsumed + Cut(proceeds, 200)
<1> DEFINE b1 == Moved(bal, bps, trader, router, gross)
           R == bal[weth][router]
<1>1. PICK sold \in AdapterSwap(b1, bps, weth, gross, minGross, router, deadline) :
       LET stockBudget == Cut(sold.reported, SELL_STOCK_BPS)
           burnBudget == Cut(sold.reported, SELL_BURN_BPS)
           userWethOutput == sold.reported - stockBudget - burnBudget
           budgeted == Budgeted(sold.bal, stockBudget)
           paidOut == Moved(budgeted, weth, router, recipient, userWethOutput)
       IN
       /\ userWethOutput >= minUser
       /\ \E burn \in BuybackAndBurn(paidOut, burnBudget, minBurn, deadline) :
              /\ NoNewResidue(burn.bal)
              /\ bal' = burn.bal
              /\ totalSupply' = totalSupply - burn.reported
              /\ totalBpsBurned' = totalBpsBurned + burn.reported
       /\ grossWethFromSells' = grossWethFromSells + sold.reported
       /\ totalStockBudgetDelivered' = totalStockBudgetDelivered + stockBudget
       /\ totalBurnBudgetConsumed' = totalBurnBudgetConsumed + burnBudget
  BY DEF Sell
<1> DEFINE n == sold.reported
           sb == Cut(n, 200)
           uw == n - sb - sb
           b3 == Budgeted(sold.bal, sb)
           b4 == Moved(b3, weth, router, recipient, uw)
<1>2. /\ \E burn \in BuybackAndBurn(b4, sb, minBurn, deadline) :
              /\ NoNewResidue(burn.bal)
              /\ bal' = burn.bal
              /\ totalSupply' = totalSupply - burn.reported
              /\ totalBpsBurned' = totalBpsBurned + burn.reported
      /\ grossWethFromSells' = grossWethFromSells + n
      /\ totalStockBudgetDelivered' = totalStockBudgetDelivered + sb
      /\ totalBurnBudgetConsumed' = totalBurnBudgetConsumed + sb
  BY <1>1 DEF SELL_STOCK_BPS, SELL_BURN_BPS
<1>3. PICK burn \in BuybackAndBurn(b4, sb, minBurn, deadline) :
              /\ NoNewResidue(burn.bal)
              /\ bal' = burn.bal
              /\ totalSupply' = totalSupply - burn.reported
              /\ totalBpsBurned' = totalBpsBurned + burn.reported
  BY <1>2
<1>4. /\ recipient \in Addresses /\ recipient # router /\ recipient # adapter
      /\ bal[bps][trader] >= gross
  BY RouterAssumption DEF Sell, RouterRecipientOk, CanPay
<1>5. R \in Nat /\ bal[bps][router] \in Nat
  BY SystemApart DEF Balances
<1>6. /\ Keeps(bal, b1) /\ Held(b1, bps) = Held(bal, bps)
      /\ b1[bps][router] = bal[bps][router] + gross
      /\ b1[weth][router] = R
  BY <1>4, PullArrives, SystemApart
<1>7. b1 \in Balances /\ b1[bps][router] >= gross
  BY <1>5, <1>6 DEF Keeps
<1> HIDE DEF b1
<1>8. /\ n \in Nat
      /\ Keeps(b1, sold.bal) /\ Held(sold.bal, bps) = Held(b1, bps)
      /\ sold.bal[weth][router] = b1[weth][router] + n
  BY <1>7, SwapKeeps, SystemApart
<1>9. sold.bal \in Balances /\ sold.bal[weth][router] = R + n
  BY <1>6, <1>8 DEF Keeps
<1> HIDE DEF n
<1>10. sb \in Nat /\ uw \in Nat
  BY <1>8, CutFloor, CutsFit
<1> HIDE DEF sb, uw, R
<1>11. sold.bal[weth][router] >= sb
  BY <1>5, <1>8, <1>9, <1>10 DEF uw
<1>12. /\ Keeps(sold.bal, b3) /\ Held(b3, bps) = Held(sold.bal, bps)
       /\ b3[weth][stockBudgetRecipient]
              = sold.bal[weth][stockBudgetRecipient] + sb
       /\ b3[weth][router] = sold.bal[weth][router] - sb
  BY <1>9, <1>10, <1>11, BudgetArrives
<1>13. b3 \in Balances /\ b3[weth][router] = R + n - sb
       /\ b3[weth][router] >= uw
  BY <1>5, <1>8, <1>9, <1>10, <1>12 DEF Keeps, uw
<1> HIDE DEF b3
<1>14. /\ Keeps(b3, b4) /\ Held(b4, bps) = Held(b3, bps)
       /\ b4[weth][router] = b3[weth][router]
              + (IF recipient = router THEN uw ELSE 0)
              - (IF router = router THEN uw ELSE 0)
  BY <1>4, <1>10, <1>13, TransferKeeps, SystemApart
<1>15. b4 \in Balances /\ b4[weth][router] >= sb
  BY <1>4, <1>5, <1>8, <1>10, <1>13, <1>14 DEF Keeps, uw
<1> HIDE DEF b4
<1>16. /\ burn.reported \in Nat
       /\ Keeps(b4, burn.bal)
       /\ Held(burn.bal, bps) = Held(b4, bps) - burn.reported
  BY <1>10, <1>15, BuybackKeeps
<1>17. /\ Keeps(bal, sold.bal) /\ Keeps(b3, burn.bal) /\ Keeps(sold.bal, burn.bal)
  BY <1>6, <1>7, <1>8, <1>9, <1>12, <1>13, <1>14, <1>15, <1>16, KeepsOn
<1>18. Keeps(bal, burn.bal)
  BY <1>9, <1>17, KeepsOn
<1>19. burn.bal[weth][stockBudgetRecipient]
           >= bal[weth][stockBudgetRecipient] + sb
  <2>1. \A x \in Balances : x[weth][stockBudgetRecipient] \in Nat
    BY SystemApart DEF Balances
  <2>2. /\ bal[weth][stockBudgetRecipient] \in Nat
        /\ sold.bal[weth][stockBudgetRecipient] \in Nat
        /\ burn.bal[weth][stockBudgetRecipient] \in Nat
    BY <1>9, <1>18, <2>1 DEF Keeps
  <2> QED  BY <1>10, <1>12, <1>17, <2>2 DEF Keeps
<1>20. \A t \in Tokens, a \in {router, adapter} : burn.bal[t][a] = bal[t][a]
  BY <1>3, <1>18 DEF NoNewResidue, Keeps
<1>21. TradeBooks(sb, burn.reported)
  BY <1>3, <1>6, <1>8, <1>12, <1>14, <1>16, <1>18, <1>19, <1>20
     DEF TradeBooks, Keeps
<1> QED  BY <1>2, <1>8, <1>16, <1>21 DEF sb

----------------------------------------------------------------------------
(* The invariant *)

LEMMA HeldNat ==
    ASSUME NEW b \in Balances, NEW t \in Tokens
    PROVE  Held(b, t) \in Nat
<1> DEFINE f == b[t]
<1>1. \A a \in Addresses : f[a] \in Nat
  BY DEF Balances
<1> HIDE DEF f
<1>2. SumFunctionOnSet(f, Addresses) \in Nat
  BY <1>1, AddressesFinite, SumBound
<1> QED  BY <1>2 DEF Held, f

(* What the rates allow, from the counters *)
LEMMA BudgetsUnfold ==
    BudgetsMatchRates <=>
        /\ totalStockBudgetDelivered * 10000
               <= 200 * totalGrossWethInFromBuys + 200 * grossWethFromSells
        /\ 200 * totalGrossWethInFromBuys + 200 * grossWethFromSells
               <= (totalStockBudgetDelivered + tradeCount) * 10000
        /\ totalBurnBudgetConsumed * 10000
               <= 100 * totalGrossWethInFromBuys + 200 * grossWethFromSells
        /\ 100 * totalGrossWethInFromBuys + 200 * grossWethFromSells
               <= (totalBurnBudgetConsumed + tradeCount) * 10000
        /\ bal[weth][stockBudgetRecipient]
               >= totalStockBudgetDelivered + gifts[weth][stockBudgetRecipient]
BY DEF BudgetsMatchRates, BPS_DENOMINATOR, BUY_STOCK_BPS, SELL_STOCK_BPS,
       BUY_BURN_BPS, SELL_BURN_BPS

(* The numbers of the invariant *)
LEMMA RouterNumbers ==
    ASSUME RouterInv
    PROVE  /\ totalSupply \in Nat /\ tradeCount \in Nat /\ totalBuys \in Nat
           /\ totalSells \in Nat /\ totalGrossWethInFromBuys \in Nat
           /\ totalGrossBpsInFromSells \in Nat
           /\ totalStockBudgetDelivered \in Nat
           /\ totalBurnBudgetConsumed \in Nat /\ totalBpsBurned \in Nat
           /\ grossWethFromSells \in Nat /\ burnedByHolders \in Nat
           /\ bal \in Balances /\ gifts \in Balances
           /\ bal[weth][stockBudgetRecipient] \in Nat
           /\ gifts[weth][stockBudgetRecipient] \in Nat
<1>1. bal \in Balances /\ gifts \in Balances
  BY DEF RouterInv, RouterTypeOK, Balances
<1>2. /\ totalSupply \in Nat /\ tradeCount \in Nat /\ totalBuys \in Nat
      /\ totalSells \in Nat /\ totalGrossWethInFromBuys \in Nat
      /\ totalGrossBpsInFromSells \in Nat
      /\ totalStockBudgetDelivered \in Nat
      /\ totalBurnBudgetConsumed \in Nat /\ totalBpsBurned \in Nat
      /\ grossWethFromSells \in Nat /\ burnedByHolders \in Nat
  BY DEF RouterInv, RouterTypeOK
<1> QED  BY <1>1, <1>2, SystemApart DEF Balances

(* A trade keeps the tokens accounted for. *)
LEMMA TradeAccounts ==
    ASSUME RouterInv, NEW stockBudget \in Nat, NEW burnt,
           TradeBooks(stockBudget, burnt), UNCHANGED <<gifts, burnedByHolders>>
    PROVE  /\ bal' \in Balances
           /\ totalSupply' \in Nat /\ totalBpsBurned' \in Nat
           /\ OnlyGiftsRemain'
           /\ SupplyAccountsForBurns'
           /\ bal'[weth][stockBudgetRecipient]
                  >= totalStockBudgetDelivered + stockBudget
                         + gifts'[weth][stockBudgetRecipient]
<1>1. bal' \in Balances /\ burnt \in Nat /\ Held(bal', bps) \in Nat
  BY HeldNat, SystemApart DEF TradeBooks
<1>2. OnlyGiftsRemain'
  BY DEF TradeBooks, RouterInv, OnlyGiftsRemain
<1>3. /\ Held(bal, bps) = totalSupply
      /\ totalSupply + totalBpsBurned + burnedByHolders
             = Held(InitialBalances, bps)
      /\ Held(bal, weth) = Held(InitialBalances, weth)
  BY DEF RouterInv, SupplyAccountsForBurns
<1>4. /\ Held(bal', bps) = totalSupply - burnt
      /\ totalSupply' = totalSupply - burnt
      /\ totalBpsBurned' = totalBpsBurned + burnt
      /\ burnedByHolders' = burnedByHolders
      /\ Held(bal', weth) = Held(InitialBalances, weth)
  BY <1>3 DEF TradeBooks
<1>5. totalSupply' \in Nat /\ totalBpsBurned' \in Nat
  BY <1>1, <1>4, RouterNumbers
<1>6. SupplyAccountsForBurns'
  <2>1. totalSupply' + totalBpsBurned' + burnedByHolders'
            = Held(InitialBalances, bps)
    BY <1>1, <1>3, <1>4, RouterNumbers
  <2> QED  BY <1>4, <2>1 DEF SupplyAccountsForBurns
<1>7. bal'[weth][stockBudgetRecipient]
          >= totalStockBudgetDelivered + stockBudget
                 + gifts'[weth][stockBudgetRecipient]
  <2>1. bal[weth][stockBudgetRecipient]
            >= totalStockBudgetDelivered + gifts[weth][stockBudgetRecipient]
    BY BudgetsUnfold DEF RouterInv
  <2>2. bal'[weth][stockBudgetRecipient]
            >= bal[weth][stockBudgetRecipient] + stockBudget
    BY DEF TradeBooks
  <2>3. bal'[weth][stockBudgetRecipient] \in Nat
    BY <1>1, SystemApart DEF Balances
  <2> QED  BY <2>1, <2>2, <2>3, RouterNumbers
<1> QED  BY <1>1, <1>2, <1>5, <1>6, <1>7

(* From the parts back to the invariant *)
LEMMA RouterInvFromParts ==
    ASSUME now' \in Times, OwnTypeOK', paused' \in BOOLEAN,
           bal' \in Balances, gifts' \in Balances,
           totalSupply' \in Nat, tradeCount' \in Nat, totalBuys' \in Nat,
           totalSells' \in Nat, totalGrossWethInFromBuys' \in Nat,
           totalGrossBpsInFromSells' \in Nat,
           totalStockBudgetDelivered' \in Nat,
           totalBurnBudgetConsumed' \in Nat, totalBpsBurned' \in Nat,
           grossWethFromSells' \in Nat, burnedByHolders' \in Nat,
           OnlyGiftsRemain', SupplyAccountsForBurns', BudgetsMatchRates'
    PROVE  RouterInv'
BY DEF RouterInv, RouterTypeOK, Balances

LEMMA BuyPreserves ==
    ASSUME RouterInv, NEW trader \in Callers, NEW gross \in GrossInputs,
           NEW minUser, NEW minBurn, NEW recipient \in Recipients, NEW deadline,
           Buy(trader, gross, minUser, minBurn, recipient, deadline), now' = now
    PROVE  RouterInv'
<1> DEFINE sb == Cut(gross, 200)
           bb == Cut(gross, 100)
<1>1. gross \in Nat
  BY RouterAssumption
<1>2. PICK burnt : TradeBooks(sb, burnt)
  BY <1>1, RouterNumbers, BuyEffect
<1>3. /\ sb \in Nat /\ bb \in Nat
      /\ sb * 10000 <= gross * 200 /\ gross * 200 <= sb * 10000 + 10000
      /\ bb * 10000 <= gross * 100 /\ gross * 100 <= bb * 10000 + 10000
  BY <1>1, CutFloor
<1>4. /\ tradeCount' = tradeCount + 1
      /\ totalBuys' = totalBuys + 1
      /\ totalGrossWethInFromBuys' = totalGrossWethInFromBuys + gross
      /\ totalStockBudgetDelivered' = totalStockBudgetDelivered + sb
      /\ totalBurnBudgetConsumed' = totalBurnBudgetConsumed + bb
      /\ UNCHANGED <<paused, totalSells, totalGrossBpsInFromSells,
                     grossWethFromSells, gifts, burnedByHolders, ownVars>>
  BY DEF Buy, BuyStockBudget, BUY_STOCK_BPS, BUY_BURN_BPS
<1> HIDE DEF sb, bb
<1>5. /\ bal' \in Balances
      /\ totalSupply' \in Nat /\ totalBpsBurned' \in Nat
      /\ OnlyGiftsRemain'
      /\ SupplyAccountsForBurns'
      /\ bal'[weth][stockBudgetRecipient]
             >= totalStockBudgetDelivered + sb
                    + gifts'[weth][stockBudgetRecipient]
  BY <1>2, <1>3, <1>4, TradeAccounts
<1>6. BudgetsMatchRates'
  <2>1. BudgetsMatchRates
    BY DEF RouterInv
  <2>2. /\ totalStockBudgetDelivered' * 10000
            <= 200 * totalGrossWethInFromBuys' + 200 * grossWethFromSells'
        /\ 200 * totalGrossWethInFromBuys' + 200 * grossWethFromSells'
               <= (totalStockBudgetDelivered' + tradeCount') * 10000
        /\ totalBurnBudgetConsumed' * 10000
               <= 100 * totalGrossWethInFromBuys' + 200 * grossWethFromSells'
        /\ 100 * totalGrossWethInFromBuys' + 200 * grossWethFromSells'
               <= (totalBurnBudgetConsumed' + tradeCount') * 10000
    BY <1>1, <1>3, <1>4, <2>1, BudgetsUnfold, RouterNumbers
  <2>3. bal'[weth][stockBudgetRecipient]
            >= totalStockBudgetDelivered' + gifts'[weth][stockBudgetRecipient]
    BY <1>4, <1>5
  <2> QED
    BY <2>2, <2>3 DEF BudgetsMatchRates, BPS_DENOMINATOR, BUY_STOCK_BPS,
                      SELL_STOCK_BPS, BUY_BURN_BPS, SELL_BURN_BPS
<1>7. OwnTypeOK' /\ now' \in Times /\ paused' \in BOOLEAN
  BY <1>4 DEF RouterInv, RouterTypeOK, OwnTypeOK, ownVars
<1>8. /\ tradeCount' \in Nat /\ totalBuys' \in Nat
      /\ totalGrossWethInFromBuys' \in Nat
      /\ totalStockBudgetDelivered' \in Nat
      /\ totalBurnBudgetConsumed' \in Nat
      /\ totalSells' \in Nat /\ totalGrossBpsInFromSells' \in Nat
      /\ grossWethFromSells' \in Nat /\ burnedByHolders' \in Nat
      /\ gifts' \in Balances
  BY <1>1, <1>3, <1>4, RouterNumbers
<1> QED  BY <1>5, <1>6, <1>7, <1>8, RouterInvFromParts

LEMMA SellPreserves ==
    ASSUME RouterInv, NEW trader \in Callers, NEW gross \in GrossInputs,
           NEW minGross, NEW minUser, NEW minBurn,
           NEW recipient \in Recipients, NEW deadline,
           Sell(trader, gross, minGross, minUser, minBurn, recipient, deadline),
           now' = now
    PROVE  RouterInv'
<1>1. gross \in Nat
  BY RouterAssumption
<1>2. PICK burnt, n \in Nat :
               /\ TradeBooks(Cut(n, 200), burnt)
               /\ grossWethFromSells' = grossWethFromSells + n
               /\ totalStockBudgetDelivered'
                      = totalStockBudgetDelivered + Cut(n, 200)
               /\ totalBurnBudgetConsumed'
                      = totalBurnBudgetConsumed + Cut(n, 200)
  BY <1>1, RouterNumbers, SellEffect
<1> DEFINE sb == Cut(n, 200)
<1>3. /\ sb \in Nat
      /\ sb * 10000 <= n * 200 /\ n * 200 <= sb * 10000 + 10000
  BY CutFloor
<1>4. /\ tradeCount' = tradeCount + 1
      /\ totalSells' = totalSells + 1
      /\ totalGrossBpsInFromSells' = totalGrossBpsInFromSells + gross
      /\ UNCHANGED <<paused, totalBuys, totalGrossWethInFromBuys, gifts,
                     burnedByHolders, ownVars>>
  BY DEF Sell
<1>5. /\ grossWethFromSells' = grossWethFromSells + n
      /\ totalStockBudgetDelivered' = totalStockBudgetDelivered + sb
      /\ totalBurnBudgetConsumed' = totalBurnBudgetConsumed + sb
  BY <1>2
<1> HIDE DEF sb
<1>6. /\ bal' \in Balances
      /\ totalSupply' \in Nat /\ totalBpsBurned' \in Nat
      /\ OnlyGiftsRemain'
      /\ SupplyAccountsForBurns'
      /\ bal'[weth][stockBudgetRecipient]
             >= totalStockBudgetDelivered + sb
                    + gifts'[weth][stockBudgetRecipient]
  BY <1>2, <1>3, <1>4, TradeAccounts DEF sb
<1>7. BudgetsMatchRates'
  <2>1. BudgetsMatchRates
    BY DEF RouterInv
  <2>2. /\ totalStockBudgetDelivered' * 10000
            <= 200 * totalGrossWethInFromBuys' + 200 * grossWethFromSells'
        /\ 200 * totalGrossWethInFromBuys' + 200 * grossWethFromSells'
               <= (totalStockBudgetDelivered' + tradeCount') * 10000
        /\ totalBurnBudgetConsumed' * 10000
               <= 100 * totalGrossWethInFromBuys' + 200 * grossWethFromSells'
        /\ 100 * totalGrossWethInFromBuys' + 200 * grossWethFromSells'
               <= (totalBurnBudgetConsumed' + tradeCount') * 10000
    BY <1>3, <1>4, <1>5, <2>1, BudgetsUnfold, RouterNumbers
  <2>3. bal'[weth][stockBudgetRecipient]
            >= totalStockBudgetDelivered' + gifts'[weth][stockBudgetRecipient]
    BY <1>5, <1>6
  <2> QED
    BY <2>2, <2>3 DEF BudgetsMatchRates, BPS_DENOMINATOR, BUY_STOCK_BPS,
                      SELL_STOCK_BPS, BUY_BURN_BPS, SELL_BURN_BPS
<1>8. OwnTypeOK' /\ now' \in Times /\ paused' \in BOOLEAN
  BY <1>4 DEF RouterInv, RouterTypeOK, OwnTypeOK, ownVars
<1>9. /\ tradeCount' \in Nat /\ totalBuys' \in Nat
      /\ totalGrossWethInFromBuys' \in Nat
      /\ totalStockBudgetDelivered' \in Nat
      /\ totalBurnBudgetConsumed' \in Nat
      /\ totalSells' \in Nat /\ totalGrossBpsInFromSells' \in Nat
      /\ grossWethFromSells' \in Nat /\ burnedByHolders' \in Nat
      /\ gifts' \in Balances
  BY <1>1, <1>3, <1>4, <1>5, RouterNumbers
<1> QED  BY <1>6, <1>7, <1>8, <1>9, RouterInvFromParts

(* An unsolicited transfer: what the router and the adapter hold grows by  *)
(* what they were given.                                                   *)
LEMMA GiftPreserves ==
    ASSUME RouterInv, NEW from \in Callers, NEW t \in Tokens, NEW to \in System,
           Gift(from, t, to), now' = now
    PROVE  RouterInv'
<1> DEFINE sbr == stockBudgetRecipient
<1>1. /\ bal[t][from] > 0
      /\ bal' = Moved(bal, t, from, to, 1)
      /\ gifts' = [gifts EXCEPT ![t][to] = @ + 1]
      /\ UNCHANGED <<totalSupply, paused, counters, burnedByHolders, ownVars>>
  BY DEF Gift
<1>2. /\ bal \in Balances /\ gifts \in Balances
      /\ from \in Addresses /\ to \in Addresses
      /\ from \notin {router, adapter, sbr}
  BY RouterNumbers, SystemApart DEF Addresses
<1>3. \A u \in Tokens, a \in Addresses :
          bal[u][a] \in Nat /\ gifts[u][a] \in Nat
  BY <1>2 DEF Balances
<1>4. bal[t][from] >= 1
  BY <1>1, <1>2, <1>3
<1>5. /\ bal' \in Balances
      /\ \A a \in Addresses : bal'[t][a] = bal[t][a]
             + (IF a = to THEN 1 ELSE 0) - (IF a = from THEN 1 ELSE 0)
      /\ \A u \in Tokens : u # t => bal'[u] = bal[u]
  BY <1>1, <1>2, <1>4, MovedAt
<1>6. Held(bal', weth) = Held(bal, weth) /\ Held(bal', bps) = Held(bal, bps)
  BY <1>1, <1>2, <1>4, MovedHeld, SystemApart
<1>7. /\ gifts' \in Balances
      /\ \A a \in Addresses : gifts'[t][a] = gifts[t][a]
             + (IF a = to THEN 1 ELSE 0)
      /\ \A u \in Tokens : u # t => gifts'[u] = gifts[u]
  BY <1>1, <1>2, <1>3 DEF Balances
<1>8. ASSUME NEW u \in Tokens, NEW a \in {router, adapter, sbr}
      PROVE  bal'[u][a] - gifts'[u][a] = bal[u][a] - gifts[u][a]
  <2>1. a \in Addresses /\ a # from
    BY <1>2, SystemApart
  <2>2. CASE u = t
    BY <1>3, <1>5, <1>7, <2>1, <2>2
  <2>3. CASE u # t
    BY <1>5, <1>7, <2>3
  <2> QED  BY <2>2, <2>3
<1>9. \A u \in Tokens, a \in Addresses :
          bal'[u][a] \in Nat /\ gifts'[u][a] \in Nat
  BY <1>5, <1>7 DEF Balances
<1>10. OnlyGiftsRemain'
  <2> SUFFICES ASSUME NEW u \in Tokens, NEW a \in {router, adapter}
               PROVE  bal'[u][a] = gifts'[u][a]
    BY DEF OnlyGiftsRemain
  <2>1. bal[u][a] = gifts[u][a] /\ a \in Addresses
    BY SystemApart DEF RouterInv, OnlyGiftsRemain
  <2>2. bal'[u][a] - gifts'[u][a] = bal[u][a] - gifts[u][a]
    BY <1>8
  <2> QED  BY <1>3, <1>9, <2>1, <2>2
<1>11. SupplyAccountsForBurns'
  BY <1>1, <1>6 DEF counters, RouterInv, SupplyAccountsForBurns
<1>12. bal'[weth][sbr] >= totalStockBudgetDelivered' + gifts'[weth][sbr]
  <2>1. bal[weth][sbr] >= totalStockBudgetDelivered + gifts[weth][sbr]
    BY BudgetsUnfold DEF RouterInv
  <2>2. bal'[weth][sbr] - gifts'[weth][sbr] = bal[weth][sbr] - gifts[weth][sbr]
    BY <1>8, SystemApart
  <2>3. totalStockBudgetDelivered' = totalStockBudgetDelivered
    BY <1>1 DEF counters
  <2> QED  BY <1>3, <1>9, <2>1, <2>2, <2>3, RouterNumbers, SystemApart
<1>13. BudgetsMatchRates'
  BY <1>1, <1>12
     DEF counters, RouterInv, BudgetsMatchRates, BPS_DENOMINATOR, BUY_STOCK_BPS,
         SELL_STOCK_BPS, BUY_BURN_BPS, SELL_BURN_BPS
<1>14. OwnTypeOK' /\ now' \in Times /\ paused' \in BOOLEAN
  BY <1>1 DEF RouterInv, RouterTypeOK, OwnTypeOK, ownVars
<1>15. /\ totalSupply' \in Nat /\ tradeCount' \in Nat /\ totalBuys' \in Nat
       /\ totalSells' \in Nat /\ totalGrossWethInFromBuys' \in Nat
       /\ totalGrossBpsInFromSells' \in Nat
       /\ totalStockBudgetDelivered' \in Nat
       /\ totalBurnBudgetConsumed' \in Nat /\ totalBpsBurned' \in Nat
       /\ grossWethFromSells' \in Nat /\ burnedByHolders' \in Nat
  BY <1>1, RouterNumbers DEF counters
<1> QED  BY <1>5, <1>7, <1>10, <1>11, <1>13, <1>14, <1>15, RouterInvFromParts

(* ERC20Burnable.burn *)
LEMMA HolderBurnPreserves ==
    ASSUME RouterInv, NEW holder \in Callers, HolderBurn(holder), now' = now
    PROVE  RouterInv'
<1> DEFINE sbr == stockBudgetRecipient
<1>1. /\ bal[bps][holder] > 0
      /\ bal' = Burnt(bal, holder, 1)
      /\ totalSupply' = totalSupply - 1
      /\ burnedByHolders' = burnedByHolders + 1
      /\ UNCHANGED <<paused, counters, gifts, ownVars>>
  BY DEF HolderBurn
<1>2. /\ bal \in Balances /\ holder \in Addresses
      /\ holder \notin {router, adapter, sbr}
      /\ bal[bps][holder] \in Nat
  BY RouterNumbers, SystemApart DEF Balances
<1>3. bal[bps][holder] >= 1
  BY <1>1, <1>2
<1>4. /\ bal' \in Balances
      /\ \A a \in Addresses : a # holder => bal'[bps][a] = bal[bps][a]
      /\ bal'[weth] = bal[weth]
      /\ Held(bal', bps) = Held(bal, bps) - 1
      /\ Held(bal', weth) = Held(bal, weth)
  BY <1>1, <1>2, <1>3, BurntAt
<1>5. \A u \in Tokens, a \in {router, adapter, sbr} : bal'[u][a] = bal[u][a]
  BY <1>2, <1>4, SystemApart DEF Tokens
<1>6. OnlyGiftsRemain'
  BY <1>1, <1>5 DEF RouterInv, OnlyGiftsRemain
<1>7. Held(bal', bps) \in Nat
  BY <1>4, HeldNat, SystemApart
<1>8. Held(bal, bps) = totalSupply /\ totalSupply' = Held(bal', bps)
  BY <1>1, <1>4 DEF RouterInv, SupplyAccountsForBurns
<1>9. SupplyAccountsForBurns'
  <2>1. totalBpsBurned' = totalBpsBurned
    BY <1>1 DEF counters
  <2>2. totalSupply + totalBpsBurned + burnedByHolders
            = Held(InitialBalances, bps)
    BY DEF RouterInv, SupplyAccountsForBurns
  <2>3. totalSupply' + totalBpsBurned' + burnedByHolders'
            = Held(InitialBalances, bps)
    BY <1>1, <2>1, <2>2, RouterNumbers
  <2> QED  BY <1>4, <1>8, <2>3 DEF RouterInv, SupplyAccountsForBurns
<1>10. BudgetsMatchRates'
  <2>1. bal'[weth][sbr] = bal[weth][sbr]
    BY <1>4
  <2> QED  BY <1>1, <2>1 DEF counters, RouterInv, BudgetsMatchRates
<1>11. OwnTypeOK' /\ now' \in Times /\ paused' \in BOOLEAN
  BY <1>1 DEF RouterInv, RouterTypeOK, OwnTypeOK, ownVars
<1>12. /\ tradeCount' \in Nat /\ totalBuys' \in Nat
       /\ totalSells' \in Nat /\ totalGrossWethInFromBuys' \in Nat
       /\ totalGrossBpsInFromSells' \in Nat
       /\ totalStockBudgetDelivered' \in Nat
       /\ totalBurnBudgetConsumed' \in Nat /\ totalBpsBurned' \in Nat
       /\ grossWethFromSells' \in Nat /\ burnedByHolders' \in Nat
       /\ gifts' \in Balances
  BY <1>1, RouterNumbers DEF counters
<1> QED  BY <1>4, <1>6, <1>7, <1>8, <1>9, <1>10, <1>11, <1>12, RouterInvFromParts

(* Steps that move no token and count no trade *)
LEMMA QuietRouterPreserves ==
    ASSUME RouterInv,
           UNCHANGED <<bal, totalSupply, counters, gifts, burnedByHolders>>,
           paused' \in BOOLEAN, OwnTypeOK', now' \in Times
    PROVE  RouterInv'
<1>1. OnlyGiftsRemain' /\ SupplyAccountsForBurns' /\ BudgetsMatchRates'
  BY DEF counters, RouterInv, OnlyGiftsRemain, SupplyAccountsForBurns,
         BudgetsMatchRates
<1>2. /\ bal' \in Balances /\ gifts' \in Balances /\ totalSupply' \in Nat
      /\ tradeCount' \in Nat /\ totalBuys' \in Nat
      /\ totalSells' \in Nat /\ totalGrossWethInFromBuys' \in Nat
      /\ totalGrossBpsInFromSells' \in Nat
      /\ totalStockBudgetDelivered' \in Nat
      /\ totalBurnBudgetConsumed' \in Nat /\ totalBpsBurned' \in Nat
      /\ grossWethFromSells' \in Nat /\ burnedByHolders' \in Nat
  BY RouterNumbers DEF counters
<1> QED  BY <1>1, <1>2, RouterInvFromParts

LEMMA RouterStarts == RouterStart => RouterInv
<1> SUFFICES ASSUME RouterStart PROVE RouterInv
  OBVIOUS
<1>1. /\ bal = InitialBalances /\ totalSupply = Held(InitialBalances, bps)
      /\ paused = FALSE /\ tradeCount = 0 /\ totalBuys = 0 /\ totalSells = 0
      /\ totalGrossWethInFromBuys = 0 /\ totalGrossBpsInFromSells = 0
      /\ totalStockBudgetDelivered = 0 /\ totalBurnBudgetConsumed = 0
      /\ totalBpsBurned = 0 /\ grossWethFromSells = 0
      /\ gifts = [t \in Tokens |-> [a \in Addresses |-> 0]]
      /\ burnedByHolders = 0
  BY DEF RouterStart, RouterInit
<1>2. /\ InitialBalances \in Balances
      /\ \A t \in Tokens, a \in {router, adapter} : InitialBalances[t][a] = 0
      /\ InitialBalances[weth][stockBudgetRecipient] = 0
  BY RouterAssumption DEF Balances
<1>3. /\ Held(InitialBalances, bps) \in Nat
  BY <1>2, HeldNat, SystemApart
<1>4. now \in Times /\ OwnTypeOK
  BY ChainAssumption, RouterAssumption
     DEF RouterStart, RouterInit, OwnInit, OwnTypeOK, Times
<1>5. RouterTypeOK
  <2>1. gifts \in [Tokens -> [Addresses -> Nat]]
    BY <1>1
  <2>2. bal \in [Tokens -> [Addresses -> Nat]] /\ paused \in BOOLEAN
    BY <1>1, <1>2 DEF Balances
  <2>3. \A n \in {totalSupply, tradeCount, totalBuys, totalSells,
                  totalGrossWethInFromBuys, totalGrossBpsInFromSells,
                  totalStockBudgetDelivered, totalBurnBudgetConsumed,
                  totalBpsBurned, grossWethFromSells, burnedByHolders} :
            n \in Nat
    BY <1>1, <1>3
  <2> QED  BY <1>4, <2>1, <2>2, <2>3 DEF RouterTypeOK
<1>6. OnlyGiftsRemain
  BY <1>1, <1>2, SystemApart DEF OnlyGiftsRemain
<1>7. SupplyAccountsForBurns
  BY <1>1, <1>3 DEF SupplyAccountsForBurns
<1>8. BudgetsMatchRates
  BY <1>1, <1>2, SystemApart, BudgetsUnfold
<1> QED  BY <1>5, <1>6, <1>7, <1>8 DEF RouterInv

LEMMA RouterNextInv ==
    RouterInv /\ [RouterNext]_<<now, routerVars, ownVars>> => RouterInv'
<1> SUFFICES ASSUME RouterInv, [RouterNext]_<<now, routerVars, ownVars>>
             PROVE  RouterInv'
  OBVIOUS
<1>1. OwnTypeOK /\ now \in Times /\ paused \in BOOLEAN
  BY DEF RouterInv, RouterTypeOK
<1>2. CASE Trade /\ UNCHANGED now
  <2>1. ASSUME NEW trader \in Callers, NEW gross \in GrossInputs,
               NEW minUser \in Minimums, NEW minBurn \in Minimums,
               NEW to \in Recipients, NEW deadline \in Deadlines,
               Buy(trader, gross, minUser, minBurn, to, deadline)
        PROVE  RouterInv'
    BY <1>2, <2>1, BuyPreserves
  <2>2. ASSUME NEW trader \in Callers, NEW gross \in GrossInputs,
               NEW minUser \in Minimums, NEW minBurn \in Minimums,
               NEW to \in Recipients, NEW deadline \in Deadlines,
               NEW minGross \in Minimums,
               Sell(trader, gross, minGross, minUser, minBurn, to, deadline)
        PROVE  RouterInv'
    BY <1>2, <2>2, SellPreserves
  <2> QED  BY <1>2, <2>1, <2>2 DEF Trade
<1>3. ASSUME NEW caller \in Callers, Pause(caller) \/ Unpause(caller),
             UNCHANGED now
      PROVE  RouterInv'
  BY <1>1, <1>3, QuietRouterPreserves
     DEF Pause, Unpause, OwnTypeOK, ownVars
<1>4. CASE RouterOwnership /\ UNCHANGED now
  <2>1. OwnTypeOK'
    BY <1>1, <1>4 DEF RouterOwnership, TransferOwnership, AcceptOwnership, OwnTypeOK
  <2>2. /\ UNCHANGED <<bal, totalSupply, counters, gifts, burnedByHolders>>
        /\ paused' = paused
    BY <1>4 DEF RouterOwnership, routerVars
  <2> QED  BY <1>1, <1>4, <2>1, <2>2, QuietRouterPreserves
<1>5. ASSUME NEW from \in Callers, NEW t \in Tokens, NEW to \in System,
             Gift(from, t, to), UNCHANGED now
      PROVE  RouterInv'
  BY <1>5, GiftPreserves
<1>6. ASSUME NEW holder \in Callers, HolderBurn(holder), UNCHANGED now
      PROVE  RouterInv'
  BY <1>6, HolderBurnPreserves
<1>7. CASE \/ Tick /\ UNCHANGED <<routerVars, ownVars>>
           \/ UNCHANGED <<now, routerVars, ownVars>>
  <2>1. now' \in Times
    BY <1>1, <1>7, ChainAssumption DEF Tick, Times
  <2>2. OwnTypeOK'
    BY <1>1, <1>7 DEF OwnTypeOK, ownVars
  <2>3. /\ UNCHANGED <<bal, totalSupply, counters, gifts, burnedByHolders>>
        /\ paused' = paused
    BY <1>7 DEF routerVars
  <2> QED  BY <1>1, <2>1, <2>2, <2>3, QuietRouterPreserves
<1> QED  BY <1>2, <1>3, <1>4, <1>5, <1>6, <1>7 DEF RouterNext, RouterCall

LEMMA RouterInvAlways == RouterSpec => []RouterInv
BY RouterStarts, RouterNextInv, PTL DEF RouterSpec

(* BPSTradeRouter's counters and the balances stay in range: no trade, gift *)
(* or burn underflows.                                                     *)
THEOREM RouterTyped == RouterSpec => []RouterTypeOK
<1>1. RouterInv => RouterTypeOK
  BY DEF RouterInv
<1> QED  BY <1>1, RouterInvAlways, PTL

(* buyExactWethForBps, sellExactBpsForWeth and swapExactInput leave nothing *)
(* behind: whatever the venue pulls, delivers, sends astray or reports, the *)
(* router and the adapter hold what they were given and no more.           *)
THEOREM NoResidue == RouterSpec => []OnlyGiftsRemain
<1>1. RouterInv => OnlyGiftsRemain
  BY DEF RouterInv
<1> QED  BY <1>1, RouterInvAlways, PTL

(* _buybackAndBurn and BPSToken: WETH is conserved through every trade and *)
(* the supply falls by exactly the burns on record.                        *)
THEOREM SupplyAccounted == RouterSpec => []SupplyAccountsForBurns
<1>1. RouterInv => SupplyAccountsForBurns
  BY DEF RouterInv
<1> QED  BY <1>1, RouterInvAlways, PTL

(* The budgets of buys and sells, rounded down trade by trade, follow the  *)
(* published rates to less than a unit per trade, and the acquisition      *)
(* vault was really sent its part.                                         *)
THEOREM RatesMatched == RouterSpec => []BudgetsMatchRates
<1>1. RouterInv => BudgetsMatchRates
  BY DEF RouterInv
<1> QED  BY <1>1, RouterInvAlways, PTL
=============================================================================
