-------------------------- MODULE ProofOfDistribution --------------------------
(***************************************************************************)
(* packages/shared/src/proof-of-distribution: from a cycle fixture (start  *)
(* balances, transfer logs, locks, eligibility rows, acquired assets) to   *)
(* time-weighted balances, shares of each asset and the leaves of the      *)
(* claim tree.  runProofOfDistribution throws at the first check that      *)
(* fails; the model keeps its stages, and the steps of its integration,    *)
(* as actions.  Addresses and policy versions are abstract; an epoch is    *)
(* EPOCH_SECONDS long, and the lock terms are shortened with it.           *)
(*                                                                         *)
(* Operators whose name ends in _Defect... are faulty variants of the one  *)
(* that follows them; each breaks a property (see the README).             *)
(***************************************************************************)
EXTENDS Integers, Sequences, FiniteSets, FiniteSetsExt, Functions

CONSTANTS
    Wallets,        \* holders, the locking vault among them
    Zero,           \* ZERO_ADDRESS, the other side of a mint or a burn
    EPOCH_SECONDS,
    TIER_SPECS,     \* tier -> [multiplierBps, durationSeconds]
    Fixtures        \* the cycle fixtures the pipeline is run on

ASSUME PodAssumption ==
    /\ EPOCH_SECONDS \in Nat \ {0}
    /\ Zero \notin Wallets
    /\ IsFiniteSet(Wallets) /\ IsFiniteSet(DOMAIN TIER_SPECS)
    /\ \A tier \in DOMAIN TIER_SPECS :
           /\ TIER_SPECS[tier].multiplierBps \in Nat
           /\ TIER_SPECS[tier].durationSeconds \in Nat
    /\ \A f \in Fixtures :
           /\ {f.cycle.epochStart, f.cycle.epochEnd} \subseteq Int
           /\ f.startBalances \in [Wallets -> Nat]
           /\ f.transfers \in Seq(Range(f.transfers))
           /\ \A tr \in Range(f.transfers) :
                  /\ {tr.pos, tr.timestamp} \subseteq Int
                  /\ tr.amount \in Nat
                  /\ {tr.from, tr.to} \subseteq Wallets \cup {Zero}
           /\ IsFiniteSet(f.locks)
           /\ \A l \in f.locks :
                  /\ l.wallet \in Wallets /\ l.principal \in Nat
                  /\ {l.start, l.unlock, l.withdrawal} \subseteq Int
           /\ f.eligibility \in Seq(Range(f.eligibility))
           /\ \A r \in Range(f.eligibility) : r.wallet \in Wallets
           /\ f.assets \in Seq(Range(f.assets))
           /\ \A a \in Range(f.assets) : a.acquired \in Nat

None == -1
Tiers == DOMAIN TIER_SPECS
BPS_DENOMINATOR == 10000
PARTICIPANT_POOL_BPS == 8000

VARIABLES
    fixture,      \* the input
    stage,        \* what runs next, "done" or "failed"
    error,        \* the code of the failure
    logs,         \* canonicalizeTransfers
    balances,     \* of each wallet, as transfers are applied
    cursor,       \* transfers applied
    tCur,         \* where the integration is
    baseSeconds, unlockedSeconds, lockedSeconds,
    weights,      \* computeWeights
    eligible,     \* resolveEligibility: the rows of eligibleWallets
    allocations,  \* allocate: one per asset
    leaves        \* buildMerkle: what the root commits to

inputVars == <<fixture>>
integral == <<balances, cursor, tCur, baseSeconds, unlockedSeconds,
              lockedSeconds>>
results == <<weights, eligible, allocations, leaves>>
podVars == <<inputVars, stage, error, logs, integral, results>>

ZeroEach == [w \in Wallets |-> 0]

PodInit ==
    /\ fixture \in Fixtures
    /\ stage = "load"
    /\ error = "none"
    /\ logs = << >>
    /\ balances = ZeroEach
    /\ cursor = 0
    /\ tCur = 0
    /\ baseSeconds = ZeroEach
    /\ unlockedSeconds = ZeroEach
    /\ lockedSeconds = [w \in Wallets |-> [tier \in Tiers |-> 0]]
    /\ weights = << >>
    /\ eligible = {}
    /\ allocations = << >>
    /\ leaves = {}

E0 == fixture.cycle.epochStart
E1 == fixture.cycle.epochEnd

mulDivFloor(a, b, d) == (a * b) \div d

(* PodError: the pipeline throws *)
Throw(code) ==
    /\ stage' = "failed"
    /\ error' = code
    /\ UNCHANGED <<inputVars, logs, integral, results>>

----------------------------------------------------------------------------
(* loadCycleFixture *)

CycleOk(c) ==
    /\ c.epochStart = c.epochId * EPOCH_SECONDS
    /\ c.epochEnd = c.epochStart + EPOCH_SECONDS
    /\ c.startBlock <= c.snapshotBlock /\ c.snapshotBlock <= c.endBlock
    /\ c.endBlock <= c.finalizedBlock
    /\ c.claimStart <= c.claimDeadline

(* no DUPLICATE_HOLDER, DUPLICATE_ASSET, DUPLICATE_EXCLUSION *)
OneRowEach(keys) == \A i, j \in DOMAIN keys : keys[i] = keys[j] => i = j

TransferOk(t, c) == c.epochStart <= t.timestamp /\ t.timestamp <= c.epochEnd

LockOk(l) ==
    /\ l.tier \in Tiers
    /\ l.unlock - l.start = TIER_SPECS[l.tier].durationSeconds
    /\ l.withdrawal = None \/ l.withdrawal >= l.start

FixtureOk(f) ==
    /\ CycleOk(f.cycle)
    /\ OneRowEach([i \in DOMAIN f.eligibility |-> f.eligibility[i].wallet])
    /\ OneRowEach([i \in DOMAIN f.assets |-> f.assets[i].token])
    /\ \A i \in DOMAIN f.transfers : TransferOk(f.transfers[i], f.cycle)
    /\ \A l \in f.locks : LockOk(l)

LoadCycleFixture ==
    /\ stage = "load"
    /\ \/ /\ FixtureOk(fixture)
          /\ stage' = "canonicalize"
          /\ UNCHANGED <<inputVars, error, logs, integral, results>>
       \/ ~FixtureOk(fixture) /\ Throw("INVALID_FIXTURE")

----------------------------------------------------------------------------
(* computeWeights *)

(* two logs with one identity that are not the same log *)
Conflicting(ts) ==
    \E i, j \in DOMAIN ts : ts[i].id = ts[j].id /\ ts[i] # ts[j]

InOrder_DefectByPosition(a, b) == a.pos < b.pos

(* neither AMBIGUOUS_ORDER nor NONMONOTONIC_TIMESTAMP *)
InOrder(a, b) == a.pos < b.pos /\ a.timestamp <= b.timestamp

(* the logs once each, by position; sort leaves equal positions anyhow     *)
Canonical(ts) ==
    {s \in [1..Cardinality(Range(ts)) -> Range(ts)] :
        /\ Range(s) = Range(ts)
        /\ \A i, j \in DOMAIN s : i < j => s[i].pos <= s[j].pos}

CanonicalizeTransfers ==
    /\ stage = "canonicalize"
    /\ \/ Conflicting(fixture.transfers) /\ Throw("CONFLICTING_LOG")
       \/ /\ ~Conflicting(fixture.transfers)
          /\ \E deduped \in Canonical(fixture.transfers) :
               \/ /\ \E i \in 2..Len(deduped) : ~InOrder(deduped[i-1], deduped[i])
                  /\ Throw("BAD_ORDER")
               \/ /\ \A i \in 2..Len(deduped) : InOrder(deduped[i-1], deduped[i])
                  /\ stage' = "integrate"
                  /\ logs' = deduped
                  /\ balances' = fixture.startBalances
                  /\ tCur' = E0
                  /\ UNCHANGED <<inputVars, error, cursor, baseSeconds,
                                 unlockedSeconds, lockedSeconds, results>>

BonusEnd(l) ==
    IF l.withdrawal # None /\ l.withdrawal < l.unlock THEN l.withdrawal
                                                      ELSE l.unlock

Principal(locks) == SumFunctionOnSet([l \in locks |-> l.principal], locks)

ActiveLocked(w, tier, t) ==
    Principal({l \in fixture.locks : /\ l.wallet = w /\ l.tier = tier
                                     /\ l.start <= t /\ t < BonusEnd(l)})

ActiveTotal(w, t) ==
    SumFunctionOnSet([tier \in Tiers |-> ActiveLocked(w, tier, t)], Tiers)

(* where the integrand can change, and the terminal boundary *)
Breakpoints ==
    {E0, E1} \cup {logs[i].timestamp : i \in DOMAIN logs}
             \cup {t \in UNION {{l.start, l.unlock, BonusEnd(l), l.withdrawal} :
                                   l \in fixture.locks} : E0 < t /\ t < E1}

(* a log of the epoch's last moment is not in the epoch *)
Due == cursor < Len(logs) /\ logs[cursor + 1].timestamp = tCur /\ tCur < E1

Debit(bal, w, n)  == IF w = Zero THEN bal ELSE [bal EXCEPT ![w] = @ - n]
Credit(bal, w, n) == IF w = Zero THEN bal ELSE [bal EXCEPT ![w] = @ + n]

(* applyTransfer, for the next transfer of this instant *)
ApplyTransfer ==
    /\ stage = "integrate"
    /\ Due
    /\ LET tr == logs[cursor + 1]
           short == tr.from # Zero /\ balances[tr.from] < tr.amount
       IN  \/ short /\ Throw("NEGATIVE_BALANCE")
           \/ /\ ~short
              /\ balances' = Credit(Debit(balances, tr.from, tr.amount),
                                    tr.to, tr.amount)
              /\ cursor' = cursor + 1
              /\ UNCHANGED <<inputVars, stage, error, logs, tCur, baseSeconds,
                             unlockedSeconds, lockedSeconds, results>>

(* one segment, from tCur to the next breakpoint *)
Accumulate ==
    /\ stage = "integrate"
    /\ ~Due
    /\ tCur < E1
    /\ LET tNext == Min({t \in Breakpoints : t > tCur})
           dur == tNext - tCur
           free == [w \in Wallets |-> balances[w] - ActiveTotal(w, tCur)]
       IN  \/ /\ \E w \in Wallets : free[w] < 0
              /\ Throw("LOCK_EXCEEDS_BALANCE")
           \/ /\ \A w \in Wallets : free[w] >= 0
              /\ baseSeconds' = [w \in Wallets |->
                                   baseSeconds[w] + balances[w] * dur]
              /\ unlockedSeconds' = [w \in Wallets |->
                                       unlockedSeconds[w] + free[w] * dur]
              /\ lockedSeconds' = [w \in Wallets |-> [tier \in Tiers |->
                     lockedSeconds[w][tier] + ActiveLocked(w, tier, tCur) * dur]]
              /\ tCur' = tNext
              /\ UNCHANGED <<inputVars, stage, error, logs, balances, cursor,
                             results>>

(* unlocked, plus each tier's share at its multiplier: two floors a tier *)
EffectiveWeight(w) ==
    unlockedSeconds[w] \div EPOCH_SECONDS
      + SumFunctionOnSet([tier \in Tiers |->
            mulDivFloor(lockedSeconds[w][tier] \div EPOCH_SECONDS,
                        TIER_SPECS[tier].multiplierBps, BPS_DENOMINATOR)], Tiers)

Weigh ==
    /\ stage = "integrate"
    /\ tCur = E1
    /\ stage' = "resolve"
    /\ weights' = [w \in Wallets |->
          [snapshot |-> balances[w],
           baseTwab |-> baseSeconds[w] \div EPOCH_SECONDS,
           unlockedTwab |-> unlockedSeconds[w] \div EPOCH_SECONDS,
           lockedTwab |-> [tier \in Tiers |->
                             lockedSeconds[w][tier] \div EPOCH_SECONDS],
           effectiveWeight |-> EffectiveWeight(w)]]
    /\ UNCHANGED <<inputVars, error, logs, integral, eligible, allocations,
                   leaves>>

----------------------------------------------------------------------------
(* resolveEligibility *)

Eligible(r) ==
    /\ r.eligible
    /\ ~r.revoked
    /\ r.currentPolicy
    /\ r.validFrom <= E1
    /\ r.expiry = None \/ E1 < r.expiry
    /\ r.wallet \notin fixture.excluded

ResolveEligibility ==
    /\ stage = "resolve"
    /\ stage' = "allocate"
    /\ eligible' = {i \in DOMAIN fixture.eligibility :
                       Eligible(fixture.eligibility[i])}
    /\ UNCHANGED <<inputVars, error, logs, integral, weights, allocations,
                   leaves>>

Holder(i) == fixture.eligibility[i].wallet

(* a wallet no balance, transfer or lock mentions weighs nothing *)
WeightOf(w) == weights[w].effectiveWeight

TotalEffectiveWeight_DefectEveryWallet ==
    SumFunctionOnSet([w \in Wallets |-> WeightOf(w)], Wallets)

TotalEffectiveWeight ==
    SumFunctionOnSet([i \in eligible |-> WeightOf(Holder(i))], eligible)

----------------------------------------------------------------------------
(* allocate, buildMerkle, reconcile *)

ParticipantPool(asset) ==
    mulDivFloor(asset.acquired, PARTICIPANT_POOL_BPS, BPS_DENOMINATOR)

Share(pool, w) ==
    IF TotalEffectiveWeight = 0 THEN 0
    ELSE mulDivFloor(pool, WeightOf(w), TotalEffectiveWeight)

(* allocateAsset: nothing is pushed for a wallet whose amount is zero *)
AllocateAsset(asset) ==
    LET pool == ParticipantPool(asset)
        paid == {i \in eligible : Share(pool, Holder(i)) > 0}
        amounts == [i \in paid |-> Share(pool, Holder(i))]
        allocated == SumFunctionOnSet(amounts, paid)
    IN  [token |-> asset.token, acquired |-> asset.acquired, pool |-> pool,
         reserve |-> asset.acquired - pool, allocated |-> allocated,
         dust |-> pool - allocated, amounts |-> amounts]

(* one asset after the other; ALLOC_OVERFLOW when more than the pool *)
Allocate ==
    /\ stage = "allocate"
    /\ Len(allocations) < Len(fixture.assets)
    /\ LET a == AllocateAsset(fixture.assets[Len(allocations) + 1])
       IN  IF a.allocated > a.pool THEN Throw("ALLOC_OVERFLOW")
           ELSE /\ allocations' = Append(allocations, a)
                /\ UNCHANGED <<inputVars, stage, error, logs, integral, weights,
                               eligible, leaves>>

(* of which row and asset there is an entitlement *)
Entitlements ==
    {e \in eligible \X DOMAIN allocations :
        e[1] \in DOMAIN allocations[e[2]].amounts}

Leaf(i, k) ==
    [wallet |-> Holder(i), asset |-> allocations[k].token,
     amount |-> allocations[k].amounts[i]]

(* buildMerkle: DUPLICATE_ENTITLEMENT (a zero leaf cannot reach it); an    *)
(* unpublishable cycle has no tree, and reconcile runs on both             *)
Publish ==
    /\ stage = "allocate"
    /\ Len(allocations) = Len(fixture.assets)
    /\ LET unique == \A e, d \in Entitlements :
                         /\ Holder(e[1]) = Holder(d[1])
                         /\ allocations[e[2]].token = allocations[d[2]].token
                         => e = d
           reconciled == \A k \in DOMAIN allocations :
                             allocations[k].acquired = allocations[k].reserve
                               + allocations[k].allocated + allocations[k].dust
       IN  IF ~unique THEN Throw("DUPLICATE_ENTITLEMENT")
           ELSE IF ~reconciled THEN Throw("RECON_CONSERVATION")
           ELSE /\ stage' = "done"
                /\ leaves' = {Leaf(e[1], e[2]) : e \in Entitlements}
                /\ UNCHANGED <<inputVars, error, logs, integral, weights,
                               eligible, allocations>>

PodNext ==
    \/ LoadCycleFixture
    \/ CanonicalizeTransfers
    \/ ApplyTransfer
    \/ Accumulate
    \/ Weigh
    \/ ResolveEligibility
    \/ Allocate
    \/ Publish

PodSpec == PodInit /\ [][PodNext]_podVars

----------------------------------------------------------------------------
(* PROPERTIES *)

Transferred(moves) == SumFunctionOnSet([tr \in moves |-> tr.amount], moves)

(* what a wallet holds after a set of transfers, in whatever order         *)
HeldAfter(w, moves) ==
    fixture.startBalances[w] + Transferred({tr \in moves : tr.to = w})
                             - Transferred({tr \in moves : tr.from = w})

(* a wallet's balance in the second t, from the logs as a set: no order,   *)
(* no breakpoints, a log given twice counted once                          *)
BalanceAt(w, t) ==
    HeldAfter(w, {tr \in Range(fixture.transfers) : tr.timestamp <= t})

(* the principal of w's locks of a tier that earn a bonus in the second t: *)
(* started, not matured and not withdrawn                                  *)
LockedAt(w, tier, t) ==
    Principal({l \in fixture.locks : /\ l.wallet = w /\ l.tier = tier
                                     /\ t \in l.start..(l.unlock - 1)
                                     /\ l.withdrawal = None \/ t < l.withdrawal})

TotalLockedAt(w, t) ==
    SumFunctionOnSet([tier \in Tiers |-> LockedAt(w, tier, t)], Tiers)

Seconds == E0..(E1 - 1)

(* the sum of what f gives for every second *)
Whole(f) == SumFunctionOnSet(f, Seconds)

(* computeWeights integrates over breakpoints in the canonical order of    *)
(* the logs; what it computes is the sum, second by second, of what each   *)
(* wallet held and had locked, whatever order and multiplicity the logs    *)
(* came in, and it refuses for a lock only if a lock exceeds a balance.    *)
WeightsAreTheIntegral ==
    /\ stage \in {"resolve", "allocate", "done"} =>
         \A w \in Wallets :
           /\ \A t \in Seconds : TotalLockedAt(w, t) <= BalanceAt(w, t)
           /\ weights[w].snapshot = BalanceAt(w, E1 - 1)
           /\ weights[w].baseTwab =
                Whole([t \in Seconds |-> BalanceAt(w, t)]) \div EPOCH_SECONDS
           /\ weights[w].unlockedTwab =
                Whole([t \in Seconds |-> BalanceAt(w, t) - TotalLockedAt(w, t)])
                  \div EPOCH_SECONDS
           /\ \A tier \in Tiers : weights[w].lockedTwab[tier] =
                Whole([t \in Seconds |-> LockedAt(w, tier, t)])
                  \div EPOCH_SECONDS
    /\ error = "LOCK_EXCEEDS_BALANCE" =>
         \E w \in Wallets, t \in Seconds : TotalLockedAt(w, t) > BalanceAt(w, t)

(* what the leaves grant wallet w of an asset *)
Granted(w, token) ==
    LET own == {e \in leaves : e.wallet = w /\ e.asset = token}
    IN  SumFunctionOnSet([e \in own |-> e.amount], own)

Members == {Holder(i) : i \in eligible}

(* The published leaves grant each asset's 80 percent pool in proportion   *)
(* to weight: every eligible wallet gets the largest whole amount within   *)
(* its exact share, nobody else anything, at most one leaf a wallet and    *)
(* asset, and never more than the pool in all; what is left over is less   *)
(* than one unit a wallet.                                                 *)
EntitlementsAreFairShares ==
    stage = "done" =>
      LET total == SumFunctionOnSet([w \in Members |-> WeightOf(w)], Members)
      IN  /\ \A e \in leaves : e.wallet \in Members /\ e.amount > 0
          /\ \A e, f \in leaves :
                 e.wallet = f.wallet /\ e.asset = f.asset => e = f
          /\ \A i \in DOMAIN fixture.assets :
                 LET token == fixture.assets[i].token
                     pool == (4 * fixture.assets[i].acquired) \div 5
                     paid == SumFunctionOnSet([w \in Wallets |-> Granted(w, token)],
                                              Wallets)
                 IN  /\ paid <= pool
                     /\ total > 0 => pool - paid < Cardinality(Members)
                     /\ \A w \in Members :
                          /\ Granted(w, token) * total <= pool * WeightOf(w)
                          /\ total > 0 => pool * WeightOf(w)
                                            < (Granted(w, token) + 1) * total
=============================================================================
