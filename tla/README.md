# Silo v3: a TLA+ model

This directory models the contracts of Silo, isolated lending markets of two
tokens each, and the scripts that deploy them and check their deployments, as
TLA+ modules; checks small instances with TLC; and proves for all instances, with
TLAPS, the main properties of the markets and their liquidations, of the vault, of
the delayed settings, of the rollout, of the RPC client, of the checks of deployments
and of the report about them. Paths below are relative to the repository's root; the definitions name the functions they translate, and
`PROJECT.json` maps each of them to its lines.

## 1. The system

### 1.1 Components

Contracts (short paths of the core are relative to `silo-core/contracts`):

| Component | Code | State it keeps | Operations that change it |
|---|---|---|---|
| Silo (books of one token) | `Silo.sol`, `lib/Actions`, `lib/SiloERC4626Lib`, `lib/SiloLendingLib`, `lib/SiloMathLib`, `lib/SiloStdLib` | totals of protected, borrowable and debt assets; revenue of dao and deployer; time of the last accrual; two remainders of interest; its token balance | deposit, mint, withdraw, redeem, borrow, repay, transitionCollateral, flashLoan, accrueInterest, withdrawFees |
| Solvency | `lib/SiloSolvencyLib` | none | (checks after an operation) |
| SiloConfig | `SiloConfig.sol`, `utils/CrossReentrancyGuard.sol` | the collateral Silo of each borrower; the transient guard | setOtherSiloAsCollateralSilo, onDebtTransfer, accrual of both Silos, guard on and off |
| Share tokens (three per Silo) | `utils/Share*.sol`, `lib/ShareTokenLib`, `lib/ShareCollateralTokenLib` | balances, supply, allowances, receive allowances of debt | mint, burn, transfer, transferFrom, forwardTransferFromNoChecks, approvals |
| Views | `lib/Views`, `SiloLens` | none | none |
| Partial liquidation | `hooks/liquidation` | none of its own | liquidationCall |
| Defaulting | `hooks/defaulting` | none of its own | liquidationCallByDefaulting, deductDefaultedDebtFromCollateral, repayDebtByDefaulting |
| Hooks and gauge | `lib/Hook`, `hooks/_common`, `hooks/gauge` | gauge of each share token, hook masks | setGauge, removeGauge, afterAction |
| Interest rate models | `interestRateModel` | rate and its slope; configuration, one of them pending | getCompoundInterestRateAndUpdate, updateConfig, cancelPendingUpdateConfig |
| Incentives | `incentives` | programs, indexes, unclaimed rewards | createProgram, updateProgram, afterTokenTransfer, claimRewards, immediateDistribution |
| Vault | `silo-vaults/contracts` | caps, queues, pending changes with their times, own count per market, stored total, flow caps | deposits and withdrawals over markets, reallocate, submit/accept/revoke, public reallocation |
| xSilo | `x-silo/contracts` | shares, vested redemptions, pending locked assets, stream of rewards | deposit, redeemSilo, finalizeRedeem, cancelRedeem, setEmissions, claimRewards, emergencyWithdraw |
| Oracles | `silo-oracles/contracts` | ManageableOracle: oracle, owner, timelock, each with a pending value | propose, accept, cancel |
| Leverage, router, helpers | `leverage`, `silo-router`, `utils/liquidationHelper` | transient state of a transaction | open and close a leveraged position, multicall |
| Deployment, administration | `SiloFactory`, `SiloDeployer`, `utils/GlobalPause`, `utils/Tower` | registries | create a market, pause |

Scripts (relative to `scripts`; Python):

| Component | Code | State it keeps | Operations that change it |
|---|---|---|---|
| Gauge rollout | `tasks/set-permissioned-liquidation/4_` to `8_`, the forge script they call | the registry of deployments; the progress file with a record per market; bundles for the Safe | deploy, build bundles, test (five steps), synchronise, QA |
| RPC client | `rpc_multicall.py` | none beyond a request | single and batch request over fallback endpoints |
| Owner and admin check | `check_deployments_owner_is_dao.py`, `check_deployments_admin_is_dao.py` | verdicts of a run | read owners, pending owners, admins, proxy slots; report |
| Version check | `check_deployments_version_on_chain.py` | versions found | read getters, read all versions in one call, pair, report |
| Freshness check | `check_deployments_freshness_from_broadcast.py` | ages found | look creations up in broadcast files, read blocks and codes, report |
| Explorer check | `check_deployments_verified_on_explorer.py` | sections of a job, its artifact | look a contract up, retry, write the artifact |
| Verification report | `merge_verification_reports.py`, its workflow | the comment of a pull request | merge the artifacts with the earlier comment |
| Others | see "Not modelled" in 5 | files | |

### 1.2 Interaction

* A Silo calls its share tokens to mint and burn; these call SiloConfig (the
  guard, the rules of debt transfers) and, for a transfer, back into the Silo
  for the solvency check and for interest on both Silos.
* SiloConfig calls `accrueInterestForConfig` of both Silos before every
  operation that checks a position: the totals of two Silos change in one call.
* The cross reentrancy guard is one flag for both Silos, all six share tokens
  and the hook receiver. While an operation runs, no other operation of the
  market can start, whatever token or hook is called. **`flashLoan` does not
  take the guard**: the receiver's callback may run any operation while the
  tokens are out. Liquidation releases it in the middle.
* Hook receivers are called before the guard is taken and after it is
  released, and from inside share tokens; a liquidation is a hook receiver.
* Vaults, leverage and router are callers of Silos; incentives are called by the
  gauge hook with the balances a transfer leaves.
* The scripts talk to each other through files (registry, progress, bundles,
  broadcast files, artifacts), to the chain through the RPC client, and through
  the comment of a pull request to their own next run. They run one at a time;
  the chain changes while they read it.

### 1.3 What is hard

* Two conversions (assets to shares and back) in every operation, each with a
  rounding of its own, virtual shares for deposits but none for debt, and dust
  left by the last withdrawal.
* Interest charged in full to the debtors, and split between depositors and
  fees; remainders below one unit carried over in two places; a cap at 2^256.
* One token balance behind four claims (protected deposits, borrowable deposits
  less loans, fees, flash loans), with the fee of a flash loan booked before it
  arrives.
* Positions that span two Silos, a collateral Silo that outlives the debt,
  and debt that moves by transfer to somebody with a history of his own.
* Operations inside a flash loan's callback, nested flash loans included.
* A liquidation whose steps are separate calls with amounts computed before, and
  defaulted debt larger than what is left to deduct it from.
* Timelocks that race with revocation, with a change of the timelock itself and
  with the mere passing of time; a vault in markets that may report anything.
* A rollout of many steps by hand: forge runs that simulate, fail or lose a
  transaction after their output was taken for true; interruptions between two
  writes; reruns that must not deploy twice.
* Reads that fail one by one while owners, admins and deployments change between
  them: what was not read must not pass.
* Jobs that end with all, some or no results, and a report that reads its own
  earlier text.
* In the parts planned: vested redemptions at changing prices, reward indexes.

The list of hazards, each at its line and with the properties that cover it, is in
`PROJECT.json`; more of them, which no property covers yet, are listed in 5.

### 1.4 What makes each component correct

* Silo: books equal tokens; liquidity can be paid; debt is covered; shares never
  lose value; debt shares and debt assets vanish together.
* Share tokens: balances add up to supply. SiloConfig: one debt per user, with a
  collateral Silo that does not change under it. Solvency: nobody leaves an
  operation of his own insolvent, nobody is made insolvent by another's.
* Liquidation: never more than the debt and its fee, what is announced can be
  done, the position is better or gone. Defaulting: books and liquidity survive.
* Vault, oracle and kink model: a setting changes only after its notice, none
  after its revocation. Vault: assets are counted over the enabled markets, each
  once; no step exceeds a cap, whatever a market reports. Kink model: the slope
  belongs to the configuration in force.
* xSilo: locked assets cover pending redemptions. Incentives: claims never above
  emissions.
* Rollout: a passing test and QA mean that real gauges are bundled for every
  share token; no record is lost; no second set; who keeps going gets there.
* RPC client: the first good answer, or failure after everybody was asked, in
  bounded time. Checks: nothing passes that the chain did not hold; exact when
  nothing interferes. Explorer and report: complete, true, and current.

## 2. The modules

Contracts:

| Module | What it is |
|---|---|
| `SiloMath` | the arithmetic: conversions, interest, carried remainders, fee of a flash loan |
| `SiloLedger` | the books of one Silo as a record, one operator for each change and one (`Can...`) for its guard |
| `SiloMarket` | the state machine: two Silos, share balances, collateral Silos, flash loans in progress, prices, blocks |
| `SiloLiquidation` | extends the market by liquidations, by repayment and by defaulting |
| `Timelock` | abstract: a value that changes only after notice |
| `SiloVault` | governance, queues, caps and funds of a vault; its timelock, guardian and caps implement `Timelock` |
| `ManageableOracle` | the three delayed changes of an oracle; each implements `Timelock` |
| `KinkConfig` | the delayed configuration of the kink model and its slope; implements `Timelock` |
| `Timelocks` | the vault twice (its roles, its funds), the oracle and the kink model next to each other |

Scripts:

| Module | What it is |
|---|---|
| `GaugeRollout` | the five scripts of the rollout, the forge runs, the chain and the files between them |
| `RpcCall`, `RpcClient` | what the scripts expect of a request; the client with its fallbacks, which implements it |
| `OwnerCheck`, `AdminCheck`, `VersionCheck`, `FreshnessCheck` | one check of deployments each, with the chain that changes under it |
| `DeploymentChecks` | the four checks as the jobs of one workflow: whichever runs |
| `ExplorerCheck` | the job of one chain that looks its contracts up on explorers |
| `VerificationReport` | the comment over several runs of the workflow |
| `ExplorerReport` | the workflow: the job of a chain, and the report merged from the artifacts |

Instances for TLC are in `MCSiloMarket`, `MCSiloLiquidation`, `MCTimelocks`,
`MCGaugeRollout`, `MCRpcClient`, `MCDeploymentChecks` and `MCExplorerReport`.
`Timelocks`, `DeploymentChecks` and `ExplorerReport` put several components
next to each other that share no state: a behaviour is that of one of them, and the
variables of the others are `Idle`. Their `MC` modules only give constants a value, so
that the theorems are about the specifications that TLC checks. The two parts of
`ExplorerReport` do meet: `ArtifactsFitReport` shows that whatever a job hands in is
among the artifacts that the report is checked with.

Proofs:

| Module | What it is |
|---|---|
| `SiloMarket_proofs` | what the operators of the ledger return, preserve and bound; balances that add up; the inductive invariant of the market; books and positions; the rounding of the conversions: debt shares, prices of shares, claims, solvency |
| `SiloLiquidation_proofs` | liquidations keep all that; what is taken is paid for |
| `SiloVault_proofs` | queue and configuration of the vault, its three implementations of `Timelock`, its caps |
| `Timelocks_proofs` | the three implementations of `Timelock` of an oracle, and its renunciation; the slope of the kink model and the implementation by its configuration; and, with what is proved of the vault, the properties of `Timelocks` |
| `GaugeRollout_proofs` | what test and QA of the rollout mean, through failures, interruptions and synchronisation |
| `RpcClient_proofs` | outcomes of a request, and the safety of its abstract specification |
| `DeploymentChecks_proofs` | an inductive invariant of each check of deployments; what a passing contract was found to be, and when verdicts are exact |
| `ExplorerReport_proofs` | inductive invariants of the job of a chain and of the comment; what sections and comment say; that an artifact is what the report takes |

`SiloLiquidation` extends `SiloMarket`, which extends `SiloLedger`, which extends
`SiloMath`.

### State of a market

| Variable | In the code |
|---|---|
| `ledger[s]` | `SiloStorage` of Silo `s`, the supplies of its share tokens and its balance of the token (`cash`). `clock` is `interestRateTimestamp` compared to the present block: never set, older, equal. `surplus` is history: tokens sent to the Silo without a call, and interest cut off by the cap |
| `balance[s][type][u]` | `balanceOf` of the three share tokens |
| `collateralSilo[u]` | `borrowerCollateralSilo` of SiloConfig |
| `loans` | the call stack of flash loans: one frame per `onFlashLoan` in progress, with what is owed to each Silo up to that frame (history) |
| `price[s]` | what the oracle of the token answers now |
| `blocks` | number of blocks so far, only to bound the runs |

### Actions of a market

Each action is one successful external call. A call that reverts changes
nothing, which is a stuttering step. Guards are the code's `require`s and the
failures of token transfers, in any order since only the conjunction shows.

| Action | Code | Remarks |
|---|---|---|
| `Deposit` | `Actions.deposit`, `SiloERC4626Lib.deposit` | accrues one Silo; assets or shares given; both types |
| `Withdraw` | `Actions.withdraw`, `SiloERC4626Lib.withdraw` | accrues both; liquidity, ProtectedProtection; solvency if the Silo is the owner's collateral |
| `Borrow` | `Actions.borrow`, `SiloLendingLib.borrow` | no debt in the other Silo; sets the collateral Silo; max LTV after |
| `Repay` | `Actions.repay`, `SiloLendingLib.repay` | by anybody; cut to what the borrower owes |
| `TransitionCollateral` | `Actions.transitionCollateral` | a withdrawal and a deposit without tokens, then solvency |
| `TransferCollateral` | share token `transfer`, `transferFrom` | sender's solvency, with interest accrued, only if the Silo is his collateral |
| `TransferDebt` | `ShareDebtToken` transfers, `SiloConfig.onDebtTransfer` | no debt of the recipient in the other Silo; copies the collateral Silo if he has none; recipient's solvency |
| `Accrue`, `WithdrawFees` | `Silo.accrueInterest`, `Actions.withdrawFees` | |
| `BeginFlashLoan`, `EndFlashLoan` | `Actions.flashLoan` before and after the callback | anything may happen in between except a new block |
| `Donate` | a plain token transfer to the Silo | external |
| `NewBlock` | time passes, oracles answer anew | external; not within a transaction, so not within a flash loan |

`SiloLiquidation` adds to these

| Action | Code | Remarks |
|---|---|---|
| `Liquidate` | `PartialLiquidation.liquidationCall` | both Silos accrued; amounts from `PartialLiquidationExecLib`; repayment, seizure by `forwardTransferFromNoChecks`, redemption if assets are wanted, each on the state that the step before left |
| `Default` | `PartialLiquidationByDefaulting.liquidationCallByDefaulting` | one-way markets only; the debt is deducted from the fees and the deposits (clipped), the keeper gets his part of the seized shares and the controller the rest |
| `ClaimRewards` | `BaseIncentivesController._claimRewards`, `_transferRewards` | the controller pays seized shares out, to any user and in any part: who has earned what is decided by the indexes, which are not modelled |

A liquidation is one transaction and here one action, which computes each step's amounts on the
books that the step before left, as the calls do. The guard is down between the calls; they go
to the Silos and to plain tokens only, which call nobody. **A token that calls its
recipient could run other operations there, and that is not modelled.**

### Vault, oracle, kink model

`SiloVault` has one action for each external function of `SiloVault.sol` that
changes the modelled state, named as there; `acceptCap`, `submitCap` and
`updateWithdrawQueue` contain the code of `SiloVaultActionsLib`. Deposits and
withdrawals fold over the queues as `_supplyERC4626` and `_withdrawERC4626` do.
A market is external and may report any worth of its shares (`rate`); it may also
take no deposit or pay nothing, as each call chooses. `principal` and `announced`
are history variables. `reallocate` moves from one market to another; a call with
more allocations moves in several such steps. `ManageableOracle` and `KinkConfig` have one action per external function,
`Tick` for time; in `KinkConfig` a configuration comes into force by a `Tick` alone,
as in the code.

### Scripts

* `GaugeRollout`: `StartDeploy`, a forge run (`ForgeSends` with the number of gauges
  really created and the exit code, then `RecordRun`) or one of the ways a market is skipped
  without one, `BuildBundles`, the five steps of the test, `Sync`,
  `ExecuteBundle` (the Safe), `Crash` between any two writes, `InterruptedBuild` after some of
  the bundles. The files are
  `registry`, `progress` and `out`; what the script has in memory is `mem`. `write_text` is not
  atomic, but a progress file torn by an interruption is no JSON, and each script that opens it
  (`4_deploy:311`, `5_build:156`, `6_test:103`, `7_sync:88`, `8_qa:30`) ends at
  `json.loads`. The operator has to put the last good file back, which gives the state of an
  interruption before the write. Putting an older one back is not modelled.
  A gauge is the nonce its factory creates it with, so a simulated address becomes real for
  whichever market comes next.
* `RpcClient`: `Request`, `Send`, `Answer` (a turn of the loop with any kind of
  answer: an object, an error worth another endpoint, a list, junk, a transport
  error or timeout), `Raise` (an exception that the loop does not list, such as that of a
  malformed URL or of bytes that are no UTF-8: it leaves the client, no endpoint is asked
  any more, and the script ends).
* `OwnerCheck`, `AdminCheck`, `VersionCheck`, `FreshnessCheck`: the reads of a script in their
  order, each of which may fail alone or with its whole request; then a verdict
  for each contract, then the exit code. Ownership, roles and
  deployments change at any time in between. An exception that leaves the client ends such a
  script without a verdict, report or exit code of its own, and is not among its steps.
* `ExplorerCheck`: `Start`, `StartExplorer`, per contract `Answer`, `Timeout`, `Refused`,
  `RateLimited`, `ApiError` (with one retry), `FinishExplorer`, `Finish`, or `Crash`.
* `VerificationReport`: one action, `Run`: the jobs hand in some artifacts, the comment is
  fetched or not, and the new comment is written.

### What is abstracted

* The answer of the interest rate model is any member of `Rcomps`, different for
  the two Silos and for each call. Zero stands for a model that reverts, too.
* An oracle quotes any member of `Prices[s]` per unit, fixed within a block. One
  price serves both LTV and solvency, as when no separate maxLtv oracle is
  configured (`Views.sol:175`).
* `Precision` replaces 1e18, `Offset` replaces 10^3, `MaxUint` replaces 2^256 - 1.
  The proofs hold for all values.
* Allowances: a call on somebody's behalf, and the receive approval of a debt
  transfer, is always allowed, and so is every liquidator (`onlyAllowedOrPublic`).
  This only adds behaviours, and no property here is about consent.
* dao's and deployer's shares of the fees are one fee; the split moves no other
  state.
* Other hooks than the liquidation do nothing. Arithmetic that reverts on overflow
  is absent, except the limit of deposits and the interest cap, which the code handles without
  reverting; revenue does not wrap at 192 bits.
* Tokens are plain ERC20. `TokenSupply` is their total supply: a Silo can receive
  no more than is outside of it.
* Roles of the vault: each has a holder who calls; who it is does not matter to the
  state modelled. Its shares, its fee and `lastTotalAssets` are left out.
* Scripts: one chain and one operator, so that scripts run one at a time; all
  hooks have one owner, so that there is one bundle per part; addresses
  are distinct; the wording of reports, logs and JSON is left out, and so is the encoding
  of calls. What a text is parsed back to is kept (`VerificationReport`: keys of headings).

A definition whose name tells a mistake (`Faulty...`, and a few of another name with a
comment that says what is wrong) is its neighbour with that
mistake. It is used by no specification: exchanging it for its neighbour must make
TLC report a violation, which shows that the property can fail.


## 3. Runs

| Run | States | Module and instance | Shows |
|---|---|---|---|
| `accounting` | 171,869 | `MCSiloMarket`: Silo1 lends 3 units of supply by assets and by shares, one unit of Silo0 is collateral; two blocks of interest | debt and debt shares stay covered; the sum of all claims is booked; the value of a share never falls |
| `flash` | 150,660 | `MCSiloMarket`: supply 4, flash loans of 1 or 2 nested two deep, donations | books equal tokens and liquidity is payable with all operations inside the callbacks |
| `positions` | 50,622 | `MCSiloMarket`: both Silos lend, one token against two, prices 1 or 4 against 2, transfers of every share, two blocks with new prices and interest in both Silos | one debt per user, its collateral Silo fixed, health kept, own risk checked on accrued books, balances add up |
| `liquidation` | 17,105 | `MCSiloLiquidation`: a one-way market, 30 units at 3 against 7 units at 9 or 11 | what is announced can be done, nothing beyond debt and fee is taken, nobody is left worse off, the books agree |
| `timelocks` | 342,608 | `MCTimelocks`: the four parts of `Timelocks`, see below | settings change as `Timelock` allows; markets are counted once; caps hold; slope and configuration belong together |
| `rollout` | 189,169 | `MCGaugeRollout`: a market with two collateral Silos and one with one | what test and QA mean; nothing lost, nothing twice; everything deployed in the end |
| `rpc_fallback` | 523 | `MCRpcClient`: three endpoints, the configured one also second fallback; two requests | what an answer means, and that an exception is the last; refinement of `RpcCall`, with its liveness |
| `deployment_checks` | 2,314,966 | `MCDeploymentChecks`: the four checks | nothing passes that the chain did not hold; exact when quiet |
| `explorer_report` | 916,338 | `MCExplorerReport`: the jobs of avalanche and okx, and the comment | sections complete and true; comment current; jobs end |
| `protected_balance` | violation | as `flash` | see 3.4 |
| `liquidation_promise` | violation | two-way market with two loans | see 3.4 |
| `rollout_retried` | violation | as `rollout` | see 3.4 |

Deadlock is not checked where inputs, blocks, times or commands are bounded, which is
everywhere: a user or an operator may always stop, and so does the model at its bound.

### 3.1 Bounds

Markets: two users (interchangeable, hence the symmetry) and `Precision = 10`, so
that one unit of debt at a rate of 6 earns six tenths of a unit and remainders are
carried at once; fees of 30% and a rounding threshold of 3 put debts on both sides of
it. Every operation has its amounts on both sides of each
guard (3 units at once, or 3 shares where 2 are one unit, so that roundings occur in
all directions; in `flash` 2 of 4 units); interest makes share prices
fractional; two users suffice for one to profit at another's cost; two nested
loans for one to end while another is open, of the same Silo or of another. With
more tokens or inputs the runs grow past a few minutes without a new kind of step.
The cap at `MaxUint` is out of reach of the runs and covered by the proofs only.
`positions` has interest at the one rate of 60%: a debt of one unit then carries a fraction and a
debt of two units grows by one, in the Silo that is called and in the other one, so that a
check of a position on books of which one Silo is not accrued shows. Both Silos are in debt
at once, to different users, with interest in each, and users become insolvent by a price.

Liquidation: a partial liquidation needs a position that is large against one unit, so
the prices, not the amounts, carry the difference: `Precision` 100, `Offset` 10,
lt 80%, target 70%, threshold of debt left 90%, fee 5%, keeper's fee 20%. One block of
interest at 30%. Initial states are that of a new market; `Redeemed`, after some deposits and a redemption
that left dust, so that the value of a share is no round number; and `LongLoan`, with a share
of debt worth two units.
Reached are partial, full and defaulting liquidations, a deduction clipped at the
revenue, seizure of both types of shares, a keeper's share and a partial announcement.
Not reached: a deduction that falls to the surplus, kept shares worth nothing, a
collateral Silo without liquidity.

Timelocks, four parts in one run: `roles` (one market, two guardians, timelocks 1 and 2,
caps 0 to 2, times to 4) has every order of two submissions, their acceptance and
revocation, and a timelock that changes under them; `funds` starts from two enabled
markets and has deposits, withdrawals, reallocation and removal with markets that
report a worth of 1 or 2 per share and lose or take nothing; `oracle` has
two oracles, two owners and two timelocks, pending at the same time, to time 5; `rates` makes
four configurations of two disjoint ranges of slopes, so that a slope carried over would show.

Rollout: `GaugesPerFile` is 2, so that one market's gauges fill more than one bundle. The
operator has the deployment, the bundles and the test alone, with up to three faults
(reverted forge runs, lost broadcasts, failed reads); or with one fault also dry runs and
executed bundles, then interruptions between any two writes or bundles as well, then synchronisation as well.
RPC client: the endpoint that is configured and again the second fallback must be asked
once; a second request starts after any outcome of the first.
Checks: four contracts (an ordinary one, a `SiloHook`, one without owner or roles, an
excluded one), two changes of ownership and three of roles while they run; five contracts
with versions; two deployment scripts and times to 6. Explorer: two contracts
on the two explorers of avalanche with an entry in each kind of file, and the `okx` job with two
entries each; the report over three runs of the workflow with three keys, one heading of
which is not parsed back to its key, which is what it takes for a section to
appear, be absent and reappear.

### 3.2 Properties

Of steps means: a formula about each step, not each state.

Markets:

* `TypeOK`: types. All totals are naturals, so no checked subtraction fails.
* `CashAccounted`: cash + flash loans + debt = protected + borrowable + revenue +
  surplus.
* `DebtCovered`: debt <= borrowable + revenue + surplus.
* `LiquidityFunded`: outside flash loans, protected deposits and all liquidity are
  in the Silo, beside the booked fees (BASE_INVARIANT_E and _F of
  `silo-core/test/invariants`).
* `DebtSharesCovered`: a debt share is worth at least a unit and the last one
  carries the last unit.
* `SupplyIsSum`, `ClaimsCovered`: balances add up to supply; all claims together
  are booked.
* `SharePriceNeverFalls` (of steps): no call lowers the value of a deposit share.
* `NoDebtInBothSilos`, `DebtHasCollateralSilo`, `DebtPinsCollateral` (of steps):
  the positions that solvency checks rely on.
* `OwnRiskLeavesSolvent` (of steps): whoever takes on debt or gives up collateral
  behind one is solvent afterwards, by books with the interest of both Silos charged.
* `HealthKept` (of steps): apart from time and prices nothing makes a solvent user
  insolvent, not even by rounding.

Liquidation:

* `MaxLiquidationHolds`: what `maxLiquidation` announces can be done in the same block: the
  debt is taken and, where it is worth a share of the debt, repaid; while a share of the
  collateral is worth at most a unit, the collateral is delivered but for the worth of one unit of debt.
* `CollateralForDebt` (of steps): the collateral taken is worth no more than the debt
  repaid and its fee.
* `LiquidatedNotWorse` (of steps): at an LTV below 100% all that is repaid comes off the
  borrower's debt, but for less than a share of it, and the collateral taken weighs no more in the
  LTV than the repayment does, but for `LostToFee`. Both roundings are the code's: shares of
  debt are burned rounded down, and the fee is estimated without its fraction. Where a
  share of debt is worth several units they can raise the LTV.

Vault, oracle, kink model:

* `ChangesNeedNotice` (of steps): vault timelock, guardian and caps, oracle, its
  timelock and its owner, and the kink configuration change as `Timelock` allows; a
  market with funds leaves the queue after its notice only.
* `QueueMatchesConfig`: the withdraw queue lists each enabled market once, and no cap
  is given to a market under removal.
* `LossWithinCap` (of steps): no step puts more into a market than its cap, whatever
  the market reports.
* `SlopeOfConfigInForce`: the slope used is one of the configuration used.
* `RenouncedIsFinal`: an oracle without an owner has nothing pending.

Rollout:

* `TestedMeansReal`: after a passing test every record is successful, its gauges are on
  chain for its own share tokens with the expected version, and each is in a bundle; they are the
  gauges of whole silos, also where the synchronisation had to choose between two of each kind; and unless
  scripts were interrupted or entries synchronised, none of its share tokens is without.
* `QAMeansRolledOut`: after a passing QA every market of the list is recorded with a gauge
  of its own on chain that a bundle names, also where an interruption lost a record;
  unless interrupted or synchronised, a bundle pairs every share token of every market with such a gauge.
* `RecordsKept` (of steps): no market that is in the progress file ever leaves it.
* `NoSecondSet` (of steps): a market whose recorded gauges are complete and real gets no
  further ones.
* `AllDeployed` (liveness): an operator who keeps going gets every market deployed.

RPC client, checks, explorers, report:

* `OutcomeJustified`: a result is the first good answer, an error comes after all
  endpoints, and each endpoint is asked once. `ImplementsRpcCall`: the refinement,
  with its liveness.
* `PassedHadDao`: what passes was owned, or first administered, by the DAO at some moment
  of the check. `ExactWhenQuiet`: if every read is answered and nobody interferes,
  verdicts and ages are exact.
* `CleanMeansCurrent`: a clean check of versions has read all of them, each from its own
  contract, and found them up to date. `AgesAreTrue`: what passes the check of ages is deployed,
  fresh only if it is, and without an age only if its broadcast was overwritten. It is about
  contracts that deployment scripts create, the additional ones of a creation included. One
  that an ordinary call creates is not found by the check, which searches CREATE and CREATE2
  transactions only; it is not modelled.
* `TypeOK` of the checks also has that every contract is counted once.
* `SectionsAreComplete`, `ResultsAreTrue`: a section that is handed in lists each contract
  once, and as verified only what that explorer verified. `ArtifactsFitReport` joins job
  and report. `Ends` (liveness): a job ends.
* `ClearMeansVerified`, `CommentIsCurrent`: the merged comment is clear only if the last
  run with results was; what a run learned is shown, and a failure stays until a later
  result and no longer.

### 3.3 Fairness

* Contracts: none. Every step is some user's choice and the code schedules nothing.
* `GaugeRollout!FairSpec`: the operator keeps issuing the commands, and a command
  that is running goes on: weak fairness of the running scripts, strong fairness of
  starting the deployment, building the bundles and the first test step, each of which
  an interruption may disable again and again. Nothing is assumed of the chain: that faults end is
  their bound.
* `RpcClient`: weak fairness of sending and of answers. The code sets a timeout on every
  request, so that some answer, a timeout at the latest, always comes.
* `ExplorerCheck`: weak fairness of the job's steps, for the same reason.

Two abstract specifications are implemented: `RpcCall` by `RpcClient` (checked as
a `PROPERTY` with its liveness; the safety is also a theorem), and `Timelock` by seven settings:
timelock, guardian and caps of the vault, oracle, timelock and owner of the oracle, configuration of
the kink model (`ChangesNeedNotice` checks the initial states and the steps of each; all
are theorems).

### 3.4 Statements of the repository that do not hold

1. `Actions.sol:383` says that protected assets never exceed the balance. Inside
   a flash loan they may: flash borrow what is above the protected deposits, then
   borrow from the Silo, whose liquidity does not know of the flash loan. The line
   below the comment clips the difference to zero, so nothing follows from it.
2. `IPartialLiquidation.sol:86` calls what `maxLiquidation` answers an underestimate of
   the collateral, and the debt what is needed to get it. The debt is rounded down to
   units after the collateral was computed; where a unit of it is worth more than two of
   collateral the liquidation delivers less. The answer may even be one unit of
   collateral for no debt, and such a position cannot be liquidated partially.
3. `4_deploy_permissioned_liquidation_controllers.py:352` relies on a record marked as
   failed by the test to stay so until it is deployed again. Steps 4 and 5 of the test
   mark it successful when only its versions or share tokens match.

Met while modelling, without a run of their own:

* `silo-core/test/invariants/specs/InvariantsSpec.t.sol:23` says that a Silo has
  no assets exactly when it has no shares. Redeeming all shares leaves
  dust, which `_commonConvertTo` expects.
* `certora/Properties-draft.md:91` says that a first collateral Silo comes with a
  growing debt supply. A transfer of debt sets it for the recipient.
* `ISiloVault.sol:140` says that submitting a guardian overwrites the pending one;
  `SiloVault.sol:241` reverts with `AlreadyPending`. `ISiloVault.sol:84` says that the
  withdraw queue always holds all markets with liquidity of the vault; a forced removal takes one out.
* `7_sync` keys the registry by market and kind, so that of a market with two collateral
  Silos the gauges of one Silo remain in its record; test and `8_qa` pass with them. Interruptions may leave
  a record with some of its gauges, or a bundle of an earlier state, that pass test and QA as
  well. (`TestedMeansReal` and `QAMeansRolledOut` therefore say less of rollouts with either: of
  whole silos, not of all.)
* A gauge whose version could not be read is recorded as `legacy` (`6_test:497`) and not
  read again by the same script.
* `4_deploy` skips a market whose gauges an interrupted run put into the registry and not into the
  progress file: the record is lost until somebody removes the keys.
* Where the probe for a proxy's slots fails, the owner and admin checks take a `SiloHook`
  without an owner for no proxy, and it passes.
* An error of OKLink's API is counted as an error
  (`check_deployments_verified_on_explorer.py:635`), one of the other explorers' as not
  verified (`:645`).
* A clean section of one line is not parsed back from an earlier comment, so that it
  disappears when its job hands in nothing.

## 4. Proofs

Checked by `tlapm`, for every value of the constants that their assumptions allow; TLC
evaluates the assumptions in the runs.

* Market and liquidations: any finite set of users, every supply, input, rate, price, fee,
  `Precision`, `Offset`, `MaxUint`, bound of blocks and depth of flash loans, under
  `MathAssumption`, `LedgerAssumption`, `MarketAssumption` and `LiquidationAssumption` (scales
  positive, fees below 100%, maxLtv at most lt, target at most lt, lt and fee at most 100%
  together: what `Views.sol` and the hooks validate when a market is created).
* Vault, oracle, kink model: any markets, accounts, timelocks, caps and limits, queues of any
  length, under `VaultAssumption`, `OracleAssumption` and `KinkAssumption`. In `SiloVault_proofs`
  they are hypotheses of each theorem; `Timelocks` assumes them of its parts, and TLC evaluates them there.
* Rollout: any list of markets, sets of commands and number of faults (`ConstantsOK`).
* RPC client: any endpoints, configured or not, and any answers (`RpcAssumption`).
* Checks: any lists of contracts without repetition, ABIs, exclusions, accounts, addresses,
  versions and deployment scripts of finitely many contracts each, any number of changes on chain
  and any maximal age (`ChecksAssumption`, which TLC evaluates).
* Explorers and report: any chains, lists of distinct explorers and of distinct keys, contracts,
  names, entries, answers, and number of runs (`ExplorerReportAssumption`: each explorer of a chain has
  its own key; a heading of a known key is read as this key, and any other as no known one). So does
  `normalize_section_key` with the labels of `CHAIN_DISPLAY_NAMES`: avalanche and megaeth, when nothing could be
  checked, have a heading that is read as no known key, and injective's section is already given a known
  key by `load_artifacts`.

| Theorem | States |
|---|---|
| *`SiloMarket_proofs`* | |
| `Invariance`, `TypeCorrect` | `Spec => []IInv`; `Spec => []TypeOK` |
| `CashAccountedAlways`, `DebtCoveredAlways`, `LiquidityFundedAlways` | the books |
| `SupplyIsSumAlways` | balances add up to the supplies |
| `NoDebtInBothSilosAlways`, `DebtHasCollateralSiloAlways`, `DebtPinsCollateralAlways` | the positions; the last one of steps |
| `DebtSharesCoveredAlways` | shares and assets of the debt |
| `ClaimsCoveredAlways` | all claims are booked |
| `SharePriceNeverFallsAlways` | of steps: no call lowers the value of a deposit share |
| `OwnRiskLeavesSolventAlways`, `HealthKeptAlways` | of steps: who is solvent after a call |
| *`SiloLiquidation_proofs`* | over `LiquidationSpec` |
| `LiquidationTypeCorrect`, `LiquidationCashAccounted`, `LiquidationKeepsMarket` | the invariants above, with liquidations |
| `CollateralForDebtAlways` | of steps: what is taken is paid for |
| `LiquidatedNotWorseAlways` | of steps: what the borrower loses, against what is repaid for him |
| `ProtectedStaysThin` | a protected share is worth a unit at most |
| `MaxLiquidationHoldsAlways` | what `maxLiquidation` announces can be done |
| *`SiloVault_proofs`* | |
| `VaultInvariance`, `QueueMatchesConfigAlways` | settings and funds; queue and configuration |
| `RemovedWithNoticeAlways`, `LossWithinCapAlways` | of steps |
| `VaultImplementsTimelocks` | refinement of `Timelock` by timelock, guardian and every cap |
| *`Timelocks_proofs`* | over `Timelocks!Spec` |
| `TimelocksInvariance` | the inductive invariants of the four parts |
| `QueueMatchesConfigAlways`, `SlopeOfConfigInForceAlways`, `RenouncedIsFinalAlways` | the invariants of the run |
| `LossWithinCapAlways`, `ChangesNeedNoticeAlways` | of steps, as the run checks them |
| `RenouncedStays` | of the oracle: without an owner nothing changes any more |
| `ConfigImplementsTimelock`, `OracleImplementsTimelocks` | refinement of `Timelock` by the kink configuration; by oracle, timelock and owner |
| *`GaugeRollout_proofs`* | |
| `TestedMeansRealAlways` | what a passing test means |
| `NoMarketForgotten`, `QAMeansRolledOutAlways` | what a passing QA means, without and with the pairs of the bundles |
| `RecordsKeptAlways`, `NoSecondSetAlways` | of steps: no record is lost, no second set |
| *`RpcClient_proofs`* | |
| `OutcomeJustifiedAlways`, `RpcCallSafety` | outcomes; refinement of the safety part of `RpcCall` |
| *`DeploymentChecks_proofs`* | |
| `ChecksTypeCorrect` | types; every contract is counted once |
| `PassedHadDaoAlways`, `ExactWhenQuietAlways` | what passes was the DAO's; exact verdicts |
| `CleanMeansCurrentAlways` | versions of one's own address; a clean check is current |
| `AgesAreTrueAlways` | what the broadcast files say is what happened |
| *`ExplorerReport_proofs`* | |
| `WorkflowInvariance` | the inductive invariants of job and report |
| `SectionsAreCompleteAlways`, `ResultsAreTrueAlways` | what a section says |
| `ArtifactsFitReportAlways` | job and report agree on artifacts |
| `ClearMeansVerifiedAlways`, `CommentIsCurrentAlways` | what the comment says, over any number of runs |

### The market

`IInv` is the conjunction of

* `LedgersOK`: for each Silo the types, the cap on borrowable assets, the equation
  of cash and the cover of debt. `LiquidityFunded` follows by arithmetic. The two
  are needed together: interest keeps the equation only because what the cap cuts
  off goes to the surplus, and a withdrawal keeps the cover because it is limited
  by liquidity.
* `TokensOK`: balances are naturals and add up to the supply. A burn stays
  within the supply only if nobody holds more than exists, which is not
  inductive by itself. "Add up" is stated without recursion: some
  function on the sets of users is zero on the empty set, grows by a user's balance
  when the user joins a set, and is the supply on the set of all users. Minting,
  burning and transferring keep it, and an induction of the module's own over finite
  sets (the library's takes an operator) shows that the fold of `SupplyIsSum` is such a function.
* `LoansOK`: the frames of the call stack are typed and each one records what the
  frames below it owe. `EndFlashLoan` needs it: it returns to the owed amounts of
  the frame below.
* `OthersOK`: the types of the other variables.

The steps of `Next` are proved one action at a time, from lemmas on what the
operators of `SiloLedger` do to a ledger. `NoDebtInBothSilos`
and `DebtHasCollateralSilo` are inductive together, relative to `IInv`.

### Shares and their value

`DebtSharesCovered` is inductive relative to `IInv`, which supplies the types and
the fact that nobody repays more shares than exist. The two halves need each
other: with `shares <= assets`, a loan whose shares are rounded up, or whose
assets are rounded down, mints no more shares than it takes assets (`LoanFair`),
and a repayment leaves again `shares <= assets` and nothing beside the last share
(`RepaymentFair`), whichever of the two was given and rounded; the case of no
share starts anew at one to one, which is fair only because no asset was left.
Interest adds to the assets alone, and nothing to a debt of zero.

The other theorems rest on one idea: each conversion is rounded in favour of the Silo. `FloorBound`
and `CeilBound` turn a rounded quotient into two products; from them, `ClaimBound` says that
a claim is at most its part of the assets, so that a sum of claims is at most the whole (`ClaimsCovered`);
`NoCheaper` and its counterparts say, per action and type, that
assets per share after the call are no less than before, as an inequality of products
(`SharePriceNeverFalls`); `NoDearer` says the same of the debt. `HealthKept` follows: with prices
unchanged, shares that are not touched are worth no less, debts no more, and
whoever's shares are touched is either checked at the end of the call or better off. For `OwnRiskLeavesSolvent` every action ends
in the check of the user it puts at risk.

### Liquidations

`LInv` is `IInv`, `DebtSharesCovered`, `Positions` and `Backing`. A liquidation is one action of several calls, so
that the invariant is stated of books and balances as parameters: `MarketOK(l, b)` holds between each two of
its calls. `Outcome` collects what either kind of liquidation leaves; it carries the
market invariant and feeds the two theorems about steps. The amounts of `getExactLiquidationAmounts` are bounded by
value: the debt estimated for a target LTV is at most the debt, what is seized is worth at most debt and
fee (`SeizedWorth`), and the shares for it are rounded down again. That is `CollateralForDebt`.

`LiquidatedNotWorse` compares products of the position before and after. A repayment short of the whole debt
is one for the target (`PartialRepayment`), where the fee that is paid and the one of the estimate differ
by less than a unit (`FeeAtTarget`), which is what `LostToFee` stands for: what is seized weighs no more than
what is repaid (`SeizedWeighs`). It then has to be carried through the books: the debt falls by the
repayment but for a share (`DebtLeft`), the collateral by no more than what was seized (`ClaimLeft`), both at the
share prices after the call. `Backing` is needed there: whoever owes has a collateral Silo with a threshold, so
that a defaulting, which lowers the price of shares, never lowers those behind the debt it cancels.

`MaxLiquidationHolds` compares two computations of the same amounts. `maxLiquidation` finds the collateral for
the estimated value `R`; the liquidation starts from the debt, which is `R` in whole units, and computes value and
collateral anew. The value it finds is `R` less than the worth of a unit of debt (`UnitsOfWorth`, `WorthOfUnits`), so that
`CollateralFor`, with its fee and its cap, answers less by no more than this worth and the fee on it
(`CollateralGrows`), and something if three units were announced (`PromisedAmounts`). That seized units are lost
once more when they become shares and are redeemed is where an invariant is missing: a unit of each type is lost at
most only while a share is worth no more than a unit (`RoundTrip`). For borrowable deposits, which earn interest, the
property has this as a hypothesis. For protected ones it is proved: `Thin`, protected assets below shares and virtual
shares, is inductive (`ThinDeposit`, `ThinWithdraw`: both roundings of a deposit mint a share for each unit
at least, both of a withdrawal leave no fewer shares than units) and is kept by every action. Redemption needs the
cash of the Silo besides (`LiquidityInCash`), from the equation of `LedgersOK` without a flash loan. The
theorem does not use `Fresh`: it holds of the books as they are.

### Delayed settings

The slope in use of the kink model is not inductive by itself: a
cancellation brings back a slope from the history. `SlopesOK` adds that what a pending
configuration would be exchanged for has a slope of its own in the history, and that the
pending one waits at its minimum; `TypesOK` that every configuration has a place in the history.
The refinement maps each action to one of `Timelock`: an update announces, or changes at once
under a timelock of zero; a cancellation withdraws; an accrual stutters, because it touches
only the slope in the history; a tick lets the configuration take effect when it is due, and stutters otherwise.

For vault and oracle each action is an announcement, an acceptance, a withdrawal or a stutter of every
setting; `TimelockOK` and `PendingOK` add that what is pending respects the least timelock, `AnnouncedOK`
that a removal which is due was announced that long before. `QueueMatchesConfig` is inductive with them:
`acceptCap` appends a market that was not enabled, `updateWithdrawQueue` keeps a selection of distinct places.
`LossWithinCap` needs `PrincipalCounted` (what went in is counted, whatever the market reported since), kept by
the folds over the queues, by induction over their prefixes.

### Scripts

Rollout: `MemoryOK` ties the script's memory to the file, `TestOK` says what the steps of the test that
have passed so far established, and `CoverageOK` that without interruption and synchronisation a record
names each share token once or none of its gauges is real, which is how a forge run that reverted half-way
is told from one that worked. `SilosOK` holds with both: a forge run prints the gauges of whole silos, and
what the registry names for a token is, once it exists, that token's gauge or one of another market
(`RegistryOK`), so that a synchronised record is whole or fails the fifth step.
`TestedMeansReal` is the last conjunct of `TestOK` with `CoverageOK` and `SilosOK`.

`QAMeansRolledOut` needs `BundlesOK` besides. Test and QA compare addresses only, and a file of an earlier build
stays where a later one does not write, so that a gauge could be found in a bundle beside another token than its
own. The pair of a gauge and a token tells how many gauges there were when its forge run began (`Base`), and pairs
are ordered by that. Without synchronisation and interruption

* `RunsOK`: a record, and what the unnumbered file says of a market, are lines of one run each;
* `Apart`: no run began between two gauges on chain of another run, so that gauges of a run that never
  reached the chain are not the gauges of a later one of another market;
* `Latest`: a bundle says nothing later than the record, and whatever in it is later than the record of some
  market was written by a build that saw this record, which is then in the bundle too;
* `Filled`: a numbered file is there only if as many gauges as there are tokens need it;
* `Shadowed`: with the last line of a market's run that began when all others had their gauges, lines of its
  earlier runs are in the unnumbered file at most, and a gauge they share with that run is in a line of it too.

The market whose run was the last one is found in the bundles with a gauge that no other market's record has,
so that some build saw its record, and by `Latest` those of all others (`FoundIsBundled`). `Shadowed` is what a
build disturbs. When it finds all gauges, it replaces every numbered file that `Filled` allows (`AllGauges`).
When the record of the last market is not whole, an older line in the unnumbered file that shares a gauge with the
run means that the gauges of all records fit one file (`FewGauges`), which is then written anew. These lemmas count.

RPC client: `LogFollowsCandidates` (the log is a prefix of the candidates, which are distinct),
`OnlyRefusals` (a request goes on only while nothing was worth returning) and `EndsForAReason`.

Checks of deployments: `ChecksInv` says of the script that runs that its reads belong to the chain, that its
verdicts follow from the reads, and that its exit code follows from the verdicts. A verdict is counted when its contract leaves the
list, which has no repetitions (`TakeFirst`, `DistinctLength`), so that the counts and the list always add up to
the number of contracts.

* Owners, admins: what was read is one of the values the contract had during the run (the history variables `held` and
  `first`). For admins, a contract without holders is recorded at the first read and never asked again, so that
  "nobody" is an answer of its own moment, whatever was granted since. Verdicts are exact where both reads saw the same chain.
* Versions: `ReachedFacts` says that the list of getters that were read has exactly these, by an induction over
  the list of the module's own; `OwnPosition`, that the running index therefore finds each contract's own address.
* Ages: `FreshRuns` says that a block in a broadcast file is the one its addresses were mined in, and that a run creates
  an address once. `Found` and `NotInFiles` turn it into what the search tells and does not tell about the files; a
  deployment keeps it because an address that is mined is never mined again.

Explorers and report: `JobInv` says that the contracts to do and the three lists partition what is deployed
(`InLists`), that the lists are true of the present explorer, and that every finished section is complete and true,
so that a crash may come at any time. What `collect_contracts` makes of the files has each address once
(`CollectedFacts`, from the facts about `SetToSeq` and sequences without repetition that the module proves). For the report the
three properties are inductive together with the types (`ReportInv`), because the comment is the only memory: a failed section
of an earlier run is parsed back with the text up to the next heading, which are clean lines that followed it
(`Raw`), under a key that no other heading is read as, and the new comment is all of these texts and the new
sections in the order of the keys, which `FlattenSeq` joins without adding or losing an item.

### Model-checked only

* Liveness (`AllDeployed`, `Ends`, the liveness in `ImplementsRpcCall`): fairness and
  `ENABLED` are beyond the installed provers.

Every invariant of the passing runs is a theorem.

## 5. Plan

Done: the market; liquidations by repayment and by defaulting; the delayed
settings of vault, oracle and kink model; the vault's queues, caps and funds; the scripts of the rollout,
of the checks and of the reports; the proofs of 4.

1. `SiloViews`: max functions and previews against the operations, over bounded
   inputs (a withdrawal of `maxWithdraw` succeeds; a preview is what is paid).
2. `XSilo` with its `Stream`: pending redemptions covered; rewards never above the
   stream; liveness: an announced redemption can be finished. Theorem: cover.
3. The vault's shares, fee and `PublicAllocator`. Theorem: flow caps keep their sum.
4. `Distribution` (indexes of rewards), gauge hook, `VaultIncentivesModule`.
5. Leverage over `SiloMarket`'s flash loans; `GlobalPause`.

Bounds for these: two users, two or three markets, amounts up to 3, times up to 5,
one pending change of each kind.

### Not modelled

* The exponentials of the interest rate models: the markets take any answer of them.
* Adapters of foreign oracles: they convert a quote and keep no state.
* The encoding of hook data and of calls; the vendored packages.
* Scripts that read files or the chain once and write a file in one pass: the whitelists and Safe
  bundles beside those of the rollout, listings and comments of the workflows, exports and
  analyses. `1_collect` and `2_enrich` of the rollout run scripts that
  the repository does not have; their output is checked in.
* What is planned above and not done.

### Further hazards

Beside those in `PROJECT.json`, no property covers yet:

* `SiloLendingLib.sol:161`: the revenue wraps at uint192, which a comment accepts for
  real tokens; it is unbounded in the model.
* `ShareDebtToken.sol:151`: a receive approval must not be usable twice.
* `GaugeHookReceiver.sol:76`: the gauge must see the balances from before the transfer.
* `VaultIncentivesModule.sol:167`: a logic is accepted at its time, a factory only after it.
* `SiloVault.sol:570`: fees are the difference of two totals, one stored before calls to others.
* `PublicAllocator.sol:137`: flow caps move in opposite directions and must keep their sum.
* `XSilo.sol:91`: assets include rewards that a change of the stream takes away.
* `LeverageUsingSiloFlashloan.sol:170`: the callback reads transient state that a nested
  call may have replaced.
* `4_deploy:461`: a chain without an RPC variable is skipped and the exit code is 0; one
  chain is modelled.
* `rpc_multicall.py:390`: two reads of a run may be answered by endpoints of which one is
  behind; the checks are modelled with one head.
* `check_deployments_admin_is_dao.py:423`: only the first holder of a role is read, and
  `PassedHadDao` promises no more.

Covered by the properties of the same script, without an entry of their own: a failed read of
versions recorded as an answer (`6_test:498`), bundles of an earlier build that remain
(`5_build:414`), a second multicall that fails (`check_deployments_admin_is_dao.py:428`), answers
missing from a batch (`check_deployments_freshness_from_broadcast.py:370`), a job ended
by an exception (`check_deployments_verified_on_explorer.py:681`), a section of errors
under a name that no later result has (`merge_verification_reports.py:120`).
