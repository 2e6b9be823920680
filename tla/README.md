# PISO Chain in TLA+

This directory holds formal models of the parts of PISO Chain whose behaviour is hard
to test: contracts called in any order by many accounts, daemons that crash between
two steps, blocks that are orphaned, votes that race a clock, services that answer one
client at a time, wallets that must open again with what was printed. TLC checks the models on
small instances; for all safety properties TLAPS checks proofs that hold for every value
of the constants. Paths are relative to the repository.

Sections: [The system](#the-system), [Modules](#modules), [Components in detail](#components-in-detail),
[Runs](#runs-and-their-bounds), [Fairness](#fairness), [Proofs](#proofs),
[Disagreements](#where-code-and-documents-disagree), [Not modelled](#what-is-not-modelled), [Plan](#plan).

## The system

PISO Chain is an EVM chain with proof-of-staked-authority consensus: a patched node
client, a set of system contracts, daemons that link the chain to other services, a
wallet library, and servers, scripts and a dashboard around them.

| component | state it keeps | operations | talks to |
|---|---|---|---|
| Validator set (`contracts/PISOValidatorSet.sol`) | roster array, a record per validator, bonds, jail | register, miss, jail, slash, unjail | called by the slash indicator, the consensus engine and the governor |
| Slash indicator (`contracts/PISOSlashIndicator.sol`) | miss and felony counts, evidence seen | slash, evidence, reset | calls the validator set in the same transaction |
| Treasury engine (`core/treasury_mining.py`) | balances, snapshots by block number, total paid | finalise, roll back | told of blocks by the node |
| Consensus patches (`consensus/`, three clients) and `contracts/PISOMiningTreasury.sol` | the state at each block | payout at the end of a block; quote | must agree block by block, else the chain forks |
| Bridge (`contracts/PISOBridge.sol`) | votes, executed hashes, vault | vote, release in the deciding vote, deposit | relayers |
| Relayer daemon (`bridge/relayer.py`) | hashes processed, state file | scan, print a proposal, save, load | deposits of the source chain, its operator |
| Freqtrade daemon (`bridge/freqtrade_bridge.py`) | trades submitted, state file | poll, send, wait, mark, save, load | freqtrade, a chain node, the oracle contract |
| Freqtrade oracle (`contracts/PISOFreqtradeOracle.sol`) | proofs, workers, parameters, vault | submit a proof with reward, owner's calls | the daemon |
| Swap pair and router (`contracts/PISOSwapPair.sol`, `PISOSwapRouter.sol`) | reserves, LP shares | mint, burn, swap; add, remove, trade | each other, two tokens, users |
| Staking (`contracts/PISOStaking.sol`) | stakes, delegations, coins | register, delegate, unstake (pays by a call) | accounts it pays, which may call back |
| Governor (`contracts/PISOGovernor.sol`) | proposals, votes | propose, vote by coin balance, execute (calls a target) | targets, which may call back |
| Proof of work (`contracts/PISOProofOfWork.sol`, `core/pow.py`, `scripts/pow_miner.py`) | challenges with an escrowed reward; a solution in hand | open, adjust, submit; mine, verify | the owner, miners |
| REST server (`api/rest_server.py`) with job scheduler, referral engine, OSINT, AISVS (`core/`) | jobs, campaigns, codes, conversions; one connection at a time | one handler per path | clients that time out and repeat |
| JSON-RPC server (`rpc/jsonrpc_server.py`) and Python client | nothing | one method per name, batches | SDK, distributor |
| Programs beside a node: distributor, indexer, block producer, bundler, faucet service | list of recipients and nonce; SQLite tables; last block; mempool; claims | send; scan; watch; submit; claim | a chain node, operators |
| Sakura agents (`core/sakura_framework/`, `core/sakura_agents/`, `scripts/sakura_agent_server.py`) | tasks by id, history | route, approve, run a workflow, query | clients, approvers |
| Freqtrade agent and strategy (`core/freqtrade_agent.py`, `config/freqtrade/`) | handles of two processes; signals of the last candles | start, stop, ask, submit; enter, hold, exit | bot and bridge processes, the exchange |
| Wallet (`wallet/`, `cli/`, `sdk/python/`, `scripts/kms_key_manager.py`) | keystores, envelopes, shares, signatures | create, recover, derive, split, combine, seal, open, sign, verify | each tool reads what another wrote |
| Recovery (`contracts/PISOAccountRecovery.sol`, `PISOZKRecovery.sol`, `PISOQuantumSecurity.sol`) | guardians, requests, approvals; nonces | set up, initiate or vote, finalise; execute | wallets, guardians |
| Other vaults (`contracts/PISOFaucet.sol`, `PISOPaymaster.sol`, `PISOSakuraAIOracle.sol`) | coins and claims on them | request, deposit, sponsor, withdraw, claim | accounts they pay |
| Registries (eight proof contracts, referral contract, telemetry) | write-once records and counts | submit, register, log | their senders |
| Other SDKs, scripts, dashboard, deployment | nothing of their own | format, forward, start processes | all of the above |

What is hard, and what makes each component correct:

* **Order of transactions.** Everybody may call a contract at any time. The roster and
  the flags of the validator set are kept up by five functions separately and must
  never come apart; a sentence must end and must not end early; reserves must stay
  covered and a pool share must not lose value to rounding, whoever sends what to the pool.
* **Control handed over inside a transaction.** `unstake` pays and `executeProposal`
  calls before they return, and whoever is paid or called may use the contracts again.
  Stakes must be backed at each such moment, and a proposal's call made once.
* **Reorganisation.** The treasury engine undoes a block by its snapshot, the clients
  by an old state root. Both must come out the same, in any order of extensions and
  rollbacks, also where the payout was capped by what was left.
* **Crash, lost file, late answer.** The relayer and the freqtrade daemon remember in
  memory and in a file what they did, and act on a chain that answers late or never.
  Nothing may be paid twice, nothing counted as done that was not, and everything
  must be done in the end.
* **Repeats and restarts.** A client that got no answer asks again, an operator runs a
  script a second time, a service forgets in a restart what it kept in memory. What was
  done must not be done twice, or only where the first outcome was really unknown.
* **What one tool writes and another reads.** Mnemonics, paths, shares, keystores and
  signatures are made by one program and used by another, later, perhaps with a slip:
  they give back what was put in, or an error, and never something else.
* **Boundaries.** Halvings and the last coin of the treasury; the block where a jail term
  ends; the second where voting ends and execution begins; integer division; arithmetic of
  bytes and of difficulties at 0 and at the width of the word.

`PROJECT.json` lists these hazards at their lines, with the properties that cover them
and those that no property covers yet.

## Modules

| module | models | builds on |
|---|---|---|
| `ValidatorSet` | the validator set contract | |
| `PoSA` | the slash indicator and the two contracts together | `ValidatorSet` |
| `ValidatorLifecycle` | abstract: a validator is out, active or jailed | |
| `TreasuryEngine` | the Python engine | |
| `TreasuryChain` | a chain that reorganises, three clients and the contract's quote | `TreasuryEngine` |
| `PISOBridge` | the bridge contract | |
| `BridgeRelayer` | deposits, daemons, operators, the contract | `PISOBridge` |
| `BridgeEscrow` | abstract: each key is released once, nothing else leaves | |
| `FreqtradeOracle` | the oracle contract | |
| `FreqtradeBridge` | daemon, state file, node with its mempool, contract | `FreqtradeOracle` |
| `SwapPair` | the pool and its LP token | |
| `SwapRouter` | the router, users, direct calls of the pair | `SwapPair` |
| `NativeCoin` | coins, block time and the open calls of a transaction | |
| `PISOStaking`, `PISOGovernor` | one contract each | `NativeCoin` |
| `Governance` | both contracts over one coin | both |
| `Ballot` | abstract: a proposal is open, decided, executed | |
| `RestEngines` | job scheduler, referral engine, OSINT and AISVS verdicts | |
| `RestServer` | the REST server, its backlog and its clients | `RestEngines` |
| `JsonRpc` | the JSON-RPC server and the Python client | |
| `Distributor` | `distribute_piso.py` against a node or the JSON-RPC server | `JsonRpc` |
| `NodeMonitors` | indexer; block producer and bundler; faucet service | |
| `ProofOfWork` | the escrow contract and its miners | |
| `SakuraOrchestrator` | tasks, ids and approvals | |
| `SakuraServer` | registry, workflows, memory, and the server over all of it | `SakuraOrchestrator` |
| `FreqtradeAgent` | the agent, its processes and its command line | |
| `PISOStrategy` | signals and the life of a trade | |
| `Shamir` | GF(256), split and combine | |
| `WalletTools` | from words to an account, by command line and SDK | |
| `Keys` | keystores, envelopes, roles; signatures and multisig | |
| `MC_NodeServices`, `MC_UserPrograms` | the modules above side by side | those modules |
| `RecursionTheorems` | lemmas on recursive functions, filters and sums over finite sets | `TLAPS` |
| `*_proofs` | theorems about the module named; `Consensus_proofs` about `PoSA` and `TreasuryChain`, `Programs_proofs` about the programs beside the contracts | that module, `RecursionTheorems`, `TLAPS` |
| other `MC_*` | constants for TLC | the module named |

Conventions. A contract call is a transaction, which runs to its end or reverts; so an
external function is one action, its `require`s are conjuncts of the guard, and a
reverted call is a step that is not there. Where a function hands over control in the
middle, the action ends at that point and pushes a frame; a second action pops the
frame and does the rest of the function. Variables have the names of the source.
Variables that record what happened, for a property to speak of, are marked "history"
and no guard reads them. Definitions marked "Mutant" are plausible mistakes; replacing
the definition that follows by one of them makes the property it is listed with fail.

Programs that share no state are checked in one run: a variable of the `MC` module
(`service`, `program`) chooses at the start which of them moves, and the others
stand still. Nothing is said about one beside the other, since nothing connects them.

## Components in detail

### Validator set and slash indicator

`ValidatorSet` has an action per function of `PISOValidatorSet.sol`; a validator's
record is a record, the mapping a function and `activeValidators` a sequence.
`RemoveFromActive` is `_removeFromActiveValidators` with its swap-and-pop.
`reportMissedBlock` has three outcomes (ignored, counted, jailed), which are three
disjuncts. In `PoSA` a call of the indicator and its calls into the validator set are
one action: `slash` passes on one miss only, the one that reaches the misdemeanor
threshold, and on a felony slashes the stake and starts the count anew. The callers
are the validators themselves, the consensus engine and governor (`SystemCall`) and
anybody with evidence. The code checks nothing about evidence but that it has not seen
the hash of these bytes: `Evidence` is a set of such hashes, any of which anybody may
submit against any address, and its size is a bound of the run. Left out: fee recipient,
consensus address, a mapping nothing reads.

`RosterInvariant` ties the array, the flags and the counts together: no entry twice or
missing, nobody both jailed and active, nobody active at the jailing threshold, and
(`RosterCapped`) no more on the roster than `MAX_VALIDATORS` and those who came back from
jail, since a jailed validator frees a place that `unjail` takes again without looking at
the cap. The chain starts at block 1, where a block number of 0 means "never".
`BondsCovered` says that no sequence of rounding slashes and re-registrations leaves more
stake on record than coin. `StakeFallsBySentence` says that a stake shrinks only together
with the record of its cause; the same bytes do not count twice, though the same two
headers in the other order do. `ImplementsLifecycle` maps both contracts to
`ValidatorLifecycle`: an address is on the roster by a bond of at least `MIN_STAKE` or by a
sentence served to its end, and a sentence has one of three causes: misses of an active
validator, an order of the authorities, a piece of evidence not seen before. The last two
may fall on an address that never paid a bond, which then serves its sentence and signs
with nothing at stake: `MC_PoSA_bondless` shows it. `JailEnds` is liveness: each sentence
ends unless another takes its place. How often that happens nothing bounds.

### Treasury mining

`TreasuryEngine` is the engine: `finalize_block_reward` and `rollback_block_reorg` are
synchronous and one action each. `TreasuryChain` puts it on a chain that grows and
loses its head any number of times; `roots[n + 1]` holds the state of each of the three
clients after block n, and an orphaned head returns to its parent's. Each client's
payout function is translated on its own, since the clients cap the reward at different
places. The contract quotes a reward and takes donations, of which nobody tells the
engine. `ShiftedReward[h]` is the initial reward shifted right h times, a recursive
function that halves and rounds down at each epoch.

`EngineFollowsChain` says that undoing by snapshot leaves nothing behind: balances are
those of the state root, books those of the canonical blocks; `ClientsAgree` that the
clients never fork over a payout; `QuoteIsPaid` that the contract announces what is paid;
`PreMintedConserved` and `NeverDepleted` concern the supply.

### Bridge and relayer

`PISOBridge.VoteProposal` is the vote, with the release in the same transaction when it
is the deciding one; if the vault holds too little or the recipient's code reverts, the
whole call reverts and the vote is not counted. (`Refusing` are recipients that revert
always; one that reverts now and then is an attempt that changes nothing.) Recipient and
amount are arguments of each vote that the contract compares with nothing.
`BridgeRelayer` adds the deposits of the source chain and a daemon per
relayer: it computes a hash, remembers it, prints a proposal and saves its file. Saving
may fail (the exception is swallowed), cutting the file short or leaving it as it was;
a crash loses the memory; a restart reads the file. The daemon of the source sends no
transaction, so the vote is an action of its operator for a hash that was printed: with
the target and the amount on the screen, which is rounded to four decimals
(`VoteAsPrinted`, `PrintedAmounts`), or with others (`Vote`). Events reach
the handler in any order and repeatedly: in the source `run` feeds it one simulated
event when the node is offline and nothing when it is connected, so this is what the
handler must be fit for.

`ImplementsEscrow` maps all of it to `BridgeEscrow`: whatever crashes, is scanned again,
reverts or is voted for late, coin leaves the vault at most once for a deposit hash, after
the deposit, and for nothing else. How much, and to whom, is the word of the deciding
voter; the escrow does not say that it is the amount deposited, and the code does not
ensure it. `ReleasedByThreshold` traces a release back to as many different daemons as the
threshold asks for. What the daemon forgets, the contract tells apart: that its file is
right shows in neither. `PrintedIsReleased` is liveness, for targets that take coin.

### Freqtrade daemon and oracle

`FreqtradeBridge` follows one pass of the loop step by step, because a crash may come
between any two: `Poll` makes the list, `Send` puts a transaction into the mempool,
`Receipt` or `Timeout` ends the wait, `Mark` writes the list in memory and then the
file, `MarkUnsaved` is the failure in between. The nonce is the number of transactions
mined, so while one is pending the node refuses the next (`SendRefused`); it may refuse
one for any other cause too, be out of reach, or find no coin for the gas. Without an
oracle, whose address may be unset at every start, a trade is skipped, in a dry run as
well (`Skip`); a trade that cannot be read ends the poll by an exception the loop swallows
(`PollRaises`). The node may mine the transaction, with or without success, or forget it. `FreqtradeOracle` has the
contract: a proof is recorded, and rewarded if profitable and the vault can pay; its
owner may change the parameters, the worker's authorisation and the vault at any time.
A dry run marks trades in the same file, and a restart may change the mode.

`DuplicatesNeedDoubt` says when the same trade may reach the contract again: only if a
timeout, a crash or a failed save hid the outcome of an earlier transaction from the
daemon. `MarksAreAnswers` goes both ways: nothing is marked that was not mined, and an
outcome the daemon has seen, a proof or a failure, is marked in its memory while it runs
and in its file while that can be read.
`ClosedIsMarked` is liveness, and conditional: `Troubled` steps, a missing oracle, a poll
that raises, a send refused with nothing pending, must end for a closed trade to be marked
in the end. Nothing in the code ends them, and a trade that cannot be read holds up all
behind it for good. More than one page of 500 trades is not modelled.

### Swap pair and router

The pair takes whatever it finds on its account beyond its reserves as paid in, so its
operations get the holdings of both tokens as they are when it is called; `SwapRouter`
composes them with the router's transfers of the same transaction. Users may also send
tokens or shares to the pair and call it directly, which the model allows in any order.
The minimum amounts a caller gives are quotes of any earlier moment. Arithmetic is that
of the source: floor division, the fee of 3 in 1000 at the pair's and at the router's
scale, the Babylonian root. Deadlines and allowances are left out.

`ShareNeverFalls` compares the product of the reserves per share squared before and
after each step, so every rounding goes to those who stay. `QuoteHonoured` and
`AmountInSuffices` relate the router's formulas to the pair's check.

### Staking and governor

`NativeCoin` has the balances of the accounts, the block time and `frames`, the open
calls. `Unstake` ends with the payment, when the account paid is in control with the
lock held; `UnstakeReturns` releases the lock. `ExecuteProposal` ends with the call of
the target; `ExecutionReturns` finishes it. Between them any account may do anything
with either contract. Time moves only between transactions.

`StakeBacked` must hold at every such point: coins equal stakes, and behind a validator
stand all its delegations and its own minimum. `ImplementsBallot` maps the governor to
`Ballot`: decided when the time is over, for good, and executed only if carried.
`CalledOnce` and `ExecutedByVotes` concern re-entry and late votes. A tally counts the
coins an account holds when it votes; that moved coins vote again is what the code does.

### REST server and its engines

`RestServer` has the connection as the server sees it: accepted in order, read, handled,
closed, one at a time. A body that is shorter than announced keeps the one thread until
the client gives up (`Read`, `DropCut`). Handlers that keep no state are functions from
request to status (`GetStatus`, `PostStatus`), with the exceptions that close a
connection unanswered; the four that change an engine are actions. Ids are cut from
digests, so a new one may be one in use, which replaces the record. Clients may lose an
answer, time out and ask again; workers run jobs in between.

Rewards are floats: sums of them depend on the order, and one may be no number. They are
values without arithmetic here, and the account of a record is the sequence of what was
added to it; no sum over all referrers is claimed to agree with the log. What is:
`BookedIsCredited`. The handler counts in the record first and may raise before the log,
and a code drawn again starts a record anew; so each reward logged for a code since its
record was made is in that record, which may hold more. A conversion reported twice is
booked twice, by whomever and for whatever reason: the engine keeps no record of
transactions, and there is nothing to state. `EveryConnectionEnds` is liveness: what
keeps a connection waiting for good can only be a request, its own or that of one before
it, whose body never arrives in full.

### Programs beside a node

`Distributor`: `get_nonce` raises on every number it is answered, so the script gets to
its loop only when the question fails, and counts from zero; a failed send leaves the
nonce, a printed success moves it. The node may refuse a transaction for any cause, mine it
and let it fail, since the gas of 21000 runs no contract's code, or drop it, which frees its
nonce. `PaidOnce` holds over lost calls, broken runs and repeats as long as nothing is
dropped. `PrintedIsMined` says that no nonce before a printed one stays open; a printed
success is mined, which does not make it a payment. Against the JSON-RPC server every send
is a success and nothing is transferred.

`NodeMonitors`: each statement of a scan is a step, with two processes and kills between
them. A scan that finds no node stores simulated events and marks a fixed height, and
`SimulatedIsStored` says that they are stored, each once, when that mark has been set. A
scan that finds a node stores nothing and marks what height it reads, so the mark itself
stands for no events, and no property says it does. The faucet service of the same module
has `ClaimsApart` over spellings of an address, restarts and the clock.

`ProofOfWork`: anybody opens a challenge and escrows its reward, the owner adjusts, miners
search with either digest and submit, coins arrive from outside; a payout that fails
reverts. The solver has control during the payment, but everything was written before it
and nothing is read after, so the call is one action. `EscrowCovered` says that each reward
leaves once. `VerifiedIsAccepted` says that the contract accepts what the miner's check
passed with Keccak; of a solution found with sha256, the fallback without web3 that is
printed as passed too, it says nothing, since the contract refuses it. Difficulties of 0 and
of the whole word, which `createChallenge` refuses, are outside.

### Agents

`SakuraOrchestrator` names a task by the millisecond: `LostNeedsSameMillisecond` and
`ApprovedByName` say what that costs and what it does not. `SakuraServer` has the
handlers around it: an execution makes the report and its proof before anyone approved.
`FreqtradeAgent` has a handle per process and object; `stop_bot` waits ten seconds and may
raise with the bot running, and `OneBot` says that no second one is started beside it by
the same object. A second start of the command line is another object, knows nothing of the
first bot and starts a second on the same account; no property forbids that.
`PISOStrategy` follows candles and one trade through the exits in freqtrade's order. It has
no property: its rules are formulas of a candle and the one before, and what one might want
to add, that no candle both enters and exits, is left to the tuning, whose ranges for
`rsi_buy_max` and `rsi_exit_max` overlap. The second copy of the strategy, `config/freqtrade/strategies/`,
is the same code but for its import lines.

### Wallets

`Shamir` computes with real bytes: tables by doubling, polynomials, Lagrange weights;
`SharesGiveTheSecret` is over all collections of up to three shares of each split. A repeated
share is an error, except for an empty secret, which has no byte to divide for. The
bits of a byte, and exclusive or, are written out, so that the field can be proved about.
Shares of different splits, which carry nothing to tell them apart, are not mixed.
In `WalletTools` and `Keys` a digest, a derived key or a ciphertext stands for what went
into it, so equal results mean equal inputs. `ToolsAgree` compares the account one tool
made with the one another finds from what was printed, mistyped or spaced otherwise; the
SDK's `derive_address` takes a path and finds the account of the default path, whatever
path it is. `KMSKeyManager` draws its master key for every object, so `Keys` has several
in a process: an envelope opens to the object that sealed it and to nobody else.
`FilesOpenToTheirKeys` says that, and the same of a keystore and its password, over damage,
wrong passwords and restarts; `ApprovedByOwners` is over names, schemes, repeated and
replaced signatures.

## Runs and their bounds

| run | question | instance |
|---|---|---|
| `MC_PoSA_roster` | does any order of calls break the roster? | 3 validators, 2 in genesis, a cap of 2, blocks 1 to 3, every caller |
| `MC_PoSA_sentences` | do punishments stay in proportion and end? | 2 validators, 2 pieces of evidence, terms of 1 block ordered at will, 1 felony each, blocks 1 to 3 |
| `MC_PoSA_bondless` | does everybody on the roster have a bond? violated | 2 addresses, 1 of them registered, 1 piece of evidence |
| `TreasuryChain` | do engine, clients and contract agree? | 5 blocks, 2 epochs of 2 blocks and one past the last, reward 8, supplies 11 and 33, fees, donations |
| `MC_BridgeRelayer` | is each deposit released once, and in the end? | 3 relayers, threshold 2, 2 deposits of half a printed unit, 2 faults, 1 refusing recipient |
| `MC_BridgeRelayer_collision` | is every deposit released? violated | 2 equal deposits in a block |
| `MC_FreqtradeBridge` | can a trade be lost or doubled? | 2 trades, 2 faults, every call of the owner |
| `SwapRouter` | can a share lose value or a quote fail? | 12 coins of each token, amounts 1, 3, 8, 2 locked shares |
| `Governance` | stakes and votes with re-entry | 2 accounts, 3 coins each, 2 calls deep, 1 proposal |
| `MC_RestServer` | does the log agree with the records when handlers raise; what can hold up a connection? | 2 clients, 3 requests, 1 answer lost, 2 task and campaign ids, 1 code |
| `MC_NodeServices` | does each program survive its environment? | 3 starts and 3 faults of the distributor, 2 indexers with the fixed height within the chain's, 2 addresses in 3 spellings, 2 miners with 3 nonces of 3 bits |
| `MC_UserPrograms` | are tasks and processes kept apart; does each tool of the wallet read what another wrote? | 3 tasks in 2 ms, 2 agent objects and 4 processes, candles at the limits of each rule; 2-byte secrets in 3 shares, 3 entropies of which 2 share a checksum, 2 processes with 2 key managers, 3 signatories |

Why these bounds. *Roster*: swap-and-pop has the cases first, middle, last and absent,
which three entries have; thresholds of 1 to 3 reach misdemeanor, felony and jail within
few calls; sentences of one and two blocks begin, overlap and end within the blocks; a
cap of two is full at genesis and is passed by a return from jail.
The numbers keep the source's order (misdemeanor before felony), which is all the code
compares. *Treasury*: supply 11 is exhausted in the second epoch by a capped payout, 33
outlives the schedule; all heads may be orphaned down to genesis. *Bridge*: two faults
let one daemon lose memory and file, or two daemons go down at once; the vault holds the
coin of one vote, so that the deciding one meets it empty; an amount half-way between two
printed ones is printed as nothing or as double. *Freqtrade*: the second trade is refused
while the first is pending; two faults are a timeout and a crash, or a timeout twice.
*Swap*: the pool sees balances and not who holds them, so one user stands for all; twelve
coins allow a first deposit, unequal later ones and trades on a thin and an uneven pool.
*Governance*: depth two is re-entry; the time covers voting, its last moment and after.
*REST*: three requests are a code, a conversion and its repetition, or a client held up
behind a broken body behind another; the requests a behaviour may use are chosen at the
start (`Workloads`), so that every pair of handlers meets. *Node services*: three faults
are a nonce unread, a transfer in doubt and a nonce unread again, which is what paying
twice would take, or a drop in the place of one; three bits have the edges of the shift. *Agents*: three tasks are one
that loses its name twice. *Wallets*: secret bytes and coefficients include 0 and values
whose product wraps in the field; an index of 100 stands for 2^31.

`CHECK_DEADLOCK FALSE` stands where the bounds (blocks, coins, proposals) end the
behaviour. `MC_FreqtradeBridge` needs none: owner calls are always possible.

## Fairness

* *PoSA*: blocks keep coming, and the operator of a jailed validator calls `unjail` once
  it may. Nothing is assumed of those who slash or jail: `JailEnds` promises an end of
  each sentence that is not replaced, and says nothing of how often one is.
* *Bridge*: an operator votes as was printed, unless it has voted otherwise, again when
  the vote reverts, and the vault is topped up. Nothing is assumed of the daemons, which may stay down:
  what was printed has left them.
* *Freqtrade*: the daemon's loop goes on and gets answers from freqtrade, a wait ends by a
  receipt or by its timeout of 30 seconds, the chain mines what is pending, and a process
  manager restarts the daemon. What the loop does with a trade is left open: skipping it
  or a refused send for ever is fair, and `ClosedIsMarked` names that as its condition.
  Faults are not fair, and no call of the owner is.
* *REST*: the serving thread goes on. That uploads arrive or break off is not assumed:
  the server sets no limit to its read, one client can hold up all others for good, and
  `EveryConnectionEnds` has the absence of just that as its condition (`HeldUp`).
* *Node services*: the node mines what it holds, with success or without, unless it has
  dropped it (`PrintedIsMined`).
* All of these are weak fairness; no strong fairness is used. The treasury, swap and
  governance modules state safety only: nothing in that code has to happen by itself.

## Proofs

Eight modules hold theorems, for every value of the constants under the named
assumptions of the modules. Numbers have their sign and order (thresholds are positive,
percentages at most 100, the misdemeanor threshold is below the felony threshold, the end
of time is positive); values that mean nobody or nothing are apart from those that mean
somebody; validators and accounts are finite sets. TLC evaluates all of them on every run.
Every invariant and every action property that a passing run checks is also a theorem, and
so is the type correctness of every module that states it.

* `RecursionTheorems`: what the other modules need of data. The theorems of the library
  that induct take an operator as a parameter and cannot be used here, so induction is
  written out where it is needed: the set of counterexamples, if there is one, has a
  least element (`NumberInduction`), or a smallest subset. From that follow that a
  recursive function exists and has its equations, what halving comes to, what a filter
  of a sequence keeps, and sums over finite sets: of one element more (`SumOneMore`), of
  one entry changed, of a part, of a partition (`SumPartition`).
* `Consensus_proofs`, first part: `RosterCorrect` proves `RosterInvariant`, the
  conjunction of types, roster and flags, jail, counts and cap. The roster alone is not
  inductive: pushing in `registerValidator` and `unjail` keeps it free of duplicates only
  because an inactive validator is not listed, and a jailed one is not active. The cap
  holds of those not in jail since they registered: only registration adds to them.
  `TypeCorrect` and `RosterAgrees` follow. `ContractsImplementLifecycle` shows that
  initial states map to initial states and each action to `Admit`, one of the three ways to
  jail, `Release`, `Tick` or a stutter. `BondsAreCovered` is an inequality of a sum and a balance, carried
  over the one entry a call changes; `StakeFallsOnlySo` goes through every caller of a
  slash.
* `Consensus_proofs`, second part: `TreasuryConserved` and `TreasuryNeverDepleted`. The
  latter bounds a halving series: `Budget` relates the number of a block, what was
  distributed up to it, and what the current epoch and all later ones can still pay;
  `BudgetInv` holds it for every prefix of the chain, so that an orphaned head leaves it
  true. `EngineFollows` and `ClientsNeverFork` rest on an invariant that says of every
  block, not of the head alone, what snapshot, books and the three state roots have in
  common: a rollback makes a block of the past the head. `EngineTypeCorrect` follows: a
  balance is a sum over canonical blocks, so no rollback makes it negative.
  `QuotesArePaid` compares the contract's formula with the payout of the next block.
* `BridgeRelayer_proofs`: `BridgeInv` ties votes to printed proposals, a proposal to a
  deposit, the count of votes to the set of voters, and a release to the threshold.
  `ThresholdPrinted` and `TypeCorrect` (a count of votes fits its eight bits) follow, and
  `BridgeIsEscrow` maps each step of daemons, operators and contract to a step of
  `BridgeEscrow` or a stutter.
* `FreqtradeBridge_proofs`: `DuplicatesOnlyInDoubt`, `MarksKeepAnswers`, `TypeCorrect`.
  The invariant `IInv` counts, for each trade, transactions mined and pending against
  what memory, file and the present wait know of them; only the three hidden outcomes
  let the two drift apart.
* `SwapRouter_proofs`: `SharesHoldValue`, `QuotesAccepted`, `AmountInEnough`. Lemmas
  bound floor division; deposit, withdrawal and trade are each an inequality of
  products proved in steps the solver can follow. `CoveredInv` (reserves at most the
  holdings, positive with shares outstanding) is the invariant under them, and gives
  `ReservesStay`; with `SupplyInv` (the supply is the sum of all balances, which a
  transfer keeps and mint and burn change by one entry) it gives `TypeCorrect`.
* `Governance_proofs`: `OneCall`, `CarriedByVotes`, `GovernorIsBallot`. The invariant
  `GInv` relates, per proposal, the executed flag, the tally, the clock and the number
  of calls, and says that ids not yet given out hold the empty record.
  `StakesAreBacked` sums the stakes of all validators and the delegations to each; a
  call moves one entry of both by the same amount, and `Unstake` writes the books and
  the vault before it hands over control. `TypeCorrect` adds that each active validator
  is listed once and that the lock is held exactly while one payment is under way: no
  frame of `unstake` lies under another, however deep the calls.
* `Shamir_proofs`: from the eight bits of a byte, that exclusive or associates and that
  doubling respects it; that the powers of two tabulated in `EXP` are all bytes but 0,
  each once; hence `BytesAreAField`. Interpolation at 0 is exact because the weights
  applied to the powers of the points sum to 1 for power 0 and to 0 for the others,
  by induction on the number of points; `CombinationIsExact` is `SharesGiveTheSecret`
  for every secret, draw, threshold and collection. `TooFewTellNothing` is the converse:
  a polynomial that is 1 at 0 and 0 at the points seen, times the difference of two
  secrets, moves the draws of the one onto those of the other and leaves the shares seen
  as they are. `CollectorsLearnNothing` states it of the reachable states. Neither is
  checked by TLC, which cannot enumerate all draws of bytes.
* `Programs_proofs`: `OneBotEach` (the bot that runs is the one in hand, process ids are
  given out once) and `HandlesName`; `NamesLeadToTasks`; `NamesLostInOneMillisecond` and
  `TasksApprovedByName`, by an invariant that ties every id to the youngest task routed
  under it; `ClaimsKeepApart`, by one that ties the last service to the claim in memory;
  `RewardsAreCovered` and `VerifiedAccepted`, by sums over the open and the solved
  challenges and by what a miner's solution was checked against; `SimulatedAreStored`, by
  what is stored of a scan without a node that will set the mark; `NobodyPaidTwice`, because
  only the run that took the first nonce gets beyond it, and it has sent nothing to those
  left on its list; `BookedRewardsCredited`, by counting each reward in the record
  and in the log since the record was made, of which a conversion adds to the record
  first; `ToolsFindAccounts`, by the account each path, phrase and passphrase comes to;
  `FilesOpenRightly` and `OwnersApprove`, by what a file and a signature were made from and
  by which object.

Only model-checked: all liveness, since the prover has no ENABLED and no fairness rule.
What the recursive function `Sqrt` computes is not proved: the theorems of the swap use
only that it yields a number where the action requires one.

## Where code and documents disagree

Shown by runs that TLC finds violated:

* Two equal deposits in a block share a hash and one is never released
  (`docs/FAUCET_AND_RELAYER.md:27-33`; `MC_BridgeRelayer_collision`).
* An address that never paid a bond gets on the roster by a sentence it serves
  (`TOKENOMICS.md:75`; `MC_PoSA_bondless`).

Seen while modelling, without a run of their own:

* The 50th miss reaches the validator set as one miss and does not take a validator off
  the roster (`docs/WHITEPAPER.md:109`); `unjail` looks at no cap on signers (line 102),
  and `RosterCorrect` shows that those back from jail are the only ones beyond it.
* A treasury that halves its reward pays at most 50 of the 60 billion, which is what
  `NeverDepleted` proves, and is not empty at block 38 million
  (`docs/TREASURY_MINING_SPECIFICATION.md:87`).
* A failed transaction marks its trade as submitted, as `MarksAreAnswers` states
  (`bridge/freqtrade_bridge.py:309`; `docs/FREQTRADE_INTEGRATION.md:120-125`).
* A felony slashes 5 % and resets the count; `docs/WHITEPAPER.md:110` has it unregister
  the validator. Double signing jails for 1,000,000 blocks; line 111 says for good.
  After slashing a validator may hold less than the documented minimum and unjail.
* The governor declares `TIMELOCK_DELAY` and never reads it, against
  `docs/PISO_CHAIN_COMPLETE_GUIDE.md:152`; coins moved after a vote vote again, against
  `docs/TOKENOMICS.md:82`.
* Nothing returns a validator's own stake or deactivates it in `PISOStaking.sol`;
  `maxValidators` and `rewardPool` are unused.
* `PISOSwapFactory.sol` deploys `PISOSwapPairLite`, which lacks mint, burn and swap, so
  the router reverts on the pairs of this factory.
* A daemon that is connected to its source chain moves `last_scanned_block` on and reads
  no event (`bridge/relayer.py:160`). The engine's second finalisation of a number
  overwrites its snapshot (`core/treasury_mining.py:81`); no run reaches it, since the
  clients orphan a block before they replace it.
* The gas limit of a proof, 200,000, is below the cost of the storage it writes
  (`bridge/freqtrade_bridge.py:300`).
* The indexer ignores the second event of a transaction and moves its mark on without
  scanning (`indexer/indexer.py:33`, `:118`).
* `scripts/distribute_piso.py:49` calls `startsWith` on a Python string: with a node that
  answers, the script ends before its first transfer.
* `derive_address` of the Python SDK ignores the path it is given, against its docstring
  (`sdk/python/piso_sdk/wallet.py:40-43`), and `ai_agent_wallet` uses the agent's name as a
  passphrase that `recover_wallet` has to be given (`:46`). `Account.verify_signature` answers true
  for any curve but secp256k1 (`wallet/account/account.py:89`).
* An envelope of `KMSKeyManager` opens for the object that made it only, with a master key
  that is stored nowhere, against the "encryption, storage, and decryption" its module
  announces (`scripts/kms_key_manager.py:21`, `:4`).
* A JSON-RPC batch with one member that is no object loses the answers to all others
  (`rpc/jsonrpc_server.py:167`). `validator:rotate` prints the new address and public key
  and drops the private key (`cli/piso_cli.py:123-132`).
* `start_bridge` starts a bridge whether or not one runs (`core/freqtrade_agent.py:172`).

## What is not modelled

`PROJECT.json` gives the reason for each. In short: the recovery contracts and the
remaining vaults and registries are Solidity no Python in the repository calls, and are
next in the plan; the factory only keeps a table of pairs and deploys a stub; the
dashboard and the SDKs in other languages repeat calls that are modelled; the escrow runner
and the two agent examples print fixed numbers and keep nothing; coins forced onto a
contract without a call (by self-destruction, or as a block's reward) are left out; node and
deployment scripts start external programs or write files once; the simulated engines
other than AISVS and OSINT return prepared reports. Within what is modelled, texts of
answers, logging, gas and timing are left out, and cryptography is free: nothing is said
about the strength of a digest, and the stand-ins for Ed25519 and ML-DSA are modelled by
what they compare.

## Plan

Done: validator set and indicator, treasury, bridge, freqtrade, swap, staking and
governor, proof of work, the servers with their engines, the programs beside a node, the
agents, the wallet; the abstract specifications `ValidatorLifecycle`, `BridgeEscrow` and
`Ballot`. Next:

1. `AccountRecovery` and `ZKRecovery`, composed as `Recovery`: guardians replaced in the
   middle of a request, requests that expire and are renewed, approvals spent, the
   timelock. Abstract specification: an account changes hands only by a quorum that
   agrees on one new owner within one window.
2. `Vaults`: faucet, paymaster and Sakura oracle over `NativeCoin`, with the account paid
   in control during the payment. Claims are covered by coins, nothing is paid twice.
3. `ProofRegistry`: the eight registries as one parameterised module, with the referral
   contract.
4. Theorems: types and the refinement of the abstract specifications of the modules
   above.
