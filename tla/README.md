# Formal models of the Rayls sovereign contracts

This directory is a TLA+ development of the Rayls contracts (`src/src`) and of
the hardhat tasks that deploy and administer them (`src/hardhat`). It models the
cross-chain parts of the protocol, where several chains and the relayers between
them interleave, and the operation of a chain: how a deployment numbers, sends
and retries its transactions, whether what it leaves behind works, and what the
audits and migrations that follow can rely on. TLC checks the models on small
instances, and TLAPS proves the main safety results for every value of the
constants.

Paths of contracts below are relative to `src/src`, those of tasks to
`src/hardhat`; line numbers are in the map of `PROJECT.json`, which names the
code that every definition translates.

Contents: 1 the system, 2 the modules, 3-10 one section per modelled component,
11 what is assumed, 12 findings, 13 proofs, 14 what is not modelled, 15 the plan,
16 how to run.

## 1. The system

A Rayls deployment has one **private network hub** (PNH), several **privacy
nodes** (PNs, one chain per institution) and, beside each PN, a **public
chain**. Contracts on different chains cannot call each other. They emit events,
and an off-chain **relayer** turns each event into a call on another chain. The
relayer is not in the repository. The code and its comments expect it to deliver
at least once, to repeat calls after a crash and to follow no order between
chains.

Each chain is set up by a **hardhat task** of an operator, which sends a few
hundred transactions from one account, and writes a manifest. Every restricted
function of the contracts is guarded by the chain's **access manager**: the task
maps functions to roles and grants roles to contracts. Later, further tasks give
the role `RELAYER` to the keys that **CTS**, the nodes' key service, advertises,
and audits compare what is on the chain with what should be there.

### Inventory

| Component (sources) | State | Operations | Talks to | Hard behaviour | Correct when |
|---|---|---|---|---|---|
| **Atomic teleport**: `privateHub/Teleport/TeleportV1.sol`, `rayls-protocol-sdk/tokens/RaylsErc20Handler.sol` | status per message id on the hub; balances, `lockedAmount` and executed ids on PNs | teleportAtomic(From), storeEncryptedDataBatch, executeAtomicMessageBatch, revertAtomicMessageBatch, receiveTeleportAtomic, unlock, revertTeleportMint, revertTeleportBurn | messaging (dispatch and delivery), token registry (freezes), relayers | two relayers race to the hub, each in batches; calls are repeated; freezes land between legs | each teleport pays the recipient or the sender, never both, never neither; locks match what was received |
| **Messaging**: `rayls-protocol/Endpoint/EndpointV1.sol`, `rayls-protocol/modules/*`, `rayls-protocol/RaylsMessageExecutor`, `MessageLib`, `RaylsReentrancyGuardV1` | nonces in both directions, resource bindings, executed ids | send, sendToResourceId, sendBatch, broadcast, receivePayload, registerResourceId | participant replica and frozen tokens (validation), executor (handlers) | repeated, reordered and refused messages; handlers that send; batches that run their own-chain part at once | no message runs twice, no two messages share an id, none is used up without running |
| **Token registration and freezes**: hub `TokenRegistry/modules/TokenCore`, `TokenFreezeManager`; PN `TokenRegistry/modules/...` | token status and frozen chains on the hub; three layer statuses and a copy of the frozen list on every PN | submitToHub, addToken, updateStatus, activateToken, rejectToken, freezeToken, unfreezeToken, snapshot for a new participant, update/remove/syncFrozenToken, registerHubToken | messaging | decisions about a token's life and its freezes travel in separate messages | every PN ends with the hub's list; a frozen token does not work; thawing restores the last decision |
| **DvP swaps**: `rayls-protocol/Enygma/Enygma-DVP/Dvp.sol`, the coin vaults, `Merkle.sol` | commitments, nullifiers, locks, swaps with an expiry | deposit, transfer, withdraw, initiateSwap, completeSwap, cancelSwap, expireSwap | verifiers (proofs), wallets | the parties, a canceller and anybody who expires compete for one swap; one coin in several swaps | both coins change hands or none; no coin is spent twice; no lock is left behind |
| **Participant storage** (hub) and its **replica** (PNs) | participants with status, roles, view keys | add, update, remove; broadcast to PNs | messaging validates against the replica | updates carry no version | replicas converge to the hub's list |
| **One-shot teleport, public-chain lock** (ERC-20 handler) and **public bridge** (`rayls-node`) | the same `lockedAmount` per account as atomic teleports; mirrored supply on the public chain | teleport, receiveTeleport, teleportToPublicChain, its revert, lock, mint, burn, message batches | messaging, relayer of the public chain | two protocols share one lock counter | supply on the public chain is backed by locks |
| **ERC-721, ERC-1155 handlers, stable coin** | owners or balances per id | the operations of the ERC-20 handler | as above | as above | as above, per id |
| **PN and public layers of a token** | statuses and the status saved before a freeze | updatePrivacyNodeStatus, updatePublicTokenAddress, setFreezeStatus | freezes | a layer changes while frozen | a freeze hides, a thaw restores |
| **Enygma payments** (`EnygmaV1`), its token manager, the PN handler, the program executor | committed balances per block, nullifiers, pending mints and burns; reference ids | mint, burn, transfer, finalise; crossTransfer, receiveCrossTransfer, reverts, composed programs | messaging, verifiers | balances become final at the first later transaction; forward and revert of one reference id race | supply is conserved; a reference id lands once |
| **Enygma-DvP integration, DvP handlers of PNs, DvP tokens** | a local lock per token whose coin is in a vault | depositToDvp, withdrawFromDvp, receive and revert of both | messaging, DvP swaps | two-chain deposit and withdrawal that may fail half way | a token is usable on one side only |
| **Merkle trees** of the vaults | leaves, filled subtrees, roots, tree number | insertLeaves | vaults | change of tree when one is full | the incremental root is the root of the leaves |
| **DvP settlement** (`dvp/DvpSettlement.sol`) | settlements with an expiry | create, execute, cancel, expire | two ERC-20s (allowances) | allowance and expiry at the boundary | both legs or none |
| **Access manager**: `privateHub/AccessControl` | roles, members, mappings of functions to roles, scoped grants; delays, schedules, guardians | register, map, grant, canCall; schedule, execute, cancel | every restricted call; deployment, audits | a schedule expires or is cancelled while used | who may call is who was granted; nothing runs before its delay |
| **Nonces and batches**: `tasks/deploy/batch-helpers.ts` | the nonce counter of a run, chunks and calls in flight | allocateNonce, sync, deployBatch, deployWithNonce, deployProxyWithoutNonce, executeBatchConfig, retryOnTransientError | the node's pool and chain | parallel batches share a counter; a chunk is sent again while its first calls are in flight; a run dies and another begins | no nonce twice, nothing reported that did not happen, order kept, no run hangs |
| **Deployment tasks**: `tasks/deploy/private-hub.ts`, `privacy-node.ts`, `public-chain.ts`, `*-batches.ts`, and the activation of business roles that follows, `tasks/interact/access-control`; **manifest and upgrade validation**: `manifest-manager.ts`, `validation-helpers.ts` | contracts, their wiring, the access manager, published names, the manifest file | deploy, configure, register roles, map, grant, name, record, activate roles | access manager, batches | parallel branches; a setter or a grant that nothing in the task needs is forgotten; a task stops half way | the system works when the task ends, and is not announced before |
| **Role audits**: `tasks/audit/check-roles.ts`, `expected-roles` | hand-written expectations | replay of grants, comparison | access manager, CTS | lists and plans drift apart | a fresh deployment is clean |
| **Selector audits and migrations**: `tasks/audit/check-*-selectors.ts`, `generate-migration.ts`, `utils.ts` | the last migration file | lint, scan of events, classification, generation | access manager, sources, deployments | the log grows while two streams of it are read; migrations stop and are repeated | a report is about one moment; a migration clears what it reports |
| **Relayer authorization**: `tasks/interact/relay-authorization`, `tasks/utils/sendWithAllocatedNonces.ts` | jobs of a stage with their nonces | fund, grant, resend after a collision | CTS, nodes, access manager | the account's other transactions take nonces; a run stops between paying and granting | one payment and one grant per key and run; no relayer without funds |
| **Template registry** and replica | approved templates with block stamps | approve, revoke, sync | messaging | two decisions of one block have one stamp | the replica converges |
| Asset groups, auctions, brokers; PN communicator; user governance; resource registry, proofs, deployment registry; legacy token locker; verifiers and curve arithmetic; relayer; token, participant and benchmark tasks | | | | | not planned, see section 14 |

The hazards in `PROJECT.json` list what is hard to test in this code, each at
its line. Those without a property belong to components that are still to be
modelled or state a divergence that section 12 describes; their notes say which.
Section 15 names a few more beside the module that will meet them.

## 2. The modules

| Component | Promise (abstract) | Model | Instances | Proofs |
|---|---|---|---|---|
| Atomic teleport | `AtomicTransfer` | `AtomicTeleport` | `MCAtomicTeleport` | `AtomicTeleport_proofs` |
| Messaging | `MessageBus` | `Messaging` | `MCMessaging` | `Messaging_proofs` |
| Token registration and freezes | (properties only) | `TokenFreeze` | `MCTokenFreeze` | `TokenFreeze_proofs` |
| DvP swaps | `AtomicSwap` | `DvpSwap` | `MCDvpSwap` | `DvpSwap_proofs` |
| Sums of balances and coins, for teleports and swaps | | `Totals` | | in both |
| Nonces and batches | (properties only) | `BatchDeploy` | `MCBatchDeploy` | `BatchDeploy_proofs` |
| Deployment tasks, access manager, role audit | (properties only) | `Deployment` over `AccessControl`, `DeploySteps`, `ExpectedRoles`, with the plans `PrivateHubPlan`, `PrivacyNodePlan`, `PublicChainPlan`, `BusinessRolesPlan`, collected in `DeploymentPlans`; `PlanEffects` (what a plan adds up to) | `MCDeployment` | `Deployment_proofs` |
| Selector audits and migrations | (properties only) | `SelectorAudit` over `EventReplay` | `MCSelectorAudit` | `SelectorAudit_proofs` |
| Relayer authorization, relayer audit | (properties only) | `RelayerAuthorization` | `MCRelayerAuthorization` | `RelayerAuthorization_proofs` |

The models of the contracts meet at small interfaces, each abstracted in the
model of its neighbour. `AtomicTeleport` uses of messaging that a dispatched id
is fresh and runs at most once per leg, which `Messaging` establishes
(`FreshIds`, `AtMostOnce`). It uses a set `frozen` of PNs that the environment
changes; `TokenFreeze` says how PNs come to hold such a set. `Messaging` in its
turn lets the validators' data change freely (`Govern`). `Deployment` takes a
transaction that is mined as one step, in the order of its branch, which is what
`BatchDeploy` establishes (`ExecutedInOrder`, `OkMeansMined`).
`RelayerAuthorization` reads the holders of a role at one moment, which is what
`SelectorAudit` establishes of the replay (`ReplayIsLive`).

Conventions in all modules:

* A transaction is atomic. A call of a contract that reverts is not a step: it
  leaves no trace on the chain, and it can be tried again. The modules of the
  tasks keep the failures that their programs react to.
* The relayer has no state of its own. It may call a contract whenever the
  events entitle it to, and as often as it likes. Calls the contract ignores are
  stuttering steps, so a relayer crash and every retry are covered.
* Operators marked *mutation* are variants of a definition with one plausible
  bug. They are used by nothing in the models: `PROJECT.json` pairs each
  property with a mutation it detects.
* A variable commented *history* records what happened for the properties; no
  guard of the code reads it, only bounds do. A *bound* is a limit of the model,
  not of the code.

## 3. Atomic teleport

**Correspondence.** A user's `TeleportAtomic` burns at the source and dispatches
a message with four payloads. The source relayer's `StoreBatch` announces it on
the hub. The destination relayer runs `ReceiveTeleportAtomic` (mint to the token
contract, lock for the recipient) and reports `ExecuteAtomicMessageBatch`, while
the source relayer's poller may at any time give up with
`RevertAtomicMessageBatch`. The status board keeps the first verdict: an id in
the final status asked for is skipped, one id in the other final status reverts
the whole batch (`Finish`). The verdict's event row entitles the relayers to
`Unlock` on the destination, or to `RevertTeleportMint` at the source and
`RevertTeleportBurn` of the orphan mint. `bal`, `locked`, `executed` are the
PNs' state, `status` the hub's, `rows` its events, `frozen` the freezes that
`whenHubActive` and the message validation read.

**Abstracted.** Encrypted payloads; the poller's timeout (kept off-chain, hence
"at any time"); allowances of teleportAtomicFrom (a guard more); mint and burn
by the token's owner.

**Properties.** `NeverBothPaid`; `ValueConserved` (wallets and transfers in
flight add up to the initial supply); `LocksAreBacked` (each lock is exactly
what was received and not yet released, and is covered by the token contract's
balance); `ExecutedNeverReverted` (the verdict is final) and the weaker
`NoRevertAfterExecution` (no message announced as executed is announced as
reverted later), which the run with repeated stores refutes;
`ImplementsAtomicTransfer` (refinement: a transfer begins, then is delivered or
refunded, once); `EveryTeleportEnds` (liveness: a teleport is delivered or
refunded, and a mint that lost to a revert is burnt).

| Run | Instance | Shows |
|---|---|---|
| `atomic` | 2 PNs, 2 accounts, 2 ids, amounts 1 and 2, balances 2, recipients a user and the token contract, freezes; 92,884 states | all of the above |
| `atomic_store_retry` | `StoreRetry = TRUE` | finding 1 |

*Why these bounds are enough.* The races are about one message (two verdicts,
four legs) and about two messages that share something: a batch, a recipient's
lock, a sender's balance. Two ids and two accounts give each combination, and
amounts 1 and 2 with balance 2 give a refused teleport, and a lock that covers
one of two messages and not both. `MaxRows = 2` lets a second event row appear
if the code allows one. No symmetry is used.

*Fairness.* Weak fairness of each relayer call for each single id. The relayers
poll until a call succeeds, and a one-id batch is a legal call, so one bad id
does not block others. Users and the hub's operator owe nothing. The liveness
property has the hypothesis `FreezesEnd`: the code blocks a leg while the token
is frozen, and nothing ends a freeze but the operator.

## 4. Messaging

**Correspondence.** A message id is the hash of all of a message's fields, so
the model's id is the record itself, with the fields that can tell two messages
apart: sender module, source, destination, target, kind, nonce. `Send`,
`SendBatch`, `Broadcast` are the endpoint's entry points over `MessageSender`
and `BatchMessageSender`, each with its own nonces (`outboundNonce`). `Accepts`
are the participant and token validators, including that the hub's single sender
skips the token check. `Deliver` is receivePayload through `MessageReceiver`,
`ResourceManager` and the executor: nonce check, address resolution with an
optional deployment, executed mark, handler. A handler may reply to the source
in the same transaction (kind `reply`), which the reentrancy guard allows across
chains and forbids on one's own (`Runnable`). A batch runs its own-chain
messages at once and then logs them all, so that the relayer sees them again.
`RegisterResourceId` binds a resource to a contract whether or not it is bound
already (`ResourceManager.sol:130-133`), so a contract that registers replaces a
mirror that a delivery deployed; `bound` says of each chain and resource whether
a mirror, a registered contract or nothing stands there, and the history
`deployed` counts the mirrors.

Two things the model makes visible. Every message of the protocol is prepared
with `ignoresNonce` (`IgnoresNonce == TRUE`, `MessageSender.sol`), so the
inbound nonces of `MessageReceiver`, there "to prevent message replay and
reordering" (`MessageReceiver.sol:29`), do neither; the executor's mark alone
prevents replay, and order is not kept. And a batch's own id holds no nonce
(`MessageLib.sol:76`): only the ids of its messages are fresh.

**Abstracted.** Payload contents (a kind), access control on entry points, the
setters of the endpoint's configuration, gas.

**Properties.** `AtMostOnce`, `FreshIds`, `NothingSwallowed` (a message whose
resource has no contract stays runnable), `LocalLegsDone` (a logged batch has
run its own-chain part), `EachReplyOnce` (as many answers as questions run),
`OneMirror` (no chain deploys two mirrors of one resource, in whatever order
messages arrive and contracts register), `ImplementsBus` (refinement),
`EveryMessageRuns` (liveness).

| Run | Instance | Shows |
|---|---|---|
| `messaging_safety` | hub and 1 PN, 3 messages, batches of up to 2 requests, kinds plain and reply, contracts registered on both chains; 140,968 states | the safety properties and the refinement |
| `messaging_live` | hub and 2 PNs, 2 messages, batches of up to 2 requests, 1 change of status or freeze (`Govern`), contracts registered on one PN; 45,916 states | each dispatched message runs, also beside broadcasts to two recipients and refused sends |

*Why these bounds are enough.* `MaxBatchMessages` is 3, and the endpoint accepts
a batch only when its length stays below. So a batch holds two requests, which
may be identical. Three messages are such a batch
and one more through the other sender, or a question, its answer and another
message: the cases in which ids could collide or a delivery could repeat. The
code compares chains only with its own id, the hub and 0; a third chain matters
for broadcasts, which `messaging_live` has. `Origin` limits who starts an
exchange and `Registrar` on which chains contracts register; every chain
receives and replies.

*Fairness.* Weak fairness of the delivery of every dispatched message, for every
addressed chain: the relayer keeps trying, and a failed delivery leaves the
message runnable. `EveryMessageRuns` promises nothing for a message whose
resource can neither be found nor deployed, nor for a question that the
answering chain may not send an answer to.

`CHECK_DEADLOCK FALSE`: when the message counter reaches its bound and all is
delivered the model stops.

## 5. Token registration and freezes

**Correspondence.** On the hub `hubToken` is the status in TokenCore and
`frozenTokens[t][c]` how often chain `c` occurs in the token's list (a list, for
the first freeze copies repetitions). On a PN `hubStatus` is the hub layer of
`PNTokenCoreV1`, `before` its status before the freeze, `frozen` the copy in
`PNTokenFreezeManagerV1`. `SubmitToHub`, `AddToken`, `UpdateStatus`,
`ActivateToken` and `RejectToken` are the lifecycle; `FreezeToken`,
`UnfreezeToken`, `SendSnapshot` change or send the list; `RunFreezeMessage` is
the handler on the PN (`update` adds, `remove` takes out, `sync` replaces) with
`_syncHubLayerStatus` for each token it touches. `ReceiveTeleport` is the
arrival of a teleport, which deploys and registers an AUTHORIZED mirror on a PN
that does not know the token. `SkipMessages` is a relayer that joins late or
loses its queue.

**Order.** The messages of the hub carry no version and are sent with
`ignoresNonce` (section 4), so a PN runs them in any order: `pending` is a set
and `RunFreezeMessage` takes any member. When a PN runs an older message about a
pair of token and chain after a newer one, its copy of that pair is wrong, and
nothing in the code notices or repairs it before the next message about the
pair. The histories `newest` and `overtaken` tell these pairs apart: `overtaken`
has those about which the last message run was not the newest one run. All other
pairs are promised to be right, whatever was reordered around them. `ChainLists`
are the lists the operator passes.

**Abstracted.** Names, symbols, supply reports, the standard-specific parts of
registration; the PN layer of a token, which is AUTHORIZED throughout; the
public layer.

**Properties.** `CopyFollowsHub` (the latest message about a pair that is still
to run, or else the copy, agrees with the hub, unless a newer message about the
pair was run before an older one), `IssuerFrozenInactive`,
`FreezeKeepsStanding` (freezing hides, and thawing brings back, the latest
lifecycle decision), `EventuallySynchronized` (liveness, with the same
exception).

| Run | Instance | Shows |
|---|---|---|
| `freeze_safety` | 2 PNs, 1 token, 4 changes, 1 teleport, messages in any order; 617,073 states | the properties above |

*Why these bounds are enough.* `MaxChanges` counts operator decisions: four are
an approval, a freeze, a rejection or a snapshot, and a thaw: three messages
about one pair that can be run in all six orders, with a decision about the
token's life between them. Two PNs are issuer and mirror. A second token adds
only what the messages about it do, for handlers touch the tokens they name; the
theorems have any number of tokens.

*Fairness.* Weak fairness of the delivery of freeze messages per PN. Freezes are
always accepted by the handler, so a relayer that keeps polling does deliver
them. The liveness property is about PNs that missed nothing since their last
snapshot and have no overtaken pair. The bound on changes is what makes "the
operator stops" true here.

`CHECK_DEADLOCK FALSE`: with its bounded counters used up the model stops.

## 6. DvP swaps

**Correspondence.** `tree`, `nullified`, `locked` are the vaults' Merkle trees,
nullifiers and locks; `status`, `receipt`, `expiresAt` the swaps of `Dvp.sol`.
`Deposit`, `Transfer` and `Withdraw` are the vaults' operations, `InitiateSwap`,
`CompleteSwap`, `CancelSwap`, `ExpireSwap` those of Dvp, `Tick` the block's
time. `Checked` is checkReceiptConditions: it looks at roots and nullifiers,
never at locks. `Unlockable` is unlockCoin, which all three ends of a swap call
first. A swap is found by `DvpId`, which two different shared ids cannot share.
A late `completeSwap` expires the swap, which is the action `ExpireSwap`.

**Proof receipts are constants.** A wallet makes a receipt off-chain with a
zero-knowledge proof and can submit it when it likes. The constant `Receipt` is
the set of receipts the wallets can make: which coins they spend (`ins`), which
commitments they create (`out`, `change`, and `back` for a failed swap) and what
they want (`message`). `DvpAssumption` says commitments are salted and so never
coincide; `ProofAssumption` says what a proof proves, namely that coins are of
one vault and that value is conserved. `Opened` has the commitments whose value
and owner somebody can show, which a withdrawal must do (`InvalidOpening` in
`Erc721CoinVault`). This is what abstracts cryptography; dummy inputs and the
numbering of trees are abstracted too.

**Offers outside swaps.** The vaults take any valid receipt. A receipt made for
a swap (one with a message) can therefore be transferred or withdrawn by itself,
by whoever knows it, and `Transfer` and `Withdraw` have no guard against it. A
responder's receipt is unknown to others until it calls `completeSwap`; a late
call only ends the swap (`Dvp.sol:1047-1050`), and leaves the receipt in the
open with its coins unspent. A transfer of an offer gives its coins away for
nothing. A withdrawal leaves the change of its receipt unmade, and the coins
lost; that wallets must not make such a receipt is an obligation of the
documentation (`docs/enygma/DVP_Introduction.md:640`). The history `mixed` has
the receipts that were transferred.

**Properties.** `SpentOnce` (of all receipts that spend a coin one takes
effect), `ValueConserved` (what a vault owes is what was deposited less what
left), `LocksAreHeld` (a locked coin belongs to a pending swap),
`ImplementsAtomicSwap` (refinement: a pledged offer settles with the one it
matches, is refunded, or is withdrawn with its coins, and no transfer takes it;
the use of an open offer outside any swap is a step of its own in the abstract
specification, so that what is promised of swaps does not hide it), `SwapsEnd`
(liveness). That a pending swap can end unless its owner
used its coin elsewhere (`PendingIsBacked`) is proved, and is what `SwapsEnd`
rests on.

| Run | Instance | Shows |
|---|---|---|
| `dvp_safety` | 2 vaults, 3 deposits, 8 receipts, 2 swap ids, validity 0 or 1, time up to 2; 27,570 states | the properties above |

*Why these bounds are enough.* In the instance Alice's one payment coin is in an
offer to Bob and in one to Carol, can be withdrawn with a change and can be
mixed; Bob can give his NFT away or withdraw what he is paid; and each of the
four offers can be transferred, one of them withdrawn, behind the swap's back.
So each pair of uses of one coin occurs, in both vaults. Two swap ids let both
offers be pending together. Validity 0 expires a swap at its start and validity
1 gives a swap in time and one late.

*Fairness.* Weak fairness of `Tick` (blocks are made) and of `ExpireSwap` for
every swap: `expireSwap` is open to everyone, and a party that wants its coins
back calls it. Nothing is assumed of responders.

`CHECK_DEADLOCK FALSE`: when time has reached its bound and coins are spent the
model stops.

## 7. Nonces and transaction batches

**Correspondence.** A deployment is a set of batches with stages; the batches of
one stage run at once, as under `Promise.all`. The four kinds are the four ways
in which `batch-helpers.ts` sends: `proxies` and `contracts` are the two halves
of `deployBatch`, `config` is `executeBatchConfig`, `manual` is
`deployProxyWithoutNonce`. `next` is `NonceManager.nextNonce`, `nonce` what each
transaction was allocated, `chunk` how far each batch is, `call` where each
awaited call stands, `verdict` how a chunk's `Promise.all` was first rejected,
`tries` the retries, `stale` the calls of an earlier attempt that nobody awaits
any more. `pool` and `mined` are the node and the chain. `Allocate` and `Synced`
are the manager's methods, `Begin` to `EndBatch` the loop over chunks,
`RetryChunk` is `retryOnTransientError`, `OnExpired` the treatment of
`NONCE_EXPIRED`, `Restart` a second start of the task, which keeps nothing but
what the chain has.

**Faults.** A request or its answer is lost (`SendFails`), the wait for a receipt
breaks (`WaitFails`), an artifact cannot be read (`FactoryFails`), the process is
killed (`Crash`), a transaction reverts on the chain (`MayRevert`).

**Abstracted.** Gas, delays between attempts, addresses predicted from nonces,
what is deployed, printing and the manifest.

**Properties.** `UniqueNonces`; `OkMeansMined` (what is reported has consumed its
nonce, in a first run by the task's own transaction); `ExecutedInOrder` (the
chain executes each transaction of a run at most once and in the order of the
task); `RunsEnd` (liveness: no run waits for ever behind a gap).

| Run | Instance | Shows |
|---|---|---|
| `batch` | a proxy by hand, two contracts beside a configuration, a batch of proxies; chunks of 2, 1 retry, 2 faults, 2 runs; 138,827 states | the properties above |
| `batch_masked` | two configurations in one chunk, one fault: a lost answer or a broken wait | finding 2 |

*Why these bounds are enough.* A batch disturbs another through the counter and
the pool, for which two that run at once and one after them suffice. A retry
matters while calls of the first attempt are in flight, which one retry and two
calls give; two faults make the second attempt fail too, or make the run die
during a retry. `CHECK_DEADLOCK FALSE`: a deployment ends.

*Fairness.* `Mine` (blocks are made), each call's `Send` and `Receipt` (promises
settle when the node answers), and the loop of each batch. Faults, stale calls
and restarts are never owed.

## 8. Deployment tasks and role audits

**Correspondence.** The three tasks send their transactions in an order that
does not depend on data, so each is a plan: a sequence of phases, each with
branches that run in parallel, each branch a sequence of steps.
`PrivateHubPlan`, `PrivacyNodePlan` and `PublicChainPlan` are the plans, in the
order of the source, one record per transaction (`DeploySteps`): a contract and
the addresses its constructor or initializer gets, a setter and the calls it
leads to, and the operations on the access manager, with the roles of
`expected-roles` as the audit reads them (`ExpectedRoles`). The plans of the hub
and of the PN end with the activation of their business roles
(`BusinessRolesPlan`), which `docker/dev/deploy_contracts.sh:476` and `:713` run
right behind the deployment. `Deployment` interprets a plan. A step succeeds
when the contract lets it through: the addresses exist, the roles are
registered, the caller may call (`CanCall`), a guard such as `onlyEndpoint`
knows the caller. `Revert` ends the task, `Crash` ends it anywhere, `Restart`
begins anew when it reads an empty manifest and otherwise gives up (`Refuse`). A
read of the manifest that fails counts as an empty file
(`manifest-manager.ts:386-388`), so a run may also begin over the records of
another (`RestartUnread`); such runs are noted in `blind`. `manifest` has, per
file, the runs of which it holds a contract's proxy.

Beside its phases a plan names the calls that its contracts make of each other
*at run time*, taken from the contracts' code: these are not steps of the task,
and a forgotten grant or setter shows only there.

`PlanEffects` says what a set of steps leaves in whatever order it is executed,
and when a plan can be seen to go through without executing it: each of its steps
`Fits` what surely and what possibly precedes it. `DeploymentPlans` collects the
tasks' plans, and `PlansFit` says that they meet these conditions (section 13).

**Abstracted.** Functions that a task maps together and no call tells apart are
one function; arguments that are not addresses; the printed configuration.

**Properties.** `FailsOnlyWhenStopped` (in every order of the branches a plan goes
through); `RuntimeReady` (after it every call at run time is wired, mapped and
granted); `MessagesReadyWhenNamed` (what a message passes through is complete
before the chain publishes a name); `FreshAuditsClean` (the role audit has no
finding on a fresh hub or public chain); `OneRecordedRun` (a manifest file never
holds the contracts of two runs that could read it).

| Run | Instance | Shows |
|---|---|---|
| `deploy` | the whole plans of the hub, of a PN with and without a hub, of the public chain (with a participant's name); one fault (a crash or an unreadable manifest), two runs; 32,433 states | the properties above |

*Why these bounds are enough.* The plans are not reduced. One crash stops a task
at every step of every order, and two runs are what a manifest can mix. With one
fault, a file that cannot be read is met by a run that follows one that went to
its end. Only the public chain is run with `PARTICIPANT_NAME`; section 12 says
what happens to the others. `CHECK_DEADLOCK FALSE`: a task ends.

## 9. Selector audits and migrations

**Correspondence.** `abi` and `script` are the sources that developers change
(`EditAbi`, `EditScript`), `log` and `mapped` the access manager's events and the
mappings they describe. An audit `Begin`s with the head block and a start block
(`Starts`: flag, variable, or the binary search `DeployBlock`), `Fetch`es the two
event streams window by window and in any order, and `Report`s: it replays what
it fetched (`EventReplay`), resolves each contract to an artifact, by name or by
its set of selectors (`Resolved`, `Fingerprint`), and calls stale what that
artifact lacks. A migration begins with the lint of the deployment scripts
(`LintMissing`) and writes the stale mappings to a file, which the operator runs,
stops and runs again.

**Abstracted.** The role of a mapping; selector hashes; warnings that decide
nothing; the text of the file. One transaction a block: a position in `log` is
then also an event's block, so windows cut the log anywhere.

**Properties.** `ReplayIsLive` (the scan starts no later than the manager, and the
report is about exactly what was mapped when the head was read, although both
streams are fetched while events are added); `MigrationConverges` (a migration
run to its end, with nothing else changed since its audit began, leaves nothing
stale). Which function is stale is another matter: finding 3.

| Run | Instance | Shows |
|---|---|---|
| `selector_audit` | a contract and its interface, 2 functions, a listed and an unlisted contract, 2 additions, 3 removals, 2 edits, windows of 2 blocks, the manager created at block 2; 2,043,286 states | both properties |
| `selector_stale` | the same | finding 3 |

*Why these bounds are enough.* Two additions and three removals give a mapping
that is removed and added again, and a migration file of two removals that is
stopped between them and run from the start; with windows of two blocks the
streams are cut between any two events. Two edits break a mapping and a
reference to it. `CHECK_DEADLOCK FALSE`: with the bounds used up the model stops.

## 10. Relayer authorization

**Correspondence.** `Stages` are what `add-authorized-relayers` (for the node, or
for its private chain only) and the hub's task do in order: fund the keys of the
public chain, grant `RELAYER` on each chain. `Fetch` reads CTS's lists
(the node's task reads the private list in `FetchFirst`, before the public ones),
`ReadNonce` is the one `getTransactionCount` from which a stage numbers its
transactions, which are then all in `flying`; `Arrive` is the node's answer,
`SendsSettled` is `Promise.allSettled` (the hub's task has `Promise.all`), `Wait`
the receipts, the selection of what collided and the next attempt, three at most.
`AuditBegin` and `AuditEnd` are the relayer part of `check-roles`: lists first,
holders later. No wait for a receipt has a time
limit (`sendWithAllocatedNonces.ts:105`, `add-authorized-relayers-pnh.ts:148`).
That for a transfer ends also when another transaction has taken its nonce; that
for a grant does not (`WaitEnds`), for the library knows no block to look for the
replacement from. The operator rotates keys, revokes, and sends other transactions
from the same account (`ForeignSend`).

Nodes differ, and the code does not say which it meets, so both kinds are run:
`Counts` is whether the pending nonce counts what is in the pool, `Replaces`
whether a second transaction of a nonce replaces the first or is refused.

**Abstracted.** Amounts, gas prices, the addresses of the access managers, the
revocations of the audit's suggestions. The audit's replay is atomic (section 9).

**Composition.** The keys are given `RELAYER` on chains that the deployment tasks
have set up. `MCRelayerAuthorization` therefore assumes of these tasks' plans, and
TLC evaluates, that they fit and that they leave the role registered and the
account of the tasks able to grant it (`RelayersFit`).

**Properties.** `OncePerRun` (no run pays or grants a key twice);
`StagesBehindHold` (what a run has gone past did happen); `FundedBeforeRelaying`
(a key with the role on the public chain has been funded); `MissingIsRevoked`
(an audit after a finished run misses only what was revoked); `RunsEnd`
(liveness: a run ends, or waits for ever for a grant that a foreign transaction
has `Overtaken`).

| Run | Instance | Shows |
|---|---|---|
| `relayers` | three tasks, four kinds of nodes, lists of one and two keys, one spare key, two runs, one upset; 181,685 states | the properties above |

*Why these bounds are enough.* Two keys in a list give a stage of which one
transaction collides and the other does not. One upset is one foreign
transaction, lost answer, crash, rotation or revocation at any point; two runs
show what the first leaves to the second.

*Fairness.* The program's own steps, the arrival of requests, and mining.

## 11. Assumptions

| Assumption | Where | Why |
|---|---|---|
| `StoreRetry = FALSE` | `AtomicTeleport` runs and theorems | the relayer does not store a message again after its verdict; the contract would accept it (finding 1) |
| `FreezesEnd` | liveness of `AtomicTeleport` | only the operator ends a freeze |
| `NoChainTwice` | synchronisation in `TokenFreeze` | the operator passes a chain once (section 12, `UnfreezeRemoves`) |
| `DvpAssumption`, `ProofAssumption` | `DvpSwap` | soundness of proofs, freshness of commitments |
| a contract that registers a resource is not the zero address | `Messaging` | the callers pass contracts they have just deployed or checked (`EnygmaTokenManagerV1.sol:251`, `TokenCoreV1.sol:655`, `:671`, `PNTokenCoreV1.sol:197`, `:233`) |
| hash injectivity | `Messaging` | ids are keccak hashes of the fields |
| relayers deliver what was dispatched, nothing else | contracts | the entry points it calls are restricted to its role |
| the account of a deployment sends nothing else | `BatchDeploy` | the tasks are started by hand, on an account of their own |
| a manifest is the set of runs it holds a proxy of | `Deployment` | `recordImplementation` awaits between its load and its save (`manifest-manager.ts:228-257`) and may write back a file without the records another branch made meanwhile; it writes back what it loaded, so it cannot empty the file, which is all that a later run looks at. A file with broken contents is one that cannot be read |
| in ethers v6 a transaction sent by a contract's method has no start block, and its `wait()` without a limit does not notice a replacement | `RelayerAuthorization` | behaviour of the library, which is not in the repository |
| `EnvIsEarly` | theorems about selector audits | a `*_STARTING_BLOCK` variable set by hand to a block behind the manager's hides the first mappings from the audit; nothing in the code can notice it |
| `KeysDiffer` | theorem `NoJobIsMinedTwice` | CTS advertises a key once; the tasks do not remove repetitions, and a key that stands twice in a list is paid twice |
| `ManualAssumption` | `BatchDeploy` | `deployProxyWithoutNonce` deploys one proxy and every caller awaits it with nothing else running (`privacy-node-batches.ts:69-90`, `:126`, `:231`, `private-hub-batches.ts:15-17`) |
| `PlansAssumption` | `Deployment` | a plan is a sequence of at least one phase, each branch of which is a sequence of steps; TLC evaluates it on the tasks' plans |
| the hypotheses about plans (`StepsFit`, `CallsFit`, `NamesFit`, `AuditFits`, `ResourcesFit`) | theorems about `Deployment` | facts of the three tasks: TLC evaluates them on the whole plans (`PlansFit`) in the run `relayers` |
| finite sets of chains, accounts, messages and coins | sums in `AtomicTeleport` and `DvpSwap` | addresses and ids have a fixed width |
| one transaction a block | `SelectorAudit` | finer windows than the code has |

## 12. Findings

Each of these is the counterexample of a run; `PROJECT.json` quotes the lines.

1. `atomic_store_retry`. `storeAtomicMessageBatch` sets each id to Pending
   whatever its status. When a store is repeated after a message was executed, the
   source's poller can revert it, and the hub announces the revert of a message
   it had announced as executed, although "an executed message can NEVER be
   reverted".
2. `batch_masked`. A chunk of configurations is sent again when the answer or
   the wait of one of its calls is lost, and the node then answers
   `NONCE_EXPIRED` for a configuration that was mined and reverted: it is
   reported as successful, although "the deployment cannot continue with failed
   configuration transactions".
3. `selector_stale`. The artifact of a listed contract is used only when it has
   *all* the selectors mapped on the contract. When one function disappears, all
   mappings of the contract are reported as stale, and `generate-migration`
   writes the removal of those that are in use.

### Known divergences

These formulas are in the modules, say what a comment or a neighbouring part of
the code leads one to expect, and are refuted by TLC. They are kept out of the
list of runs; to see a counterexample, put the formula in the named configuration.

| Formula | Configuration | What happens |
|---|---|---|
| `CopyFollowsHub` without `x \in overtaken[p]` | `TokenFreezeSafety.cfg` | freeze and unfreeze are messages without a version; a PN that runs them in the other order keeps the token frozen, until the hub sends the next message about it |
| `UnfreezeRemoves` (property) | `TokenFreezeSafety.cfg` with `ChainLists <- RepeatedLists` | the first freeze of a token keeps a repeated chain id, the unfreeze removes one occurrence |
| `FrozenInactive` | `TokenFreezeSafety.cfg` | `registerHubToken` records a mirror as AUTHORIZED without a look at the copy of the frozen list, unlike `activateToken` |
| `ExpiryIsPossible` | `DvpSwapSafety.cfg` | `withdraw` ignores locks and `Merkle.lock` accepts a locked coin; a swap whose coin was withdrawn, or spent by the owner's other swap, can be neither completed, cancelled nor expired. It holds no value then, but stays Pending for ever |
| `ImplementsAtomicSwap` without `Withdraw` or `Mix` in `AtomicSwap` | `DvpSwapSafety.cfg` | the vaults accept an offer's receipt outside its swap: half an exchange is executed with a receipt that a late `completeSwap` made public, or a pledged coin is withdrawn |
| `EveryTeleportEnds` without the last conjunct of `LosesToRevert` | `AtomicTeleport.cfg` | `receiveTeleportAtomic` takes no lock when the recipient is the token contract, while `revertTeleportBurn` always unlocks: the sender is refunded and the mint on the destination stays |
| `PrivacyNodeAuditClean` | `Deployment.cfg` with `MaxFaults = 0`, `MaxRuns = 1` | the role audit of a fresh PN has findings: the list names `TokenRegistryReplica`, which no deployment registers, and four contracts that hold a role are not listed |
| `OneRecordedRun` | `Deployment.cfg` with `Named = {"privacy-node"}` or the hub's | these tasks record in the file with the participant's suffix and check the one without, so a second run is not refused |
| `RunsEnd` without `Overtaken` | `RelayerAuthorization.cfg` | a grant whose nonce another transaction of the account has taken is waited for without a limit, and the task never ends |
| `ResendsHigher` (property) | `RelayerAuthorization.cfg` | on a node that does not count pending transactions a job that collided is sent again under the nonce it had |

Seen while modelling, without a formula: the upgrade check of a participant's
deployment looks at the manifest without its suffix; the start block that a PN
publishes is read after the first mappings were made; the tasks that remove and
list relayers look up `RelayAuthorizationRegistry`, which no deployment
registers; a run of `add-authorized-relayers` that is repeated pays the same keys
again.

## 13. Proofs

The proof modules hold for every value of the constants: any number of chains,
accounts, messages, tokens, coins, batches or events. Each follows one scheme:
type correctness, a lemma per action, an inductive invariant, then the property
or the refinement.

| Theorem | Statement | Needs |
|---|---|---|
| `Safety` | `SafetyInv` always (atomic teleport) | `~StoreRetry` |
| `NoDoubleSpend` | `NeverBothPaid` | `~StoreRetry` |
| `VerdictIsFinal` | `ExecutedNeverReverted` | `~StoreRetry` |
| `LocksBacked`, `LegsAreNeverRefused` | `LocksAreBacked`; a leg that is owed finds what it needs | `~StoreRetry` |
| `ValueIsConserved` | `ValueConserved` | `~StoreRetry` |
| `TeleportImplementsTransfer` | `ImplementsAtomicTransfer` | `~StoreRetry` |
| `Invariance` | `IInv` always (messaging) | |
| `DeliveredAtMostOnce`, `IdsAreFresh` | `AtMostOnce`; `FreshIds` | |
| `BatchesAreWhole`, `NoMessageIsSwallowed` | `LocalLegsDone`; `NothingSwallowed` | |
| `RepliesAreSentOnce` | `EachReplyOnce` | |
| `MirrorsAreDeployedOnce` | `OneMirror` | |
| `MessagingImplementsBus` | `ImplementsBus` | |
| `StatusInvariance` | `StatusInv` always (freezes) | |
| `FrozenIssuerTokensAreInactive`, `FreezesLoseNoDecision` | `IssuerFrozenInactive`; `FreezeKeepsStanding` | |
| `CopiesFollowTheHub` | `CopyFollowsHub` | `NoChainTwice` |
| `Coins`, `TypeCorrect`, `CoinsAreSpentOnce` | `CoinInv`; `TypeOK`; `SpentOnce` (DvP) | |
| `Locks`, `EveryLockIsHeld`, `PendingSwapsAreBacked` | `LockInv`; `LocksAreHeld`; `PendingIsBacked` | |
| `VaultsConserveValue` | `ValueConserved` (DvP) | |
| `Pledges` | `PledgeInv`: the coins of a pending swap are locked, or were spent behind its back | |
| `DvpImplementsExchange` | `ImplementsAtomicSwap` | |
| `NoncesStayBelow`, `NoncesAreUnique` | `NonceInv` always; `UniqueNonces` (batches) | |
| `LedgerFollowsTheTask` | `OrderInv` always (batches) | |
| `ReportsAreTrue`, `RunsAreOrdered` | `OkMeansMined`; `ExecutedInOrder` | |
| `ScansFollowTheLog` | `IInv` always (selector audits) | |
| `SearchFindsManager` | the search returns `ManagerBlock`, for every height | |
| `ScansCoverTheLog`, `AuditsSeeOneMoment` | `StartCoversLog`; `ReplayIsLive` | `EnvIsEarly` |
| `MigrationsConverge` | `MigrationConverges` | `EnvIsEarly` |
| `ManifestsHoldOneRun` | `OneRecordedRun` (deployment) | `ChecksWhatItRecords` |
| `PlansAddUp` | `SumInv` always (deployment) | |
| `PlansNeverFail` | `FailsOnlyWhenStopped` | `StepsFit` of every plan |
| `DeploymentsWork` | `RuntimeReady` | `CallsFit` of every plan |
| `MessagesComeBeforeNames` | `MessagesReadyWhenNamed` | `NamesFit` of every plan |
| `FreshAuditsAreClean` | `FreshAuditsClean` | `AuditFits` of the audited plans |
| `NothingDangles` | `TypeOK` (deployment) | `ResourcesFit` of every plan |
| `Invariant` | `IInv` always (relayer authorization) | |
| `PassedOverNone`, `HoldersAreFunded`, `AuditMissesRevoked` | `StagesBehindHold`; `FundedBeforeRelaying`; `MissingIsRevoked` | |
| `NoJobIsMinedTwice` | `OncePerRun` | `KeysDiffer` |

The constants' own assumptions (section 11) are used everywhere; `BatchDeploy`'s
theorems rest on `ManualAssumption`.

**Sums.** A sum over a set would be a recursion, about which nothing can be
proved here. `Totals` therefore counts units: a holder of `n` is `n` pairs, and a
sum is a cardinality. What the library says of unions and differences of finite
sets then says what a sum becomes when one summand changes (`TotalChange`,
`ValueOfSplit`, `WorthUnion`), without induction, and TLC evaluates the same
definition.

**Atomic teleport.** `NeverBothPaid` is not inductive: nothing in it connects
the legs on two chains. `SafetyInv` connects them through the hub. The status
*is* the one row emitted (`StatusFollowsRows`, `OneStatusRow`), a leg runs only
under its verdict (`VerdictBeforeLeg`), and nothing happens to an id that was
not stored (`KnownIds`). Two opposite legs would need two rows. The lemma
`FinishKeepsVerdicts` handles both hub calls. The refinement needs also that a
store never meets a finished id, which is where `~StoreRetry` is used.

`LocksAreBacked` is not inductive either: an unlock of a message that was never
received would take another message's lock, and a lock of the token contract for
itself would be counted as its own backing. `LockDiscipline` excludes both. Then
a receive adds one message to those an account holds, an unlock or a burn takes
one away, and both sums change by its value (`LockTaken`, `LockReleased`).
`LegsAreNeverRefused` follows: a held message's value is part of the sum.
`ValueConserved` moves a value between the three terms. The burn of the sender
puts it in flight; the unlock or the refund takes it out; a receipt by the token
contract itself ends it at once. Freezes and verdicts move nothing.

**Messaging.** Freshness is `NoncesUsed`: every issued message has a nonce at
most its sender's counter for that source and destination, and counters only
grow; messages of one batch differ by how many requests before them share a
destination (`CountFacts`). At-most-once is `Marked`: what was applied is what
is marked executed. `Logged` ties dispatched messages to issued ones. For
`OneMirror` a count is tied to a binding: a chain that has deployed a mirror of a
resource has something bound to it ever since, a registration replaces what is
bound and never removes it, and a delivery deploys only where nothing is bound.
`EachReplyOnce` compares two cardinalities, so its invariant is a bijection: the
answers issued by a chain are the positions of acks, the questions the pairs of a
chain and a message it has executed, and every delivery that runs a question
appends exactly one ack while all other steps add to neither side. The
refinement maps a delivery to one `Run` of the bus, whose new messages are the
suffix of `applied` (`SuffixOfConcat`, `RunStep`).

**Freezes.** `StatusInv` adds to the two status properties that a mirror, or a
teleport on its way, exists only when the issuer has the token bound, so that no
teleport deploys a mirror on the issuer itself. `CopyInv` adds to
`CopyFollowsHub` that the hub lists no chain twice and that the messages to a PN
have different numbers, none above the last one sent, and neither is what
`newest` holds: a new message is then the latest one about all the pairs it
mentions (`NewMessage`). No order is assumed of the messages that run
(`CopyRun`). One that is newer than all that were run about a pair makes the copy
say what it says, so either it is the hub's last word or a pending one is newer
still; one that is not puts the pair among the `overtaken`, until a newer message
about it runs.

**DvP.** Each step *executes* a set of receipts: none, one, or the two of a
settlement. Their coins are unspent, disjoint and are spent by the step
(`StepExecutes`, one lemma per operation). `EffectsArePaid` (an effective
receipt's coins are spent) and `EndsOnce` (a swap's out and back exclude each
other) then make `SpentOnce` inductive. `LockInv` adds the locks: a swap's coins
leave `locked` only at its end or at that of a swap that shares a coin with it,
which is what `Disturbed` excuses.

The refinement reads the abstract outcome of an offer from the coins its receipt
left in the tree, and from the histories. `MixedShow` in `CoinInv` says that the
output of a transferred receipt stands in the tree. `PledgesHeld` says that the
coins of a pending swap are locked or already spent. A transfer needs coins that
are neither, so it takes no pledged receipt (`FreeIsOpen`): what it takes was
open, whatever became known of it. A withdrawal looks at no lock, and may take a
pledged one. A step changes the outcome of the receipts it executes and of no
other (`OutcomesStay`, `OneBecomes`), and only `CompleteSwap` executes two.

For `ValueConserved` each operation replaces coins of a vault by others of the
same worth: the receipts' proofs say so, and the coins they create are new
(`Replace`, `ConservedBy`). A deposit adds to both sides, a withdrawal moves the
coin's worth to what was paid out.

**Batches.** `UniqueNonces` says nothing of the next allocation. `NonceInv` adds
that every nonce allocated in this run lies below `next`: an allocation gives the
numbers from `next` on, in a row, to transactions of one batch, and a sync only
raises the counter, so new nonces differ from each other and from all that are
held. A restart forgets all of them before it starts from the node's count. The
node's answers play no part, which is why the theorem holds under every fault.

What the chain does with these nonces is `OrderInv`. The *ledger* of the account
is what was mined and then the pool, by nonce. A transaction of the present run
stands in it at the nonce it was allocated (`Placed`), nonces follow the order of
the batch (`NonceOrder`), a stage begins only when those before it are reported
(`StagesWait`), and what is reported has its nonce behind the chain's
(`OkBehind`). So whatever is sent later, for the first time or again by an old
call, lands at its own nonce or is refused, and never before a transaction of an
earlier stage. The hard case is `NONCE_EXPIRED`, which is reported as success: in
the first run all numbers below the counter are held by the run's own
transactions (`AllHeld`), so the nonce was consumed by that very transaction. In
a later run a transaction of the run before may have it, and the invariant says
no more than that it is consumed. A proxy by hand takes its nonce from the
provider; it is the only transaction of its stage, which is what
`ManualAssumption` is needed for.

**Selector audits.** `IInv` says what a scan has got: for each kind of event,
exactly the positions of the log between the start and the stream's cursor, cut at
`latest`, however the other stream stands; and that the mappings are the replay of
the log as it was when `latest` was read. When both cursors are past `latest` the
fetched events are that log, whatever has been emitted since, provided the scan
did not start behind the manager (`StartCoversLog`).

Of the three ways to a start block two need an argument. The search is a recursive
function of the window that is left. Its value is the manager's block when that
lies inside the window, and the block next to the window's nearer end otherwise
(`Found`): this function satisfies the recursion (`SearchExists`), and it is the
only one that does, since a smallest window on which another one differs would
have a smaller one (`SearchUnique`, from the well-ordering of the naturals). A
block in a variable is taken as it is, hence `EnvIsEarly`.

`ConvergeInv` adds what a migration keeps as long as nothing else is changed: what
is mapped only shrinks; what is stale, the mappings of the contracts that no
artifact fits (`StaleIsHomeless`), is the file; and those of it that are still
mapped are still to be done. A contract that an artifact fits is fitted by it
when it has fewer mappings (`FewerHomeless`), so removals make nothing else stale.

**Deployment.** `RecordInv`: what is recorded is in the file that the task
checks, and all of it that is not of a `blind` run is of one run, the present one
if that is not blind itself (`OneFirst`); for a run that could read its file
begins only when that is empty. `ChecksWhatItRecords`
says that a task run with a participant's name checks the file with that name. Of
the three tasks the one of the public chain does; for the other two it holds only
when they run without a name (section 12, known divergences).

What a plan achieves depends on the plan, and TLC finds it by executing the plans
of the three tasks. What does not depend on the plan is that the interleaving of
its branches plays no part. `SumInv` says so: what is on the chain is what the
steps executed so far leave, taken as a set. Contracts, names, roles, members,
mappings and scoped grants only grow, so they are unions over the set; a slot and
a role's administrator are overwritten, so of these the invariant says that they
are one of the values that were stored. Each operation adds its step to the sum
(`TallyDeploy`, `TallyPlain`, `TallyAdminister`), and the cursor `phase`, `at`
adds exactly one place of the plan to those that are passed (`PassPlace`).

At each step the set executed lies between what surely precedes it, the earlier
phases and its own branch, and what possibly does, the branches beside it
included (`NextPlace`). Whether a step goes through, a call at run time works or
the audit is clean can therefore be read off the plan: what is needed is left by
the sure part, and every value that may stand in a slot is one the call can use
(`Fits`, `Finds`). `FitSucceeds` and `FindsReady` are the two lemmas that say
this is enough, and the four theorems apply them at a step, at the end, and
where a name is published. `PlansFit` asserts the conditions for the tasks'
plans, and TLC evaluates it. So a change of a plan is judged by its text, in
seconds; and plans that the run could not afford, with more branches side by
side or with more reruns than two, are covered.

`TypeOK` says beside types that no address on the chain dangles. `GroundInv` has
the reason: what a step refers to existed when it was executed, and what exists is
never lost. A resource is registered at the contract that the endpoint has for its
resource manager, which the model calls by its name; hence `ResourcesFit`.

**Relayer authorization.** None of the three properties is inductive: they say
nothing of transactions on their way. `IInv` follows a key through a stage.
Either its job is still among the `outstanding`, or its transaction has been
mined in this run (`WorkInv`); an answer at the wait is an acceptance or a
collision (`AnswerInv`); so when nothing has collided and all that was accepted
is mined under its own nonce, the stage is over for every key of the list
(`AcceptedMined`, `StageEndsKeeps`), and what collided is what is left otherwise
(`ResendKeeps`). `FetchInv` has the lists that later stages use. `FundInv` says
of a grant on the public chain that is mined, in the pool or in flight that its
key has been funded: the stage that funds the same list lies behind
(`FundedFirst`). `HoldInv` says that a mined grant is held or revoked, and
`AuditInv` carries that to what the audit expects (`AuditedFacts`). That the
node's next nonce is a number is the pigeonhole principle on its pool
(`FirstFree`).

`OncePerRun` needs where a transaction *is*. `PlaceInv` says that one of this run
is at one nonce of the account's ledger (mined or in the pool) or in one request
in flight, and never at two of these places; `SentInv` that nothing is known of a
job before its stage, or while it still waits to be sent. A collision moves a job
from "sent" back to "waiting" only when the node has refused it, so it is in no
place at all; a replacement of a pooled transaction takes the replaced one out of
the pool, and it is not sent again. `ListInv` covers rotations between the reads
of a run: a key in a list that was read is advertised still or has been retired
for good, so it cannot come back in a list that the run reads later.

**Only model-checked.** Liveness: `EveryTeleportEnds`, `EveryMessageRuns`,
`EventuallySynchronized`, `SwapsEnd` and the two `RunsEnd` rest on fairness, and
with it on `ENABLED`, which the prover does not handle. That the plans of the
repository meet the conditions of the theorems above is a fact about fixed data,
which TLC evaluates.

## 14. Not modelled

* *Planned*: the components of section 15.
* *Parts of modelled components*: owner mint and burn, allowances, access
control of entry points of the contracts in sections 3 to 6, supply reports,
tree numbering of the vaults, the group administration of `Dvp.sol`; delays,
schedules and pauses of the access manager, which no deployment uses; the
guardians and labels that the activation of business roles sets, and its being
run again by itself after it stopped half way; the comparison of storage layouts
in `validation-helpers.ts`; reports and warnings of the audits.
* *Cryptography*: the generated Groth16 verifiers (17 thousand lines) and curve
  arithmetic. A proof is modelled by what it proves.
* *Auctions and brokers*: `Dvp.sol` marks them as not in the product.
* *Registers without interleavings*: PN communicator, user governance, contract
  factory, resource registry, proofs, deployment registry.
* *Legacy contracts*: token locker, message dispatcher, signature storage.
* *The relayer* is the environment of the models; the *other hardhat tasks*
  (tokens, teleports, participants, benchmarks) send one transaction or read a
  state.

## 15. Plan

In this order:

1. `TokenLayers`: the three layers of a token with their saved statuses; extends
   `TokenFreeze`. Theorem: a thaw restores each layer's last decision, or a
   finding.
2. `EnygmaLedger`: balances per block and their finalisation, nullifiers,
   pending mints and burns. Abstract: a ledger of final balances. Theorems:
   conservation, no nullifier used twice (also one of an earlier settlement
   window).
3. `EnygmaTransfer`: reference ids of the PN handler, forward against revert,
   composed over the promise of `MessageBus`; recipients of a batch share one
   reference id, and `receiveWithdrawFromDvp` mints without a look at the id's
   status.
4. `PublicBridge`: locks, mints and reverts with the public chain, composed with
   the lock pool of `AtomicTeleport`. Invariant: supply on the public chain is
   backed.
5. `MerkleTree`: insertLeaves as recursive functions against a reference tree,
   the change of tree at its last place included.
6. `DvpHandler`: the PN side of deposits and withdrawals, composed with
   `DvpSwap`. Invariant: a token is usable on one side.
7. `ParticipantSync`, `TemplateSync`: replicas against the hub with reordering;
   `DvpSettlement` (an allowance that is gone at execution, the instant of
   expiry); `AccessSchedule` (a schedule cancelled or expired while it is used),
   over `AccessControl`.
8. ERC-721 and ERC-1155: `AtomicTeleport` with sets of ids for amounts.

Every safety invariant and action property that a passing run checks is now a
theorem. Still worth proving of the present modules: that the audit of roles
reports exactly the difference between two sets, for any history of grants, and
that a plan whose steps are given more to precede them still fits, so that a
branch may be moved behind another one without a new check.

## 16. Running

```
tlc -workers 2 -config AtomicTeleport.cfg MCAtomicTeleport.tla
tlapm AtomicTeleport_proofs.tla
```

The runs, with module and configuration, are listed in `PROJECT.json`. Each
takes less than five minutes on two cores.
