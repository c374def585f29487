# SOV: specifications, model checking and proofs

TLA+ specifications of the SOV node: a proof-of-work chain in Rust with
heaviest-work fork choice, incremental reorganisation over undo logs,
miner-signalled upgrades, a transaction pool, and a ledger with assets, escrows,
vaults, shielded pools and multisignature custody. Paths below are relative to
`src/chain/crates/` unless they start with `src/`.

    tlc -workers 2 -config MCExecution.cfg MCExecution     # one run
    tlapm ProducerProofs.tla                               # one module of proofs

`PROJECT.json` lists every component, run, mutant, theorem and hazard, and maps
each definition to the lines it translates.

## 1. The system

### How the parts fit together

One `Node` behind one mutex owns the chain and the pool. Three threads take the
lock and commit blocks: the production thread (template, grind off the lock,
commit), the peer-to-peer verifier (batches of downloaded blocks) and the RPC
server (`submitBlock`). Each appends what it committed to one block log. An import
validates the header, then extends the active chain, switches to a heavier branch,
or executes and stores a lighter one. Executing a block applies its coinbase and
transactions to the live ledger under an undo journal, checks the resulting roots
and the ledger's invariants, and rolls back if anything is wrong. After an import
the node removes what was mined from the pool and gives back what a reorganisation
reverted. At start the chain is rebuilt from a snapshot and the log.

### Inventory

| Part | State | Operations | What is hard about it |
|---|---|---|---|
| Block store, fork choice (`chain`) | index, active blocks, head, ledger, signal log, undo ring, receipt and transaction indexes, cached difficulty | import: extend, reorganise, validate a side branch, replay | failure in the middle of a branch, rollback from a bounded ring, incremental views |
| Block log, snapshot, boot (`rpc/daemon.rs`, `p2p.rs`) | file, unsynced flag, durability latch, snapshot | append, batched fsync, snapshot, boot in tiers | three writers, kills, power loss, torn and failed writes |
| Checkpoints (`chain`) | pinned heights, proven linkage, local anchor | install, stream, relink, adopt | a pin that arrives after the branch it forbids; a proof assembled from several peers |
| Governance (`governance`, `chain`) | signal log | record, remove, state at a height, forecast | window boundaries; a log reconstructed for another branch |
| Mempool and node (`mempool`, `node`) | ready and queued regions, weights, pool file | submit, replace, auction, promote, prune, reject, select, restore | limits, nonce runs, reorganisations, restart |
| Execution and ledger (`runtime`, `state`, `verify`) | accounts, assets, policies, escrows, names, vaults, pools, proposals, counters, journal | some thirty transaction kinds, coinbase, undo | signer copy written back, partial failure, journal completeness |
| Intents, compliance, shielded pools | inside the ledger | settle, cancel, permit, spend | expiry, spend windows, anchors, turnstile |
| Emission and difficulty (`mining`, `pow`) | none | reward, retarget, seal | budget boundary; 256-bit arithmetic |
| Production loop (`rpc/daemon.rs`) | template, snapshot and anchor heights | anchor, gate, template, grind, commit | every input is stale by the time it is used: status, pins, head |
| Sync worker (`rpc/p2p.rs`) | links, per-peer book, request in flight, linkage requests, verify jobs | drain, collect, request, verify, report, strike, disconnect | timeouts, late answers, lost links, a verifier that dies |
| Network, RPC, wallets, VM, tools | connections, jobs, shares | I/O and codecs | mostly outside the model |

### What each part must guarantee

* **Block store**: the head depends only on the set of accepted blocks; ledger and
  signals are those of the active chain at every step; only blocks that executed on
  their own branch are stored; a refusal changes nothing; no transaction is lost by a
  reorganisation; every import ends.
* **Block log**: what was reported durable is read back; a boot ends at the best
  chain it can read, in that chain's state.
* **Governance**: the rules a block is judged by are those its ancestors voted in,
  on every code path; an announced height is the height.
* **Pool**: indexes and weights exact, limits kept, nothing dead or unaffordable
  between calls, and what `select` offers the miner is minable in its order.
* **Execution**: value only moves; counters equal what they count; a failed
  transaction costs only its fee; undo restores the exact ledger; an account under
  a policy spends only with its threshold.
* **Checkpoints and production**: a pin holds against every block that arrives after
  it; a node of a checkpointed network mines nothing before it has joined it; what is
  gossiped or served survives a restart; a node that may mine does.
* **Sync**: one batch at a time; the linkage proof is the pin's ancestry; who answers
  in time is not blamed; the published deficit never understates a claim; one good
  peer is enough to catch up.

## 2. Modules

| Module | Models | Checked by |
|---|---|---|
| `Blockchain` | `chain/src/blockchain.rs`: `import_block_tracked` and all it calls | `MCBlockchain*.cfg`, `BlockchainProofs` |
| `BlockStore` | what a durable log promises (abstract) | as a property of `BlockLog` |
| `BlockLog` | `rpc/src/daemon.rs`, `rpc/src/p2p.rs`, boot half of `blockchain.rs` | `MCBlockLog*.cfg`, `BlockLogProofs` |
| `Checkpoints` | `blockchain.rs`: pins, assume-valid linkage, local anchor (operators) | through the next two, `CheckpointProofs` |
| `Producer` | `rpc/src/daemon.rs`: the production thread, over `Checkpoints` | `MCProducer*.cfg`, `ProducerProofs` |
| `SyncWorker` | `rpc/src/p2p.rs`: worker and verifier threads, over `Checkpoints` | `MCSync.cfg`, `SyncProofs` |
| `Mempool` | `mempool/src/lib.rs` under `node/src/node.rs` | `MCMempool*.cfg` |
| `Sums` | the sum of the values of a finite map (operator) | through `Ledger`, `LedgerProofs` |
| `Ledger` | `state/src/ledger.rs`, `vault.rs`: maps, setters, journal | through `Execution`, `LedgerProofs` |
| `Compliance` | `compliance/src/controls.rs` | through `Execution` |
| `Payments` | `runtime/src/execution.rs`: the execution in progress, native transfers, assets and their policies, contract transfers | through `Execution`, `LedgerProofs` |
| `Execution` | the rest of `runtime/src/execution.rs`, `gas.rs`, `shielded_v2.rs`, `verify/src/invariants.rs` | `MCExecution*.cfg`, `ExecutionProofs` |
| `Governance` | `governance/src/lib.rs`, signal handling of `blockchain.rs` | `MCGovernance.cfg`, `GovernanceProofs` |

**Blockchain.** Variables are the fields of `struct Blockchain`; `pc` and `job` are
the place and the locals of the import in progress. Each loop of the import (walk to
the fork, disconnect, connect, roll back, reconnect, collect ancestors, replay) takes
one step per iteration, so invariants are also checked in the middle of a
reorganisation. A hash is a natural number, a ledger is the block it is the post-state
of with the transactions applied so far, an undo log is the ledger it restores, and
`header` stands for every check that needs no execution. A block may commit to a wrong
root or contain an already spent transaction, so execution can fail anywhere.
`panic` is the state after an `expect` fires.

**BlockLog.** Commit and append share the node lock and are one action per writer;
the verifier's fsync and the snapshot's file write are separate steps. `Kill` keeps
what was written, `PowerLoss` keeps what was synced and any prefix of the rest. Fault
sets say whether writes may fail and whether a crash may leave part of a record.
`BootResumes` and `BootReplays` are the two tiers of the boot. The blocks are valid
here; which blocks are is the matter of `Blockchain`. A ledger is, for every block, how
often it is executed in it: a reorganisation takes blocks back and executes others, and a
resumed boot executes the gap above the snapshot on whatever ledger the snapshot holds, so
a block left out, executed twice or executed on the wrong branch shows. The resume checks
are the code's: the snapshot's block is on the chain the log gives, and the ledger after
the gap has the root the head commits to.

**Mempool.** The loops of insertion, auction, promotion and maintenance are steps of
their own. Of a transaction the pool sees signer, nonce, tip, outflow, weight, note and
whether its signature is bound to the chain; the three signature modes (legacy, grace,
bound) follow the height, and the run has the last two. Transactions the size gate or the
key check would refuse are left out, and so is the funding of a fee by a shielded
withdrawal (`node.rs:402`). The chain is a sequence of blocks of at
most one transaction; `ImportBlock` stands for `import_block` and `commit_mined`. Balances
after an import are any of a given set, since payments from others are not modelled.
`Select` and `FirstFree` are the two queries others act on: the block builder on
`select`, wallets on `next_nonce`.

**Checkpoints.** The pins, the headers proven to lead to the newest one (`linked`) and
the progress of a proof being streamed (`pending`) are one record, and every function of
the code that touches them an operator from record to record. Blocks form a constant
tree: `Prev`, with `Chain[b]`, the path from genesis to `b`, given beside it because
the prover cannot unfold a recursive definition.

**Producer.** The thread takes the node lock five times in a turn of its loop and grinds
with none, so each stretch is a step (`Tick`, `Adopt`, `PersistAnchor`, `ReadStatus`,
`Decide`, `Build`, `Seal` or `Abandon`, and the three ends of a commit), and imports by
the P2P side (`PeerImport`, `PeerImportFails`), telemetry (`Publish`), the operator's
switch and restarts fall in between. `older` records, for each pin, the blocks of its
height that were in the store when it was laid. The log is the set of blocks a restart
reads back; how bytes survive a crash is the matter of `BlockLog`.

**SyncWorker.** A pass of the worker is `BeginPass`, one `Handle` per message, one
`Collect` per report, `RequestMissing` and the telemetry that ends it. The verifier
takes a job, imports its blocks one by one and reports; a job the worker runs itself
because the verifier is gone (`RunVerifyJob`) is one step, under the lock. `book[p]` gathers what
`SyncState` keeps per address, and is not cleared when a link is lost unless the code
clears it. Peers run the serving code of the same file over their own chains. There is
no clock: a deadline passes by an action (`Expires`, `LinkageExpires`,
`StatusExpires`), which for a prompt peer needs that no answer can be under way.
Faults are lost links, a failed append or fsync on either thread, and two deaths of the
verifier: off the node lock (`VerifierDies`), and by a panic inside an import
(`VerifierPanics`), which poisons the lock; every later `lock()` fails, and each handler
takes the early return the code has for that (`RequestNothing` among them). A panic of
the worker's own inline run would end the worker and is not modelled. The release profile
(`src/chain/Cargo.toml`, `panic = "abort"`) ends the process instead, which is a kill of
`BlockLog`.

**Ledger, Compliance, Payments, Execution.** Every map of the code is a function on the keys it
holds. A setter writes one key and appends its pre-image to the journal. A transaction
is executed on a copy of its signer's account, which is written back at the end, as in
the code. An action may carry another (a multisig envelope, a proposal, a tip, a
timestamp); the walk through the carriers is a recursive function bounded by
`MaxNesting`, as decoding bounds it. `BeginBlock` mints the coinbase; `Include` applies a transaction with outcome
`ok` or `failed`; `Abort` and `Refuse` roll back through the journal; `Seal` requires
`check_transition_pre` and `check_ledger`; `Disconnect` is a reorganisation taking the
head block back. Hashes that derive identifiers are taken to be injective, signatures
and zero-knowledge proofs are valid or not by input, and what a contract run produces
(gas, token commands, writes) is an input.

**Governance.** A block is the sequence of votes of its chain. Which branch wins is
left open (that is `Blockchain`'s matter), so the signal log is exercised under every
order of extension, incremental switch, replay, side-branch storage and refusal.

## 3. Runs

| Run | Shows | Bounds |
|---|---|---|
| `blockchain` | fork choice, refusals leave the head, stored blocks are valid, state, indexes and ring follow the chain, no transaction is lost, no panic, every import ends | four blocks of equal work, every parent, transaction and root choice, the vote set by the blocks without the transaction; undo window 1, so both the incremental path and the replay run |
| `blockchain_long_side` | **violation**, see 6.1 | four blocks, works 1 and 3, window 2 |
| `blocklog_crash` | boots are consistent, the log lists parents first, nothing durable is lost on sound storage (refinement of `BlockStore`), readable synced records stay readable under any fault, unsynced records get synced | two blocks in every tree, two crashes, four records; sound, failing or tearing storage |
| `blocklog_torn` | **violation**, see 6.2 | three blocks, one crash |
| `mempool` | exact indexes and weights, limits, affordability, nothing dead, the template in order and complete, every call ends | five transactions of two signers, two ready and one queued slot, chain of two |
| `mempool_reorg` | **violation**, see 6.3 | three nonces of one signer |
| `execution` | supply, counters, undo, per-transaction conservation, clean failures, vault authorisation | eleven menus of transactions covering every kind, three blocks of two transactions, carriers nested three deep |
| `execution_payout` | **violation**, see 6.4 | one menu of three transactions |
| `governance` | branch signals exact, rules settled by ancestors, forecasts come true | trees of eight blocks, four deployments (by vote, by timeout, with a minimum height, failing) |
| `sync` | one batch at a time, linkage sound, the prompt peer unblamed, the deficit never understated, the node catches up | three peers (prompt, serving no block, on an invalid chain), six blocks with a fork of our own, batches of two, one fault (a panic of the verifier included); five scenarios (`MCSync`) |
| `producer` | pins hold and lie on one chain, nothing mined before joining, what is advertised is durable on a sound disk, mining goes on | five remote and ten own blocks, no pin or one at height 1 or 2, two mined blocks; one restart, or one change of claim or switch, or a failing disk |
| `producer_failing` | **violation**, see 6.5 | the same tree, no pins, an append fails |

**Why the bounds are enough to be interesting.** Four blocks with a window of one give
a fork two deep, which no longer fits the ring, next to one that does. Two ready slots,
one queued slot and a weight of five make every limit bind. Three blocks of two
transactions let a proposal be made, its policy changed and its approval arrive in
separate blocks, a halving happen and the budget of nine run out. Eight heights take
every deployment to its last state. In `sync` a chain of three against batches of two
takes two requests for blocks and two for headers, a fork at height 1 forces the locator
or the backtracking, and a peer that answers late is struck until it is disconnected. In
`producer` a short block outweighs the pinned chain, a remote block displaces each own
one, and the anchor moves past a stored side branch. Each property has a mutant (a
dropped guard, a missing reset, an off-by-one in a definition that models code) under
which the same run reports it violated, so no run passes for want of the case.

In `execution` a behaviour draws from one menu, so interactions *between* menus
(a vault owner who also trades intents, say) are not explored. `sync` explores five
scenarios rather than their product, and `producer` one kind of disturbance per
behaviour; what section 4 proves of the two modules is free of both restrictions.

**Fairness.** `Blockchain` and `Mempool` assume weak fairness of the steps of a call in
progress: the thread holding the node lock keeps running. `BlockLog` assumes that the
verifier finishes its job, its fsync included, and that a stopped node is started again.
`Producer` assumes that the thread runs, that the worker publishes once per pass, both
weakly fair, and strongly that a template ground again and again is eventually sealed
(grinding is a lottery that is drawn anew each time); nothing makes a peer send a block
or the switch turn. `SyncWorker` assumes that both threads run and that deadlines and
bans run out. Of the remote side it assumes only that the *prompt* peer answers,
announces and can be dialled; these are strongly fair because they happen in real time,
while the model lets a message land only between two passes. No fairness is assumed of
other peers, arrivals, crashes or miners.

Deadlock is checked everywhere except in `blocklog_crash` and the two `producer` runs,
where the bounds on crashes, records and mined blocks end behaviours.

## 4. Proofs

Each theorem holds for every value of the constants under the assumptions its module
names (`ASSUME`), which its run evaluates.

| Module | Theorem | Statement |
|---|---|---|
| `BlockchainProofs` | `TypeCorrect`, `ForkChoice`, `StateTracksChain`, `StoredBlocksValid`, `RingMatchesChain`, `RefusalIsAtomic`, `ViewsFollowHead`, `NothingLost` | `[]TypeOK`, `[]HeadBest`, `[]StateFollowsChain`, `[]IndexValid`, `[]RingAligned`, `[]RefusedLeavesHead`, `[]ViewsAgree`, `[]NoTxLost` |
| | `NoExpectFires` | `[]NoPanic` when every block has the same work (`SameWork`) |
| `BlockLogProofs` | `BootIsConsistent`, `LogIsClosed`, `NeverRegresses`, `LogImplementsStore`, `PrefixIsKept` | `[]BootConsistent`, `[]LogClosed`, `[]NoRegression`, the refinement `ImplementsStore`, the action property `ReadablePrefixKept` |
| `GovernanceProofs` | `BranchSignalsAreExact`, `RulesAreSettled`, `ForecastsAreExact` | `[]BranchSignalsExact`, `[]RulesSettled`, `[]ForecastExact` |
| `ProducerProofs` | `PinsHold`, `PinsAreOneChain`, `JoinedBeforeMining`, `AdvertisedIsDurable` | `[]PinHeld`, `[]PinsOneChain`, `[]JoinsBeforeMining`, `[]AdvertisedDurableSound` |
| `SyncProofs` | `LinkageIsSound`, `OneBatchInTheVerifier`, `GateIsClosed` | `[]LinkageSound`, `[]OneBatchAtATime`, `[]GateFailsClosed` |
| `LedgerProofs` | `WriteIsUndone`, `CellWriteIsUndone` | undoing a setter's journal entry gives back the ledger |
| `ExecutionProofs` | `JournalIsExact`, `SupplyIsConserved`, `TransactionsConserve` | `[]UndoExact`, `[]SupplyConserved`, the action property `TxConserves` |

**Blockchain.** Assumed: hashes are naturals, the work of a block is positive, the window
is at least one, an offered block has some work and is not genesis. None of the six is
inductive. When the import ends, fork choice holds because the branch was heavier than
the head *at the time the import began*, which has since been disconnected; a refusal is
atomic because re-connecting the old blocks cannot fail. `Inv` (end of `Blockchain.tla`)
therefore adds: the active chain consists of accepted blocks up to the fork, and above it
possibly the candidate (`AcceptedInv`); the branch consists of accepted blocks and ends
in the candidate, and `job.reorg` still states the comparison with the old head
(`BranchInv`); what is left to connect ends in the candidate (`TodoInv`); the
disconnected blocks lead from the old head to the cut (`OldInv`); the replay has
established the first part of its branch (`ReplayInv`). Accepted blocks executed once on
their own branch, and execution depends only on the branch, so they connect again.

The incremental views (the roots of the active chain, the receipt and transaction
indexes, the heights, the cached difficulty) are compared by `ViewsAgree` with what a
rebuild from the chain would give, between imports. `ViewInv` says what each of them is
in the middle of one: that of the chain as far as it is connected, except that a side
branch under validation has no receipts; and a transaction committed when the import
began is below the fork or in a disconnected block, which is re-connected or handed back
(`CarriedInv`, of which `NothingLost` is the case of a finished import). `NoExpectFires` assumes
`SameWork`, without which it is false (6.1): then heavier means longer, so a branch has
at most one block more than it replaces, and one that has more is not rolled back past
its last block (`RoomInv`); the ring is never asked for a log it has dropped.

**BlockLog.** Assumed: trees are sets of ancestors closed and linear, hashes finite. Any
number of crashes and any fault set. `IndexInv` says the node knows the ancestors of what
it knows and stands at the best of it. `StateInv` says that a running node's ledger has
executed exactly the blocks of its head's chain, once each, and that every snapshot
written is such a ledger with its head. A reorganisation then undoes what the old branch
executed and no more, and the gap above a snapshot whose block is on the chain leads to
the head's state: the root check of the resume passes whenever the chain still holds the
snapshot's block, and a snapshot of an abandoned branch falls through to the replay. `SoundInv`, for sound storage, that
every record follows its ancestors in the file, that everything promised lies in the
synced part, and that the running node's index is in the file with nothing in the file
beating the head. The last is what makes a boot, which reads only the file, end no lower
than before. The refinement maps the abstract store to the records of the file and its
synced part; a step of the log is a step of the store or leaves both alone.

**Governance.** `Inv` says the signal log is exactly `Votes(active)`. Each way of moving
the head (extension, cut and regrow, replay) preserves it, and the log reconstructed for
a stored branch, patched from `signals` below the fork and headers above, is then that
branch's. `state_at` walks the windows of a deployment from genesis; the walk is a
recursive function, shown to exist and to depend only on the votes below the height it
is asked for (`SameBelow`), which is `RulesSettled`. For `ForecastExact` the walk is
shown to pass its states in order and to stay `LockedIn` exactly until the first window
boundary at or above the minimum height, so the height computed from any earlier state is
that boundary; the bounds reported before lock-in follow from monotonicity and, for a
deployment that locks in on timeout, from the last window in which it can be `Started`.
Assumed: what `Deployment::new` and `Threshold::new` refuse to construct otherwise.

**Checkpoints, Producer.** Assumed: a finite tree whose hashes increase away from
genesis, `Chain` its paths, cumulative work increasing along it, at most one baked pin.
`CheckpointProofs` holds the lemmas on paths, heights and ancestries both users need.
`Inv` of `ProducerProofs` is four conjuncts. `StoreInv`: the store is closed under
parents, and head, template and the parent of a sealed block are in it. `PinInv`: the pins lie on one chain through the baked
pin, adopted anchors are proper descendants of it, and the linkage is the newest pin's
ancestry or empty. `OldInv`: every stored block of a pinned height other than the pin is
in `older`; it is why no *new* block can lead past a pin. `LogInv`: on a sound disk what
the node knows is in the log, which is closed, so a restart recovers it, and the pinned
block is in it once the thread is past the gate or has mined. The step that needs all four at once is `Restart`,
where head, store and pins are computed anew from log and anchor file.

**SyncWorker.** What arrives is whatever peers answered, so `LinkageSound` needs to know
about messages still under way: `Inv` adds that every message in the inbox carries blocks
where its kind says so and that every request a peer holds is of a known kind with a
locator or a height above genesis. Streaming headers onto a path from genesis gives a path
again, and a path that ends in the pin is the pin's ancestry. `Types` adds the shape of
the books and of the verifier's queues, and that the indexed blocks are closed under
parents and hold the head: an import on either thread keeps that and never lowers the head.
What is said of imports holds behind a poisoned lock too, where they change nothing.
`BatchInv` is the argument for `OneBatchAtATime`: it needs in addition that nothing is in
flight while a batch is verified, since the answer to a request in flight is the only thing
that starts one, and that a dead verifier holds no job, so that the watchdog loses nothing
it should wait for. `GateInv` is `GateFailsClosed` with the type of the deficit; a verifier
that imports after the pass ended only makes the published deficit larger than the true one.
Assumed beside the tree's: `None` is not a job.

**Ledger.** `WriteIsUndone` and `CellWriteIsUndone` are about one setter: for any ledger,
map, key and value the journal entry it appends restores what was there, an absent key
included. The module goes on with what every step of an execution keeps. `Journals`: if
the journal led back to some ledger before the step, it does after it. `Native`: the maps
that hold coin are typed, and the escrow and collateral counters equal the sums they count.
The sums are over finite maps (`Sums`); one changed entry changes the sum by its difference.

**Execution.** `ChainInv` says that the journal of the block in progress leads back to the
ledger it was begun on, that the journal of every connected block leads from the ledger it
left to the one it was begun on, and that all of these are `Settled`: `Native`, with the
supply equal to genesis plus what was mined, within the budget. Undoing a block then lands
on a settled ledger; sealing one does because `check_transition_pre` and `check_ledger`
passed. `SupplyIsConserved` therefore holds although a single transaction may break
conservation (6.4). `TransactionsConserve` shows that this is the only way: every kind of
transaction, carriers and contract runs included, moves coin between balances, locks,
vaults, pools and the miner, unless a stored proposal it executes pays or is paid by its
own signer. Assumed, as decoding guarantees: amounts are naturals, accounts are accounts,
lists are finite, nesting is bounded; `Absent` is no value a lookup can return; genesis
holds no empty account.

**Induction.** The library states induction for an operator, which the provers cannot
instantiate. Where a proof needs it, it is by smallest counterexample: a nonempty set of
naturals has a least element (well-foundedness of `<`), a nonempty set of finite subsets a
minimal one, and a property that holds at 0 and is kept by +1 is a set (`NatSetInduction`).
Recursive functions are shown to exist the same way before anything is said of them.

**Only model-checked.** Liveness (`ImportTerminates`, `EventuallySynced`, `CallsEnd`,
`MinesEventually`, `CatchesUp`): out of the prover's reach. The properties of `Mempool`,
whose sorts and auctions are folds over sequences built from sets. `AssetsBacked`,
`FailureIsClean` and `VaultSpends` of `Execution`, which are about the token maps, receipts
and approvals that `Native` leaves out. And `PromptUnblamed`, which bounds the strikes by
the faults so far and needs the history of every request.

## 5. Not modelled

* Hashing, signatures, zero-knowledge proofs, encryption, codecs, the WebAssembly
  interpreter, 256-bit target arithmetic and the difficulty retarget: cryptography, or
  pure functions of large integers no modelled property depends on. Their results are
  inputs: a block has a work, a signature is valid or not.
* The desktop station, wallets, dashboards, the reserve calculator, timing statistics, the
  fee views and the test harnesses: clients of the node or reports over its state. They
  are a large part of the repository's lines.
* Connection handling below the sync worker (framing, key exchange, port mapping, address
  exchange): a link is up or down, and messages on it keep their order.
* The stratum server and the share chain are programs of their own; their only effect on
  the node is `submitBlock`, a writer of `BlockLog`.
* Transaction relay.
* Time. `credit_stall` extends the deadlines after which a silent link is closed; the model
  lets a link be lost at any time (`Drop`). The deadline of a request gets no such credit
  (`p2p.rs:2264`): *prompt* includes that the worker itself is not kept from its inbox past
  the deadline, as it is when a job runs inline.
* Compositions: execution under fork choice (`Blockchain` takes the outcome of a block as
  a function of its branch), and pool with execution, so that a template whose block the
  node's own import refuses is chosen again (6.4) is not a behaviour of one model.

## 6. Where code and text disagree

Each of these is a run whose property states what the repository says.

1. `blockchain_long_side` / `NoPanic`. A lighter side branch with more blocks than the
   undo window is executed on the active chain; its logs push out the ones its rollback
   needs, and the `expect` in `disconnect_to` fires. With equal work per block the case
   does not arise (`blockchain`).
2. `blocklog_torn` / `PromisedSurvives`. After a crash that left part of a record, the
   log is opened for appending behind it, and later records are written and fsynced where
   the reader never gets to them.
3. `mempool_reorg` / `ReorgKeeps`. Reverted transactions are given back newest block first;
   a run longer than the sender's share of the queue loses its far end.
4. `execution_payout` / `ProposalsConserve`. A stored proposal that pays, or is paid from,
   the signer of the approving transaction has its write lost when the signer's copy is
   written back, so the transaction changes the supply. The block is refused by
   `check_transition_pre`, so the chain's supply is safe (`SupplyConserved`); but
   `build_candidate_for` does not make that check, so the template is refused by the node's
   own import while the transaction stays pooled.
5. `producer_failing` / `AdvertisedDurable`. When the append of a mined block fails, mining
   stops but the latch that stops importing and serving is not set, so the block is served
   although a restart does not recover it. Nor does the production loop read the latch an
   importer set: it goes on mining on a block that was not logged.

Met while reading or modelling, with no run:

* `runtime/src/execution.rs:695`: the data cap looks through the timestamp envelope only;
  its comment speaks of any wrapping.
* `runtime/src/execution.rs:1675`: "afterwards the name resolves to `to`", but a resolver
  set in the metadata stays.
* `compliance/src/controls.rs`: the spend limit is described for any window of that length;
  windows tumble. The same holds of the de-shielding limit.
* `runtime/src/execution.rs:2164`: the comment speaks of burning a fraction of the fee;
  nothing is burned.
* `mempool/src/lib.rs:802`: a queued transaction whose promotion was refused can be sent
  again and admitted ready, and is then in both regions.
* `chain/src/blockchain.rs:56`, `:642`: a checkpoint adopted at run time is not applied to
  branches stored before; such a branch may still win past the pin (`PinHeld` says exactly
  which).
* `rpc/src/daemon.rs:2897`: the grind notices a new tip by its height, "so no work is
  wasted on a stale tip"; a reorganisation to the same height goes unnoticed, and so do the
  mining switch and the gate until the template is sealed or given up.
* `rpc/src/daemon.rs:2960`: the comment explains the discarded error by a tip that moved
  between grind and commit. A block that lost that race is not an error: it is stored on a
  side branch, appended and gossiped; the branch covers every error of the import.
* `rpc/src/p2p.rs:1571`: a Hello of an earlier link is judged against the link of the
  moment, and one that fails marks the address incompatible; it is never dialled again.
* `rpc/src/p2p.rs`, linkage: a node whose own tip is above genesis and that has no partial
  progress asks from its locator and cannot use the answer; a reply to a linkage request of
  an earlier link consumes the current one, so one lost link can cost two strikes
  (`PromptUnblamed` allows for it).
* `rpc/src/p2p.rs:1266`, `:1357`: a verifier "whose thread died (a panic mid-import)" is
  respawned "so catch-up re-requests the interrupted batch and keeps making progress". A
  panic in `import_block` happens under the node mutex and poisons it: `request_missing`
  returns at once, every import is `Rejected`, and nothing is asked for again. `CatchesUp`
  excepts this death and states that behind it the chain does not move; what the watchdog
  does recover from is a thread that ends off the lock. The shipped profile aborts on panic,
  where there is nothing to respawn.
* `rpc/src/p2p.rs`, verifier: its death with only an announced block queued is not noticed
  as a lost catch-up job; later blocks are imported inline. Replies dropped for a full
  queue or a set latch count toward the replies a peer is allowed without progress.
* `src/tools/sov-sharechain/src/lib.rs`: several shares of one branch may reference the same
  uncle, which is then weighted each time; a comment excludes paying twice "for one piece of
  work". In `gossip.rs` the peer limit is tested before the handshake and not again after.
