# truthcoin-dc: TLA+ models and proofs

truthcoin-dc is a node of a prediction-market sidechain of Bitcoin.  Users
deposit coins from the mainchain, claim *decisions* (questions to be voted on),
trade shares of markets built on them, vote, and withdraw coins in *bundles*
that the mainchain pays out.  Sidechain blocks are *blind merged mined* (BMM): a
mainchain block commits to the hash of a sidechain block, so the sidechain can
be reorganised by the mainchain as well as by its own miners.

This directory models the node's own logic: the state that blocks change and
reorgs change back, the tasks that share it, the mempool, the wallet, the
connections to peers, and the arithmetic that every node must do alike.  TLC
checks the models on small instances; TLAPS proves, for every value of the
constants, the invariants of the decision registry and that it implements an
abstract specification of reorgs, those of the archive, the side tips and the
connected chain, the order of tips, that the two-way peg conserves outputs and
that its blocks can be disconnected exactly, the agreement of the mempool's
databases, the soundness of the wallet, and the agreement of the table of active
peers with the tasks of connections.

`PROJECT.json` lists the runs, the source lines behind each definition, the
hazards, the findings and the theorems.  Source paths below are relative to
`src/lib/` unless they say otherwise.

## 1. The system

### 1.1 Components

| Component | State it keeps | Operations | Modelled in |
|---|---|---|---|
| Decision registry and pricing (`state/decisions/`, `math/decisions.rs`) | `period_decisions`, `decision_state_histories`, `period_pricing`, its snapshots per height, outcomes | claim, mint periods, reprice, open for voting, resolve, and the undo of each; listing of what can be claimed | `DecisionMath`, `DecisionTypes`, `Decisions`, `Listings` |
| Two-way peg (`state/two_way_peg_data.rs`) | `withdrawal_bundles` (a stack of statuses per bundle), the pending bundle, `utxos`, `stxos`, event blocks | deposit; collect, submit, confirm, fail a bundle; the undo of each | `TwoWayPeg`, `Bundles` |
| Market trading and settlement (`state/markets/`, `math/lmsr.rs`, `math/trading.rs`, `math/allocation.rs`) | markets, share accounts, funds pointers, the state index, settlement undo | create, buy, sell, amplify, settle, pay out, and the undo of each | `MarketMath`, `OutcomeSpace`, `Lmsr`, `Markets` |
| Voting and reputation (`state/voting/`, `state/reputation.rs`) | votes, reputation, statistics, outcomes, undo records | vote, transfer reputation, close a period, and the undo of each | `Voting` |
| Consensus algorithm (`math/voting/`) | none | fill gaps, weigh, find outcomes, move reputation | `ConsensusMath` |
| Block connection and the utxo set (`state/block.rs`, `state/mod.rs`, `validation/`) | utxos, stxos, height, tip, mainchain timestamp | validate, connect and disconnect a block | by subsystem, in the modules above and `Mempool` |
| Authorization and transaction types (`authorization.rs`, `types/`) | none | sign, pack and verify bodies; fees, Merkle roots; proofs of work | `Bodies`, `TxPow` |
| Mempool (`mempool.rs`), miner (`miner.rs`) | transactions and four indexes; the template | put, delete, evict, take; submit, mine, put back | `Mempool` |
| Archive (`archive/mod.rs`) | headers, bodies, mainchain infos, BMM results, ancestor index, invalid blocks | `put_header`, `put_body`, `put_main_*`, `invalidate_block`; the searches | `Ancestry`, `Chains`, `NodeSync` |
| Side tips (`archive/side_tips/`), tip choice (`better_tip`) | `mainchain_tip`, `sidechain_tips`, `ordered_sidechain_tips` | connect and disconnect a mainchain tip, connect a sidechain tip; compare tips | `NodeSync`, `Chains`, `TipChoice` |
| Mainchain task, net task, node operations (`node/`) | subscription, queues, tips waiting for a body | follow the mainchain, reorg, store answers of peers; submit, sync, invalidate | `NodeSync` |
| Peer-to-peer network (`net/`) | active and known peers, mailbox and request queue of a connection | dial, accept, redial, announce, request, answer, time out | `Peers`; pushed transactions in `Mempool` |
| Wallet (`wallet.rs`, `../app/app.rs`) | addresses, own utxos, spent and unconfirmed ones | select coins, build transactions, update from the node | `Wallet` |
| RPC server (`../app/rpc_server.rs`) | none | requests that build claims, markets, trades and ballots | `Listings`, `DecisionTypes`, `Mempool`; queries are not modelled |
| Mainchain gRPC client, command line, desktop application | none of the chain's | I/O, plumbing | not modelled (section 5) |

### 1.2 How they interact

All the state is in one LMDB environment.  Its write transactions are
serialised and atomic; read transactions see a snapshot.  These actors share it:

* the **mainchain task** subscribes to the mainchain node, stores the infos of
  mainchain blocks and moves the side tips along; it tells the net task by
  opaque events;
* the **net task** owns the chain state: it connects and disconnects blocks
  when a better tip is ready, when a mainchain event arrives, or when an RPC
  call asks for it; it stores the headers and bodies that peers send, and the
  transactions they push;
* **peer connections**, a task each, compare the tips that peers announce with
  the node's own and ask for the missing headers and bodies;
* **RPC calls** submit blocks and transactions, invalidate blocks, synchronise,
  build templates;
* the **wallet task** follows the tip, and callers of the wallet select coins
  from a database of its own while it does.

Connecting a block runs the two-way peg, the transactions (claims, trades,
ballots), pricing, voting and settlement in a fixed order in one transaction,
and leaves undo records from which disconnecting takes it back.

### 1.3 What is hard about it

* *Reorgs.*  Undo is partly by record, partly by recomputation and partly by
  height.  A table that is restored by one rule and the table it must agree with
  by another is where states appear that no test reaches.
* *Things computed twice.*  A template is priced by other code than the block, a
  peer's tip compared by other code than `better_tip`, a vote converted by the
  client and again by the node.
* *Concurrent tasks.*  A tip is checked in one transaction and used in a later
  one; bodies, headers and commitments of the same block arrive in any order; an
  update of the wallet reads two databases in several transactions.
* *The mainchain.*  It reorganises, its timestamps run backwards and skip, it
  reports bundles that another sidechain branch proposed, and its stream may
  close at any time and miss blocks.
* *Restarts.*  The tables survive, the queues between the tasks do not.
* *Arithmetic.*  Prices use a fixed-point exponential, trades round to sats, and
  a treasury must cover every payout.

The hazards of `PROJECT.json` are these, line by line.

### 1.4 What makes each component correct

* Registry: the claims, the state histories, the outcomes and the pricing
  counters agree after every connect and disconnect; decisions go through their
  life cycle in order and on time; what the node lists can be claimed.
* Peg: no output is lost or created; an output is spent exactly while one bundle
  holds it; every block can be disconnected.
* Markets: no sat is lost, the books agree, a market can always be settled.
* Voting: reputation is conserved, the votes of the chain and no others are
  counted, every period that closes is resolved as a whole.
* Mempool: its indexes agree; the node's own templates connect.
* Archive and tips: the searches are exact, BMM results do not depend on the
  order of arrival, the side tips lie on the active branch.
* Tasks: no block of a peer ends the net task, whose fatal errors are few and known;
  the connected chain can be disconnected, the mainchain is followed for ever.
* Peers: no dead entry blocks an address; an announced chain is fetched; a node
  that knows a peer does not stay alone.
* Wallet: whenever no update is due it offers exactly the coins it can spend, but
  for those of transactions it has not been told of.
* Every state that blocks change: `BlockStack`, disconnecting a block gives back
  what it found.

## 2. The models

A database record is a field of a variable; where the code strings together
fallible calls in one write transaction, the databases are one record with a
flag `ok` that an operation clears where the code returns an error, and a step
whose result is not `ok` changes nothing.  Bounds on a behaviour are a variable
(`scope`, `budget`, `bound`, `env`) chosen in the initial state and never changed
but to count down, so that one run covers long chains and eventful ones.  A
definition called a *deviation* is the form the definition after it would have
under a plausible mistake; no specification uses it.

### 2.1 `BlockStack`

The abstract specification of reorgs: connecting a block may change the state in
any way, disconnecting it brings back the state it found.  `Decisions` and
`Voting` implement it (their `DisconnectRestores` is `Stack!Spec`), with the tables
for the state and a history variable for what each block found; the code keeps no
copies and rebuilds the state.  `Markets` and `TwoWayPeg` restore all but a
few fields, which their own `DisconnectExact` names.

### 2.2 `DecisionMath`, `DecisionTypes`, `Decisions`, `Listings`

`DecisionMath` has the integer functions of `math/decisions.rs`: the slot tiers,
unlocking, prices, capacity, and `Reprice`, the fixed-point exponential with
`QBits`/`FracBits` precision and saturation at `MaxU64`.  `DecisionTypes` has the
three-byte ids, the checks on a claim's payload, and the path of a vote from the
value a user enters to the one that is stored, counted and shown.

`Decisions` is the registry: the code's tables, the connected blocks and their
undo records.  `ConnectBlock(ts, claims)` is `validation` plus
`connect_prevalidated` of `state/block.rs` for what touches decisions, in the
code's order: pricing snapshot, genesis minting, the claims (validated against the
state before the block), `process_block_pricing`, minting up to the horizon, the
voting transitions and the resolutions.  `DisconnectTip` is `disconnect_tip`:
outcomes by the undo record, histories by height, pricing by snapshot, claims by
the block's transactions, rows by `revert_decision_claim` and the recorded
horizon.  Periods are counted in blocks or in seconds of mainchain time, which
may run back by `MaxDrift`.  The set of ids is finite (an id has three bytes), and
a period without a price differs from every price.

`Listings` is the client's side of claims: the slots and fees that
`allocate_decision_slots` picks from the tip and the mempool, and the two
validations a claim meets afterwards, at the height of the tip and at the next.

### 2.3 `TwoWayPeg`, `Bundles`

`ConnectTip(created, spent, events)` connects a block: its withdrawal outputs,
then the mainchain's events in order (deposits, and bundles submitted, confirmed
or failed), then the collection of a new pending bundle.  `DisconnectTip` runs
`disconnect` in the code's order.  A bundle is the set of outputs it pays, capped
at `BundleCap`, and identified by that set and its height, as the code identifies
it by the transaction; `UnknownBundles` are bundles this chain cannot know, and
none of its own.  The loops over the events of a block are the recursive functions
`ConnectEvents` and `DisconnectEvents`.  The mainchain (external) reports bundles
that some block proposed, in an order it could mine (`MayReport`); with `CrossFork`
also one a disconnected branch proposed.  `RollBack::push` refuses a height below
the latest one; that it never has to is part of `DisconnectExact`.

`Bundles` computes what `TwoWayPeg` abstracts: aggregation by address, order,
predicted and built weight, amounts and fees.

### 2.4 `MarketMath`, `OutcomeSpace`, `Lmsr`, `Markets`

`MarketMath` has rounding of costs and proceeds, fees, final prices, payouts and
the allocation of a pool, with real numbers as counts of small units, so that the
code's roundings are integer divisions.  `Lmsr` has the cost function where its
exponentials are powers of two and the logarithm is taken to a fixed precision;
`OutcomeSpace` the outcomes of markets over several decisions.

`Markets` connects and disconnects blocks of market transactions over any cost
function (the constant `Cost`): a block collects what its transactions ask for,
applies it at the end, skips a trade over its limit, settles the markets whose
decision resolved, pays out shares and fees, and writes undo data.  What
disconnecting recomputes and what it looks up is as in the code.

### 2.5 `ConsensusMath`, `Voting`

`ConsensusMath` is the oracle: gaps filled, categorical votes counted by
plurality, weighted medians and means, the reward weights from the first
principal component, smoothing, rounding with its residual, rescaling.  The
component is computed for one decision, where it is the weighted deviation from
the mean; for several decisions (a singular value decomposition in the code) it
is an argument, and `Voting` chooses it freely from `Scores`, consistently for
all nodes.

`Voting` connects blocks of ballots and reputation transfers, closes the periods
that the block's period has passed and undoes all of it.  Keys are ordered
as the code's little-endian encoding orders them (`SortsBefore`, `Radix`).

### 2.6 `Bodies`, `TxPow`

Hashes and signatures are symbolic: a hash is a record of what was hashed, an
authorization the key and the transaction it signed.  `Bodies` packs transactions
into a body, pairs signatures with messages in chunks, computes Merkle roots and
fees; `TxPow` chains hash functions by a selector and an ordering and tests the
leading bits.

### 2.7 `Mempool`

Extends `Markets`: transactions are submitted, pushed by peers, removed, put in
templates, mined, evicted, deleted with their children, and put back by a reorg.
Every operation is one write transaction on the mempool's five databases and the
state; a peer's transaction is validated by its connection and put later by the
net task, and a template is built, waits for its BMM inclusion, and may be stale
by then.  Trades are taken in the order of their keys, little-endian counters
(`SortsBefore`, `Radix`).

### 2.8 `Ancestry`, `Chains`, `TipChoice`

`Ancestry` grows every forest of headers and keeps the exponential ancestor index
as `put_header` does; its operators are the searches of the archive.  That they
are exact lets the other modules walk over parents: `Chains` takes two trees of
blocks, defines ancestry, heights and work on them as recursive functions, and has
`better_tip` and the second comparison of `net/peer/task.rs`.  It assumes of the
trees that chains of hashes end (`Grounded`), that the mainchain has one first block
and that every block has work.  `TipChoice` builds every small mainchain tree with
every assignment of commitments and applies `Chains` to it.

### 2.9 `NodeSync`

Composes the archive, the side tips, the mainchain task, the net task, the peers'
announcements, the RPC calls and the mainchain node.  **One action is one write
transaction**, with the reads that no other task can disturb; where the code
releases the transaction and starts another there are two actions, and anything
may happen between.

| Actions | Code |
|---|---|
| `MineMainBlock`, `ReorgMainchain`, `SendBlockEvents`, `StreamCloses` | the mainchain node as `mainchain_task.rs` sees it (external) |
| `subscribe_block_events`, `request_ancestor_infos`, `sync_side_tips_to_tip`, `handle_block_event`, `handle_request`, `Stop` | `node/mainchain_task.rs`, `archive/side_tips/mod.rs` |
| `handle_mainchain_block_event`, `new_tip_ready`, `reorg_to_tip`, `discard_body`, `store_headers`, `receive_body` | `node/net_task.rs` |
| `check_headers`, `peer_tip_ready` | answers and announcements of peers: `node/net_task.rs`, `net/peer/task.rs` |
| `submit_header`, `submit_body`, `sync_to_tip`, `invalidate_block`, `Restart` | `node/mod.rs` |

A body is `"none"`, `"good"` or `"bad"` (not what the header commits to); events to
the net task are opaque in the code and are counted; a header request may start
from any stored ancestor, of which the code's locator is one.  What a block does to
the state, the peg and the pool is not part of this module: that undoing a sound
block fails there is a choice of the environment (`env.undo`), which ends the net
task, or only the reorg, as the kind of error decides (`UndoErrors`).  A caller who
waits for the result of a reorg may drop the receiver before it comes: `gone`
goes with the tip through the queue and the reorg, and the reply is then fatal
(`Answered`).  Only a client of `sync_to_tip` can do so: `submit_block` is called from
tasks that a client's hanging up does not end (`../app/rpc_server.rs:848`, `1987`).  The walks of the
code over parents are paths in `Chains`, and what it does block by block along one
is a fold over the path; the sets of blocks are finite, as hashes are.

### 2.10 `Peers`

One sidechain, blocks 1, 2, ..., and addresses of five kinds: a peer, a host that
never answers, one that connects and says nothing, one of another network, and an
invalid one.  The tables of `net/mod.rs`, the dialing, accepting, reconnecting and
redialing of `net_task.rs`, and the task of a connection: heartbeats, mailbox,
queue of requests sent once each, channels, what it fetches of an announced chain.
Each handler is an action; infos of a connection reach the net task in order and
then the notice that the channel is closed, possibly after the address was taken
again.

### 2.11 `Wallet`

Callers build transactions from the coins the wallet believes it has, submit them
and update the wallet; a task updates it when the tip changes.  An update reads
unconfirmed outputs, the state, the spent ones and the mempool, and writes, in the
database transactions the code uses; blocks, a reorg, removals and a restart may
come between any two.  `ConnectBlock` and `DisconnectTip` are what `connect_tip_` and
`disconnect_tip_` do to the coins and to the pool, with the children that
`MemPool::delete` takes along and the claims that a block evicts.  `PushTx` is the RPC
`push_tx`: a signed transaction goes to the node and no wallet is told.  (A peer's
transaction that spends coins of the wallet, say one of the same seed elsewhere, is not
an action of its own; it would do to the pool what a push does.)  The history variable
`unseen` holds the inputs of transactions pushed or dropped since an update last read
the pool.

## 3. What the runs check

`CHECK_DEADLOCK FALSE` is given where the model's bounds (blocks, reorgs,
requests) end every behaviour, or where the end of the net task is a state of
its own.

### 3.1 The runs

| Run | Instance | Properties | States |
|---|---|---|---|
| `math` | every bounded input of each algorithm: prices to 24 over three tiers; positions to 3, pools to 9; three voters, all votes on one decision; ids of 2-bit bytes; markets of up to three dimensions; bodies of two transactions over three outputs, with up to three signatures in chunks of 2, so that the second chunk decides; three withdrawals around the weight limit; 4 hash functions | `RepriceOnCurve`, `MarketsSolvent`, `ConsensusSound`, `VotesRoundTrip`, `OutcomesExact`, `BodiesSound`, `BundleSound` | 40 848 |
| `decisions` | six blocks in periods of two, five decisions; three blocks with timestamps that stand still, skip a period or run back | `RecordsAgree`, `ClaimsAccounted`, `StandardResolvedOnTime`, `ListingsClaimable`, `DisconnectRestores` | 108 887 |
| `peg` | chains of seven blocks with an event each and three disconnects; of four with two events each, a deposit, an unknown bundle and a disconnect | `Conservation`, `HeldOnce`, `DisconnectExact` | 412 093 |
| `chains` | every forest of ten headers; every mainchain tree of six blocks of work 1 or 2, with every commitment | `SearchesExact`, `TipOrderSound`, `PeerCheckAgrees` | 372 996 |
| `sync` | eleven environments (below) | `BmmExact`, `SideTipsSound`, `StateChainSound`, `NetTaskLives` | 716 820 |
| `sync_live` | no mainchain reorg; a restart, streams that close | `MainchainFollowed` | 11 739 |
| `markets` | two traders, an author who mines; four blocks of one transaction, three of two, each with a disconnect; three blocks of positions that strain the treasury | `BooksAgree`, `Conserved`, `Settleable`, `DisconnectExact` | 42 680 |
| `voting` | four addresses, a binary, a categorical and a scaled decision in two periods; five blocks of one transaction, three of two, each with a disconnect | `ReputationConserved`, `VotesCounted`, `PeriodsWhole`, `PeriodsClose`, `DisconnectRestores` | 18 430 |
| `mempool` | a pool of three, templates of two, three blocks: a node alone; a sale of a peer beside an own one; competitors, a block of a peer, a removal and a reorg | `IndexesExact`, `TemplateExact`, `AloneDisconnects` | 118 409 |
| `wallet` | every kind of transaction with two blocks and a reorg; two callers; a dropped transaction and a restart; a pushed transaction beside another; two claims, evictions and a reorg that leaves a child waiting with its parent | `WalletSound`, `EventuallyExact` | 888 902 |
| `peers` | six cases: catching up with one peer, with two; refused, late and discarded answers; addresses that are no peers, with the operator; a host name with several addresses; connections from both sides at once | `EntriesMatchTasks`, `AnnouncedFetched`, `Reconnects` | 157 038 |
| `peg_fork` | the peg, with bundles of a disconnected branch | `Conservation` is violated (3.2) | |

The environments of `sync`: a mainchain reorg to a branch with another sidechain
block, without and with errors undoing blocks; a restart; a reorg to a branch that commits to the same sidechain block,
with a restart; a reorg to a commitment whose parent is not mined there; two
reorgs in a row; wrong bodies of peers, without and with a reorg; late answers,
for a body that is stored already; an operator who invalidates blocks at any
time; and clients that hang up, with wrong bodies.

Why the bounds are enough.

* `decisions`: the life cycle takes a claim, a voting period and a resolution;
  six blocks reach every state in two overlapping periods, with every disconnect
  on the way.  Slots and prices are few, so that a period sells out and prices
  saturate.  In seconds, three blocks open, skip and re-enter a period.
* `peg`: in seven blocks a bundle fails, another with the same outputs is
  collected, and the mainchain reports either; two events in a block let
  undoing them in the wrong order show.
* `chains`: ten headers reach jumps of eight and several batches; six blocks hold
  two branches with three tips.
* `sync`: three sidechain blocks on two branches are the least for which a better
  tip, a fork and a missing parent exist at once; one waiting event and one tip
  suffice because the handlers read the tables and not the message.
* `markets`: four transactions create a market, buy, sell or amplify, and settle;
  pairs in a block cover what one does to the price of the other.  Coins are few,
  so that limits bite and fees round.
* `voting`: two periods close one after the other or in one block; the third
  holder has the least reputation there is, the fourth none until a transfer.
  Bytes have two values, so that the order of keys differs from the order of
  periods.
* `mempool`: three transactions are a trade, its competitor and a child; a template
  of two leaves one behind.  Bytes have three values: the first two trades are in
  the order of their insertion, the third comes before them.
* `wallet`, `peers`: every pair of tasks that share a table runs once with each
  fault; two callers, two connections at one address and two batches of bodies are
  the least that race.

Each property has a mutant in `PROJECT.json`, a plausible mistake in the code
that breaks it within the same bounds.

What the passing runs leave out is what the next section needs, and the
properties say so where it concerns them: `NetTaskLives` excepts a wrong
body that a mainchain event connects, operators who invalidate blocks, steps that
undo a block where that may fail, and the reply to a client that hung up,
`SideTipsSound` looks at times before an invalidation, `StandardResolvedOnTime`
excepts a claim made after its own voting period, `TemplateExact` names the four kinds of
transactions that make a template fail, `PeriodsClose` the voter who makes every
closing block fail, `OutcomesExact` the markets that only building refuses.  No
environment of `sync` has bodies both late and wrong, no scope of `peg` bundles of
another branch, `sync_live` no mainchain reorg.

### 3.2 Disagreements between the code and what it says of itself

`peg_fork` is a run of its own, and `PROJECT.json` quotes the lines: a bundle first
unknown, then collected in a disconnected block, stays known; its failure creates
outputs.

The following definitions, of statements in comments, assertions and tests of the
repository, stand at the end of their modules, and TLC finds the behaviour when
one is added to the configuration named:

| Definition | Configuration | What happens |
|---|---|---|
| `WindowPriced` | `MCDecisions.cfg` | A non-standard claim in the block that opens a period creates the newest row, and the pricing sees no transition: the period gets no price (`state/decisions/database.rs:228`, `242`) |
| `MintedHorizon` | `MCDecisions.cfg` | Reverting the last claim of a minted period deletes its row (line 966): the horizon is short of what line 243 calls the invariant |
| `TimestampIsTips` | `MCDecisions.cfg` | `disconnect_tip` leaves the `mainchain_timestamp` of the disconnected block (`state/block.rs:1020`), against which the next claims are validated |
| `PeriodAdvances` | `MCDecisions.cfg`, as a PROPERTY | A timestamp that runs back over a period boundary fails the assertion at `state/decisions/database.rs:249` |
| `NoLeftoverPending` | `MCTwoWayPeg.cfg` | Disconnecting a block that submitted one bundle and collected the next leaves the next one's `Pending` record, which line 231 of `state/two_way_peg_data.rs` calls a database error |
| `DisconnectExact` | `MCTwoWayPegFork.cfg` | A block that reports a bundle of another branch and collects the same one fails the check at line 672 when it is disconnected |
| `SideTipsReorgable` | `MCNodeSync.cfg` | After a mainchain reorg a tip of the old branch stays in `sidechain_tips`, against `archive/mod.rs:85` |
| `SortedTipsComplete` | `MCNodeSync.cfg` with `{m1, m2, m3, n2}` and two reorgs | When the mainchain returns to that branch, the tip is missing from the sorted table |
| `InvalidNotStored` | `MCNodeSync.cfg` | `submit_block` stores a block that was invalidated, against `archive/mod.rs:60` and `839` |
| `StateChainSound` | `MCNodeSync.cfg` with bodies both bad and late | A late, wrong body replaces the body of a connected block (`node/net_task.rs:655`) |
| `TipsComplete` without its premise | `MCNodeSync.cfg` | An invalidated block stays a side tip (`archive/mod.rs:781`) |
| `MainchainFollowed` | `MCNodeSyncLive.cfg` with `{m1, m2, n2}` and a reorg | The mainchain leaves a block whose sidechain body the node never had: the task fails and retries for ever (`archive/side_tips/mod.rs:343`, `node/mainchain_task.rs:678`) |

Other points met while modelling, which a maintainer may want to look at.  The
models follow the code in each.

*Decisions and markets.*

* In seconds mode a decision claimed (against the stored, stale timestamp) in a block
  past its own voting period may stay in `Voting` for ever.
* A claim made in the last block of a period is accepted by the mempool, at the
  tip's height, and makes the next block invalid.  A later reprice makes a quoted
  fee insufficient.
* The RPC's `decision_claim` takes several decisions; a payload with more than one is
  refused.
* Duplicate decisions across dimensions and too many outcomes are found only when the
  block builds the market, and fail the whole block.  A market may be created on a
  resolved decision; it settles in the same block.
* Trading volume is added net and subtracted gross for a sale (`state/block.rs:2025`,
  `1735`), so a reorg does not restore it; nor `version` and
  `last_updated_height` of a market.
* Quotes use the confirmed liquidity, although a comment (`../app/rpc_server.rs:2617`)
  counts pending amplifications; `market_buy` accepts a limit within the miner's fee
  of the cost, which the block then skips.

*Voting.*

* A voter who gives all reputation away before the period closes makes every closing
  block fail; one with less than `EPSILON` makes the fee allocation fail.
* Keys of votes are little-endian: the scan of a period ends early once there are
  votes of period 256 (`state/voting/database.rs:116`).
* A scaled vote of exactly 0 or 1 is stored as a binary one and must equal the outcome
  to be paid.  Unanimous abstention moves 30 % of the reputation; no votes at all move
  none.
* Genesis reputation and timestamp are not reverted with block 0.

*Mempool.*

* A template is not validated again, prices an amplification's fee by another rule
  than the block, and takes two sales that together exceed what is owned.
* A competitor for a confirmed input is not evicted; if the block is disconnected,
  putting its transaction back fails, which is fatal to the net task.
* Trades skipped by a block are deleted with it; a deletion takes the children
  along; trades come back in reverse order; their order is by a little-endian
  counter.
* `mempool_shares` is cleared only when a market's trade is connected, so that a stale
  one refuses valid sales.

*Network and synchronisation.*

* On one mainchain branch, at equal height, `better_tip` takes the tip with *less*
  work; its doc comment (`archive/mod.rs:1401`) says greater.
* A wrong body connected because of a mainchain event ends the net task
  (`node/net_task.rs:1041`, `329`).  So does an error of the peg or the state as a
  mainchain event has a block undone, an error of the pool as any reorg does (`313`),
  and the result of a `sync_to_tip` whose client has hung up (`1352`).
* A connection sends each request once, and the hash it is known by leaves out the
  peer's state: bodies of a newer tip, discarded bodies and refused ones are not
  asked for again on it.  A tip announced while our mainchain lags is ignored for
  good.  Requests and tips over `MAX_PENDING_MAINCHAIN_REQUESTS` and
  `MAX_DESCENDANT_TIPS` are dropped.
* Infos and close notices go by address: those of an old connection remove a newer
  one, and answers meant for the old end the new.
* Redialing starves while one silent host is being retried.

*Transactions and wallet.*

* The Merkle root pairs an odd last leaf with itself and does not commit to
  authorizations; missing actor proofs count as none.
* The ordering of a proof of work is a byte: with six functions not every order can
  be named.
* `unconfirmed_utxos` are never removed; a spent coin can be offered again for a moment
  (`../app/app.rs:97`); an error of an update ends the wallet task; amplification
  selects coins of any address.
* `push_tx` (`../app/rpc_server.rs:1382`) updates no wallet, nor does a transaction
  dropped from the mempool: the wallet offers coins that a pushed transaction spends,
  and withholds those of a dropped one, until the next block.  `WalletExact` leaves
  out these coins and no others.
* "Two transactions never share a change address" (`wallet.rs:444`) is not so as it
  stands: transfers of reputation (`wallet.rs:1413`), trades and amplifications return
  their change to the voter's address.  `ChangeUnshared` says what holds: an address
  that `get_new_address` derived for a transaction is paid by no other transaction
  the wallet builds.  (A destination is always somebody else's address; a user who
  pays to an address of his own may of course choose a change address.)
* Any transaction may create a `MarketFunds` output for any market, which is then
  locked (not modelled).

### 3.3 Fairness

* `NodeSync`: weak fairness of `subscribe_block_events`, `sync_side_tips_to_tip` and
  `handle_block_event`.  `MainchainTask::run` restarts its loop for ever, after a
  delay, whatever error it ended with, and each step, once possible, stays possible
  until it is taken.  Nothing is assumed of the mainchain, the peers or the net task.
* `Wallet`: weak fairness of the steps of an update and of the task, which is a loop;
  of `ConnectBlock({}, {}, {})`, as mainchain blocks keep coming and with them sidechain
  blocks, empty ones at least; strong fairness of a caller's update, since it waits for
  a lock that others take and release, and the lock is fair.
* `Peers`: weak fairness of the handlers of each task (tasks of one runtime, each woken
  by its channel), of the timers, of the answers of honest peers, and of the net task's
  reconnecting and redialing.  Beyond fairness there is one
  assumption on time (`Quiet`, a guard of reconnecting and redialing): the net task has
  handled the notice of a closed connection by the time its timer dials the address
  again, ten seconds or a minute later.  Incoming connections and those the operator
  asks for may be faster.

## 4. What is proved

The theorems hold for every value of the constants that the modules' named `ASSUME`s
allow (TLC evaluates those in the runs), and for chains of any length within the named
bounds.  A hypothesis that is more than that is part of the theorem and is given below.

### 4.1 The theorems

| Theorem | Statement |
|---|---|
| *`DecisionsProofs`* | |
| `RegistryConsistent` | `Spec => []RecordsAgree`: period entries, state histories, outcomes and undo records agree |
| `EntryAgreesWithHistory` | a decision has an entry exactly when it has a state history |
| `UndoRecordsExact` | the block and the undo record of every height name exactly what a disconnect must take back |
| `OutcomeAgreesWithState` | an outcome is stored exactly for the resolved decisions |
| `LifeCycleOrdered` | histories read Claimed, Voting, Resolved, at non-decreasing heights of the chain |
| `DisconnectExact` | `Spec => DisconnectRestores`: the registry implements `BlockStack` |
| `ClaimsAlwaysAccounted` | `Spec => []ClaimsAccounted`: counters, slots and claims of a period agree |
| `StandardAlwaysResolvedOnTime` | `Spec => []StandardResolvedOnTime`, for `MaxDrift =< Quantity` |
| *`ChainsProofs`* | |
| `PeerCheckExact` | the check of a peer's tip and `better_tip` agree, for every pair of trees |
| `TipRule` | `better_tip` follows its rule for any two merge-mined tips: the documented one, but lower work first for equal heights on one lineage (3.2) |
| `BranchTips` | `better_tip` orders the tips of one mainchain branch linearly |
| *`PeersProofs`* | |
| `EntriesMatchTasksAlways` | `Spec => []EntriesMatchTasks`: the table of active peers and the tasks of connections agree |
| `PeerCheckAgreesAlways` | `Spec => []PeerCheckAgrees` |
| `TipOrderSoundAlways` | `Spec => []TipOrderSound` |
| *`NodeSyncProofs`* | |
| `TypeCorrect` | `Spec => []TypeInv`: the types (`TypeOK`), and what each task needs to go on from one transaction to the next |
| `BmmAlwaysExact` | `Spec => []BmmExact`: a verification is stored exactly when the mainchain block and its ancestors merge-mine the side chain |
| `VerificationsKept` | no step takes back a stored verification (an action property) |
| `StateChainAlwaysSound` | `Spec => []StateChainSound`, if no environment has bodies both wrong and late |
| `SideTipsAlwaysSound` | `Spec => []SideTipsSound`: the two tables agree, and hold what the active mainchain merge-mines |
| `StreamAlwaysInStep` | the mainchain task never disconnects a block other than its tip |
| *`TwoWayPegProofs`* | |
| `OutputsAlwaysConserved` | `Spec => []Conservation`, without bundles of another branch |
| `WithdrawalsAlwaysHeldOnce` | `Spec => []HeldOnce`, without bundles of another branch |
| `DisconnectAlwaysExact` | `Spec => []DisconnectExact`, without bundles of another branch: the tip can always be disconnected, and gives back what it found |
| *`MempoolProofs`* | |
| `PoolIndexesExact` | `PoolSpec => []IndexesExact`: the databases of the mempool agree, and no two waiting transactions exclude each other |
| *`WalletProofs`* | |
| `WalletSoundAlways` | `Spec => []WalletSound`: with no update due the wallet offers exactly what it can spend, coins of transactions pushed or dropped behind its back excepted, and an address derived for a transaction is paid by no other |

`LoopTheorems` has what they share.  A loop of the code is a
recursive function on an interval or a `FoldLeft`.  Such a definition says only that *if*
a function satisfies the equation it is chosen; the lemmas show that one exists and that
it gives one state per step, so that what every step keeps the loop keeps.  The provers
cannot apply a lemma that quantifies over operators, so the operation of a fold and the
property it keeps are constants of `LoopTheorems`, which is instantiated once per loop.

### 4.2 The registry

*The records agree.*  None of the parts of `RecordsAgree` is inductive alone.
Connecting preserves each easily; disconnecting is the hard direction, because it
takes claims from one table by the block's transactions, from the histories by height,
and outcomes by an undo record.  For the results to agree one must know that the
transactions, the heights in the histories and the undo records *say the same thing
about every height below the tip*, not only about the last block, since each disconnect
uncovers the one beneath.  `UndoExact` is that statement.  `IInv` joins it with what
the tables satisfy together: histories of the one admissible shape (`HistoryOK`),
entries that agree with them, an outcome exactly for a history of length three, and
claimed periods that are minted.

*Disconnecting restores.*  `DisconnectRestores` compares with a past state, so the
inductive invariant `UInv` has to describe the past in terms of the present:
`FoundBy(i)` says of the state that block `i` found that its histories are today's cut
at that height (`CutAt`), its entries and outcomes those the cut histories imply, and
its prices those of the undo record.  Connecting extends histories, so that older cuts
stay cuts (`CutOfExtended`); the rollback of a disconnect is a cut (`RollbackCuts`), a
cut of a cut is one (`CutOfCut`), and there is only one at each height (`CutUnique`).
The rows of `period_decisions` and `mainchain_timestamp` are not among the restored
tables: the code does not restore them (3.2).

*Claims and prices.*  The counters of a period are restored from a snapshot, the claims
by transaction.  `AInv` therefore states the accounts (`Accounts`) of the registry *and*
of what every block found, and a disconnect, which goes from the one to the other by
`UInv`, keeps them.  That a claim's slot is unlocked is arithmetic on the tiers; that no
period holds more claims than were minted is a count of its slots.

*On time.*  A claim made after the outcomes of its voting period would never be
resolved.  `RInv` says that no standard claim comes later than an outcome of its period
(`ClaimedBefore`), which needs that the stored timestamp, against which the claim is
validated and which a disconnect leaves alone, is not far behind that of any connected
block (`ClockBounded`).  If the mainchain's clock ran back by more than a period
(`MaxDrift > Quantity`) a claim for a period already closed would be valid.

### 4.3 Tips, archive and connected chain

*Trees.*  The prover cannot induct over a chain, but `Grounded` says that every non-empty
set of blocks has one whose parent is not in it.  Applied to the set of blocks that fail
a property, it is the induction principle of `ChainsProofs`: ancestry is a linear order
below every block, heights count ancestors, work grows along a chain, and the common
ancestor is where two chains meet.  `PeersProofs` instantiates these theorems with
the trees that `TipChoice` grows; its invariant `TreeInv` (parents have smaller numbers)
makes the assumptions of `Chains` true.

*BMM results.*  A header that arrives fills in results for the mainchain blocks known
by then; a mainchain info that arrives fills in results for the headers.  `BmmInv` says
what both orders lead to: what is stored is closed under parents, no result is wrong
(`SoundBmm`), and none is missing for what is stored (`CompleteBmm`).  Soundness is about
all results, also those of invalidated headers, which stay and count again when the
header returns.

*The connected chain.*  A reorganisation disconnects and connects block by block and
stops at the first failure, so every prefix of it must leave a sound chain.  The
hypothesis excludes what breaks it (3.2): `put_body` overwrites, and a late, wrong
body replaces that of a connected block.

*Side tips.*  `SideInv` is `BmmInv`, the soundness and completeness of the two tables,
and `StreamOK`: the events still to be read are a *walk* from where the task is to
where the mainchain is.  Without the last a disconnect event could name another block
than the tip, and the tables would follow the wrong branch.  The walk covers restarts, a
closed stream, and the synchronisation that a reorganisation overtakes.

### 4.4 The two-way peg

What an undo handler gives back depends on the last two statuses of a bundle, so `PInv`
says which statuses may follow which (`Follows`, `LifeOK`).  A withdrawal is paid at most
once because the spent ones are `Divided` among the bundles that hold them; that no
handler creates an output needs that each block creates outputs no block below it
created (`ChainOK`).  None of this rests on the order in which the mainchain reports.

The exact undo does.  The undo of a block is not its inverse: a status `Pending` that
a disconnected block pushed can stay at the bottom of a bundle's stack, so equality of
the databases is not inductive.  `EInv` compares them by what the mainchain
reported of each bundle (`Live`, `Same`), and says of every connected block (`Reverts`)
that its undo, from *any* databases the same as those it left, succeeds and ends in
databases the same as those it found.  Every handler is proved to have this property
with its undo; a block has it because it is their composition in opposite orders.
Two facts about the databases carry it.  `FoundAt`: the heights of statuses
and failures are in order and not above the block, so that the undo takes off
what this block pushed and nothing older.  `Linked`: a bundle last reported as submitted
is still in flight, which comes from the mainchain's own order (`MayReport`).
The bundle a block collects is dropped again because the latest failure before its events
is not later than the one it was collected under, so the check of the failure gap passes
on the way back if it did on the way forth.

It is assumed that the mainchain reports only bundles of the connected chain or ones this
chain cannot know: with `CrossFork` the statements are false; the run `peg_fork`
shows it.

### 4.5 The mempool

`Sound` says of any pool what `IndexesExact` says of the node's, with what put and delete
rest on besides: the order holds only counters that were given out, so that the next one
is new, and the pool is finite, so that the cascade of delete ends.  put refuses an input
that is in the table of inputs; because that table is exact, a transaction it takes is
new, which keeps the order injective.  delete removes inputs and claims *by key*: it
removes no entry of another transaction because no two have a key in common, and because
the cascade (`DescendantsInPool`) never leaves the pool.  An eviction deletes at most one
transaction (`OneZombie`), so that the order of the evictions does not matter.  The loops
of connect_tip_, disconnect_tip_ and get_transactions keep `Sound` by `LoopTheorems`; a
disconnection that fails part of the way is rolled back, which is why that loop keeps
`SoundOrFailed`.  Nothing is assumed of the markets: the validation of transactions
plays no part in the argument, and a peer's transaction that is no longer valid when it
reaches the pool is covered.

### 4.6 The wallet

An update reads the node in four database transactions and writes in a fifth, and
blocks, submissions, pushes and removals come between.  `WalletExact` speaks of quiet states
only, and says nothing about any step of an update.  `UpdateFollows` does: at each step
it says what the update has read, and that this is still true of the node unless a flag
is up that makes another update follow, `notified` for the chain, a caller that has
just submitted for the pool.  What was read of the pool is true but for the outpoints
in `unseen`, which pushes and removals add to and the next read of the pool empties.
`CallerWaits` ties a caller that waits for its
own update to the transaction it submitted.  Both rest on `NodeInv`, what the node keeps:
an output is unspent or spent and not both, which needs that every output is made once,
through disconnected blocks whose transactions go back to the pool.  `FiniteWallet` is
what the sums of the coin selection need; it is why `Coins` is assumed to be a finite set
of amounts.  A derived change address is paid by no other transaction because the index it
is derived from only grows, also over a restart, and is above the voter's, 0.

### 4.7 The connections

Most handlers of `Peers` write an entry of `active_peers` or a channel and leave the
others alone, but the removals are *by address*, and the notice that a task has ended may
come after the address was taken again.  `Kept` is `EntriesMatchTasks` with the shapes of
the tables it needs; `SameBooks` says that a step changed neither the identity nor the
liveness of any connection, which settles the handlers of a connection at once and leaves
the four operations that do: connecting, removing, ending a task and closing a channel.
redial_known_peers dials in a loop, whose proof is an induction over the finite set of
names; the names and the known addresses of a case are assumed finite for it.

### 4.8 What is only model-checked

* Liveness (`MainchainFollowed`, `EventuallyExact`, `AnnouncedFetched`, `Reconnects`):
  fairness and `ENABLED` are out of the prover's reach.
* The properties of `MCMath`: they say what the algorithms of `math` compute for every
  input, which takes induction over data (sums, sorts, fixed-point logarithms).
* `SearchesExact` of the archive, likewise: the proofs of 4.3 are about what the searches
  mean, walks over parents, and the run shows that they mean it.
* `ListingsClaimable`, `NetTaskLives` and the invariants of `Markets` and `Voting`: no
  proof.
* `TemplateExact` and `AloneDisconnects` of the mempool: they compare the prices of a
  template with those of its block, which rest on the invariants of `Markets`.

## 5. Not modelled

* The gRPC client, the command line, the desktop application, integration tests, queries
  and progress reports: they keep no state of the chain.
* Serialization, QUIC and TLS; hashes and signatures are symbolic.
* Error of floating point.  Costs, votes and weights are exact fractions or fixed
  point; where the code compares with an epsilon so does the model, in its unit.  The
  singular value decomposition for several decisions is a free choice, the same for
  all nodes.
* The wallet's key tables, recovery and message encryption.
* Extra `MarketFunds` outputs; inclusions of transactions in the archive.
* One module with all subsystems in one block.  Each subsystem's effects are modelled in
  the code's order within it, and they meet in few places: resolutions settle markets
  (`Markets` takes them as its input, `Decisions` and `Voting` produce them), and
  claims, trades and transfers share inputs in the `Mempool`.

## 6. Plan

1. Proofs: the sums of `Voting` and `Markets`, by instances of `LoopTheorems`.
2. Resolution and settlement composed: `Voting` feeding `Markets` in one block.
3. Key tables and recovery of the wallet; inclusions in the archive.
