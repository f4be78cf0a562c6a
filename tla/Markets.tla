------------------------------ MODULE Markets -------------------------------
(***************************************************************************)
(* Market trading and settlement as blocks apply and revert them           *)
(* (lib/state/block.rs, lib/state/markets, lib/validation/market.rs): a    *)
(* market is created with a seed, bought from and sold to, amplified, and  *)
(* settled when its decision resolves.  A block collects what its          *)
(* transactions ask for in a StateUpdate, and applies it at the end;       *)
(* disconnecting the block recomputes or looks up what it did.             *)
(*                                                                         *)
(* The databases are the fields of one record, db; `ok' becomes FALSE      *)
(* where the code returns an error, which aborts the LMDB transaction of   *)
(* the block.  A transaction is its own txid.  An address is a number, so  *)
(* that addresses are ordered as the keys of the database are.             *)
(***************************************************************************)
EXTENDS MarketMath, FiniteSets, FiniteSetsExt

CONSTANTS
    MarketIds,      \* the markets that can be created
    Addresses,      \* traders, authors and miners: numbers
    Author,         \* creator of the markets and of their decisions
    Miner,          \* address of the coinbase
    NumOutcomes,    \* outcomes of a market
    Kind,           \* kind of its decision: binary, scaled or categorical
    Cost(_, _),     \* LMSR cost of shares at a liquidity base, in 1/Scale sats
    Coins,          \* outputs that exist at first: records of address and sats
    Orders,         \* transactions, without their inputs
    Results,        \* what consensus may find: outcome and correct voters
    MaxShares, MaxBase, \* bounds on the shares of an outcome and the base
    Scopes,         \* bounds on a behaviour: see Scope
    None

Outcomes == 1..NumOutcomes

(* blocks of the chain, transactions per block, blocks disconnected, and    *)
(* the orders that occur                                                    *)
Scope == [height : Nat, txs : Nat, disconnects : Nat, orders : SUBSET Orders]

(* What the proofs and the settlement need of the cost function: it is at  *)
(* most the base when nobody holds a share, at least what any outcome      *)
(* redeems, grows with the shares, and an amplification raises it by no    *)
(* more than the amount paid in.                                           *)
ASSUME CostAssumption ==
    \A q \in [Outcomes -> 0..MaxShares], b \in 1..MaxBase :
        /\ Cost(q, b) \in Nat
        /\ (\A o \in Outcomes : q[o] = 0) => Cost(q, b) =< Scale * b
        /\ \A o \in Outcomes : Cost(q, b) >= Scale * q[o]
        /\ \A o \in Outcomes : q[o] > 0 => Cost([q EXCEPT ![o] = @ - 1], b) =< Cost(q, b)
        /\ b > 1 => Cost(q, b) =< Cost(q, b - 1) + Scale

ASSUME MarketsAssumption ==
    /\ Addresses \subseteq Nat /\ {Author, Miner} \subseteq Addresses
    /\ NumOutcomes \in Nat \ {0, 1}
    /\ Scopes \subseteq Scope

VARIABLES
    blocks,         \* connected blocks: transactions, coinbase, resolutions
    db,             \* the databases
    before,         \* history variable: db before each connected block
    scope           \* the bounds, with the number of disconnects left

vars == <<blocks, db, before, scope>>

SumOf(f(_), S) == MapThenSumSet(f, S)

Fail(d) == [d EXCEPT !.ok = FALSE]

(* An error of the code ends the sequence of its calls.                     *)
Then(d, Op(_)) == IF d.ok THEN Op(d) ELSE d

-----------------------------------------------------------------------------
(* Outputs.  Every kind of outpoint that block.rs and payouts.rs derive.    *)

Regular(tx, vout) == [kind |-> "Regular", tx |-> tx, vout |-> vout]
Coinbase(height) == [kind |-> "Coinbase", height |-> height]
MarketFunds(m, height, isFee) ==
    [kind |-> "MarketFunds", market |-> m, height |-> height, fee |-> isFee]
SellPayout(tx) == [kind |-> "SellPayout", tx |-> tx]
BuyChange(tx) == [kind |-> "BuyChange", tx |-> tx]
SellInputChange(tx) == [kind |-> "SellInputChange", tx |-> tx]
SharePayout(m, address, height, seq) ==
    [kind |-> "SharePayout", market |-> m, address |-> address,
     height |-> height, seq |-> seq]

(* An output belongs to an address, or is the funds of a market.            *)
Owned(out, address, sats) == [out |-> out, owner |-> address, sats |-> sats, funds |-> None]
Funds(out, m, sats) == [out |-> out, owner |-> 0, sats |-> sats, funds |-> m]

Utxo(d, out) == {u \in d.utxos : u.out = out}

ValueOf(outputs) == SumOf(LAMBDA u : u.sats, outputs)

Delete(d, outs) == [d EXCEPT !.utxos = {u \in @ : u.out \notin outs}]

Insert(d, outputs) ==
    LET kept == Delete(d, {u.out : u \in outputs})
    IN  [kept EXCEPT !.utxos = @ \cup outputs]

-----------------------------------------------------------------------------
(* Databases and the update a block collects.                               *)

MarketStates == {"Trading", "Cancelled", "Invalid", "Settled"}

NoShares == [o \in Outcomes |-> 0]

NoMarket == [state |-> "None", shares |-> NoShares, base |-> 0, volume |-> NoShares]

NoPosition == [a \in Addresses, m \in MarketIds, o \in Outcomes |-> 0]

NoUndo == [h \in {} |-> <<>>]

EmptyDb ==
    [ok |-> TRUE,
     utxos |-> {Owned([kind |-> "Deposit", coin |-> c], c.address, c.sats) : c \in Coins},
     stxos |-> {},
     markets |-> [m \in MarketIds |-> NoMarket],
     state_index |-> [s \in MarketStates |-> <<>>],
     accounts |-> NoPosition,
     pointers |-> [m \in MarketIds, isFee \in BOOLEAN |-> None],
     outcome |-> [m \in MarketIds |-> None],
     consolidation_undo |-> NoUndo, settlement_undo |-> NoUndo, skipped_undo |-> NoUndo]

(* The index of markets by state, which settlement reads, is written        *)
(* separately from the markets.  The indexes by expiry and by decision are  *)
(* read by nothing in the block path and are left out.                      *)
UpdateStateIndex(d, m, old, new) ==
    LET left == [s \in MarketStates |->
                    IF s = old THEN SelectSeq(d.state_index[s], LAMBDA n : n # m)
                    ELSE d.state_index[s]]
    IN  [d EXCEPT !.state_index =
            [s \in MarketStates |->
                IF s = new /\ m \notin ToSet(left[s]) THEN Append(left[s], m) ELSE left[s]]]

AddMarket(d, m, market) ==
    UpdateStateIndex([d EXCEPT !.markets[m] = market], m, "None", market.state)

(* The pointers to its funds go with a market.                              *)
DeleteMarket(d, m) ==
    LET old == d.markets[m].state
    IN  IF old = "None" THEN d
        ELSE UpdateStateIndex([d EXCEPT !.markets[m] = NoMarket,
                                        !.pointers[<<m, FALSE>>] = None,
                                        !.pointers[<<m, TRUE>>] = None],
                              m, old, "None")

CanTransitionTo(old, new) ==
    \/ old = new
    \/ old = "Trading" /\ new \in {"Cancelled", "Invalid", "Settled"}
    \/ old = "Invalid" /\ new = "Settled"

WriteMarketAndIndexes(d, m, market) ==
    LET old == d.markets[m].state
        put == [d EXCEPT !.markets[m] = market]
    IN  IF old \in {"None", market.state} THEN put
        ELSE UpdateStateIndex(put, m, old, market.state)

(* Deviation: the index keeps the old state.                                *)
UpdateMarketOnly(d, m, market) == [d EXCEPT !.markets[m] = market]

UpdateMarket(d, m, market) ==
    IF d.markets[m].state # "None" /\ ~CanTransitionTo(d.markets[m].state, market.state)
    THEN Fail(d)
    ELSE WriteMarketAndIndexes(d, m, market)

(* Settled to Trading is legal in undo only.                                *)
RestoreMarket(d, m, market) == WriteMarketAndIndexes(d, m, market)

PutKey(f, k, v) == [x \in DOMAIN f \cup {k} |-> IF x = k THEN v ELSE f[x]]
DeleteKey(f, k) == [x \in DOMAIN f \ {k} |-> f[x]]

EmptyUpdate ==
    [trades |-> <<>>, creations |-> <<>>, buys |-> <<>>, sells |-> <<>>, skipped |-> {}]

Traded(upd) == {upd.trades[i].tx.market : i \in DOMAIN upd.trades}

(* The net change of a position by the trades of the block.                 *)
NetDelta(trades, a, m, o) ==
    SumSeq([i \in DOMAIN trades |->
               IF trades[i].tx.who = a /\ trades[i].tx.market = m /\ trades[i].tx.outcome = o
               THEN trades[i].tx.shares ELSE 0])

-----------------------------------------------------------------------------
(* Validation before the block is applied: validate_market_creation,        *)
(* validate_trade and validate_amplify_beta, against the state of the       *)
(* previous block.  An order carries the address that signs for its input.  *)

InputOf(d, tx) == CHOOSE u \in d.utxos : u.out = tx.input

ValidateMarketCreation(d, tx) == tx.shares > 0 /\ InputOf(d, tx).sats >= tx.shares + MinerFee

ValidateBuy(d, tx) == tx.limit > 0 /\ InputOf(d, tx).sats >= tx.limit

ValidateSell(d, tx) ==
    /\ InputOf(d, tx).owner = tx.who
    /\ d.accounts[tx.who, tx.market, tx.outcome] >= -tx.shares
    /\ InputOf(d, tx).sats >= MinerFee

(* The recent block that a trade refers to is taken to be on the chain, and *)
(* its proof of work, if the market asks for one, to be good: see TxPow.    *)
ValidateTrade(d, tx) ==
    /\ d.markets[tx.market].state = "Trading"
    /\ tx.outcome \in Outcomes /\ tx.shares # 0
    /\ IF tx.shares > 0 THEN ValidateBuy(d, tx) ELSE ValidateSell(d, tx)

ValidateAmplifyBeta(d, tx) ==
    /\ tx.shares > 0
    /\ d.markets[tx.market].state = "Trading"
    /\ tx.who = Author /\ InputOf(d, tx).owner = Author
    /\ InputOf(d, tx).sats >= tx.shares + MinerFee

ValidateTransaction(d, tx) ==
    /\ Utxo(d, tx.input) # {}
    /\ CASE tx.kind = "create"  -> ValidateMarketCreation(d, tx)
         [] tx.kind = "trade"   -> ValidateTrade(d, tx)
         [] tx.kind = "amplify" -> ValidateAmplifyBeta(d, tx)

Prevalidate(d, txs) ==
    /\ \A i \in DOMAIN txs : ValidateTransaction(d, txs[i])
    /\ \A i, j \in DOMAIN txs : txs[i].input = txs[j].input => i = j

-----------------------------------------------------------------------------
(* Applying transactions to the update.  A step is [db, upd].               *)

Amplified(upd, m) ==
    SumSeq([i \in DOMAIN upd.buys |->
               IF upd.buys[i].tx.kind = "amplify" /\ upd.buys[i].tx.market = m
               THEN upd.buys[i].cost ELSE 0])

(* running_market_state: the trades already applied in this block count.    *)
RunningShares(d, upd, m) ==
    [o \in Outcomes |->
        d.markets[m].shares[o]
            + SumSeq([i \in DOMAIN upd.trades |->
                         IF upd.trades[i].tx.market = m /\ upd.trades[i].tx.outcome = o
                         THEN upd.trades[i].tx.shares ELSE 0])]

RunningBase(d, upd, m) == d.markets[m].base + Amplified(upd, m)

Skip(step, idx) == [step EXCEPT !.upd.skipped = @ \cup {idx}]

(* A buy above its limit and a sell below it are skipped; everything else   *)
(* that is wrong with a trade is an error of the block.                     *)
ApplyBuy(step, tx, idx, change) ==
    LET buy == BuyCost(change)
    IN  IF buy.total + MinerFee > tx.limit THEN Skip(step, idx)
        ELSE [step EXCEPT
                !.upd.buys = Append(@, [tx |-> tx, input |-> InputOf(step.db, tx).sats,
                                        cost |-> buy.base, fee |-> buy.fee]),
                !.upd.trades = Append(@, [tx |-> tx, volume |-> buy.total])]

(* Shares bought or sold earlier in the block count.                        *)
ApplySell(step, tx, idx, change) ==
    LET sell == SellProceeds(-change)
        owned == step.db.accounts[tx.who, tx.market, tx.outcome]
                    + NetDelta(step.upd.trades, tx.who, tx.market, tx.outcome)
    IN  IF owned < -tx.shares \/ ~sell.ok THEN [step EXCEPT !.db.ok = FALSE]
        ELSE IF sell.net < tx.limit THEN Skip(step, idx)
        ELSE [step EXCEPT
                !.upd.sells = Append(@, [tx |-> tx, payout |-> sell.net, fee |-> sell.fee,
                                         change |-> InputOf(step.db, tx).sats - MinerFee]),
                !.upd.trades = Append(@, [tx |-> tx, volume |-> sell.net])]

ApplyTrade(step, tx, idx) ==
    LET base == RunningBase(step.db, step.upd, tx.market)
        now  == RunningShares(step.db, step.upd, tx.market)
        then == [now EXCEPT ![tx.outcome] = @ + tx.shares]
        change == Cost(then, base) - Cost(now, base)
    IN  IF step.db.markets[tx.market].state # "Trading" \/ then[tx.outcome] < 0
        THEN [step EXCEPT !.db.ok = FALSE]
        ELSE IF tx.shares > 0 THEN ApplyBuy(step, tx, idx, change)
        ELSE ApplySell(step, tx, idx, change)

(* The treasury pointer is set now, the market is added with the update.    *)
ApplyMarketCreation(step, tx) ==
    [step EXCEPT
        !.db.pointers[<<tx.market, FALSE>>] = Regular(tx, 0),
        !.upd.creations = Append(@, [market |-> tx.market, seed |-> tx.shares])]

ApplyAmplifyBeta(step, tx) ==
    [step EXCEPT
        !.upd.buys = Append(@, [tx |-> tx, input |-> InputOf(step.db, tx).sats,
                                cost |-> tx.shares, fee |-> 0])]

ApplyTransaction(step, tx, idx) ==
    CASE ~step.db.ok          -> step
      [] tx.kind = "trade"    -> ApplyTrade(step, tx, idx)
      [] tx.kind = "create"   -> ApplyMarketCreation(step, tx)
      [] tx.kind = "amplify"  -> ApplyAmplifyBeta(step, tx)

ApplyTransactions(d, txs) ==
    FoldLeft(LAMBDA step, i : ApplyTransaction(step, txs[i], i),
             [db |-> d, upd |-> EmptyUpdate], [i \in DOMAIN txs |-> i])

(* validate_all_changes: a market is created once, and is not traded in the *)
(* block that creates it.                                                   *)
ValidateAllChanges(d, upd) ==
    LET created == {upd.creations[i].market : i \in DOMAIN upd.creations}
    IN  /\ Cardinality(created) = Len(upd.creations)
        /\ created \cap Traded(upd) = {}
        /\ \A m \in Traded(upd) : d.markets[m].state # "None"
        /\ \A m \in created : d.markets[m].state = "None"

(* validate_fees: every transaction pays the miner fee, the skipped ones    *)
(* nothing.                                                                 *)
Fees(txs, skipped) == MinerFee * Cardinality(DOMAIN txs \ skipped)

(* apply_utxo_changes: a creation pays the seed to the market and the rest  *)
(* back to its author; trades and amplifications have no outputs.           *)
OutputsOf(d, tx) ==
    LET change == InputOf(d, tx).sats - tx.shares - MinerFee
    IN  IF tx.kind # "create" THEN {}
        ELSE {Funds(Regular(tx, 0), tx.market, tx.shares),
              Owned(Regular(tx, 1), tx.who, change)}

ApplyUtxoChanges(d, tx) ==
    IF Utxo(d, tx.input) = {} THEN Fail(d)
    ELSE Insert([Delete(d, {tx.input}) EXCEPT !.stxos = @ \cup Utxo(d, tx.input)],
                OutputsOf(d, tx))

-----------------------------------------------------------------------------
(* apply_all_changes.                                                       *)

AddMarkets(d, creations) ==
    FoldLeft(LAMBDA x, c : AddMarket(x, c.market, [NoMarket EXCEPT !.state = "Trading",
                                                                   !.base = c.seed]),
             d, creations)

(* The shares, the volume and the base of the markets that were traded or   *)
(* amplified.                                                               *)
UpdateMarkets(d, upd) ==
    [d EXCEPT !.markets = [m \in MarketIds |->
        [@[m] EXCEPT
            !.shares = RunningShares(d, upd, m),
            !.base = RunningBase(d, upd, m),
            !.volume = [o \in Outcomes |->
                @[o] + SumSeq([i \in DOMAIN upd.trades |->
                                  IF upd.trades[i].tx.market = m /\ upd.trades[i].tx.outcome = o
                                  THEN upd.trades[i].volume ELSE 0])]]]]

(* add_shares_to_account and remove_shares_from_account, of net changes: a  *)
(* function of address, market and outcome.                                 *)
ChangeAccounts(d, delta) ==
    IF \E k \in DOMAIN d.accounts : d.accounts[k] + delta[k] < 0 THEN Fail(d)
    ELSE [d EXCEPT !.accounts = [k \in DOMAIN @ |-> @[k] + delta[k]]]

NetDeltas(trades) ==
    [a \in Addresses, m \in MarketIds, o \in Outcomes |-> NetDelta(trades, a, m, o)]

Negated(delta) == [k \in DOMAIN delta |-> -delta[k]]

HeldShares(d, m, o) == SumOf(LAMBDA a : d.accounts[a, m, o], Addresses)

VerifyShareInvariant(d, m) ==
    \A o \in Outcomes : d.markets[m].shares[o] = HeldShares(d, m, o)

(* The funds of a market: the output its pointer names, if it exists.       *)
FundsUtxo(d, m, isFee) ==
    IF d.pointers[m, isFee] = None THEN {} ELSE Utxo(d, d.pointers[m, isFee])

SetFunds(d, m, isFee, out, sats) ==
    [Insert(d, {Funds(out, m, sats)}) EXCEPT !.pointers[<<m, isFee>>] = out]

ClearFunds(d, m, isFee) ==
    [Delete(d, {u.out : u \in FundsUtxo(d, m, isFee)}) EXCEPT !.pointers[<<m, isFee>>] = None]

Of(entries, m) == SelectSeq(entries, LAMBDA e : e.tx.market = m)

Entries(s) == {s[i] : i \in DOMAIN s}

Change(buy) == buy.input - MinerFee - buy.cost - buy.fee

SellOutputs(sells) ==
    {Owned(SellPayout(s.tx), s.tx.who, s.payout) : s \in Entries(sells)}
BuyOutputs(buys) ==
    {Owned(BuyChange(b.tx), b.tx.who, Change(b)) : b \in {x \in Entries(buys) : Change(x) > 0}}

(* Deviation: the fee of a sale is not taken out of the treasury.           *)
SellGrossWithoutFee(sells) == SumSeq([i \in DOMAIN sells |-> sells[i].payout])

SellGross(sells) == SumSeq([i \in DOMAIN sells |-> sells[i].payout + sells[i].fee])

(* consolidate_market_utxos for one market: buyers' cost and sellers'       *)
(* proceeds meet the treasury in one new output, the fees in another.  The  *)
(* undo entry names the outputs and the pointers before and after.          *)
ConsolidateMarket(d, m, upd, height) ==
    LET buys == Of(upd.buys, m)
        sells == Of(upd.sells, m)
        treasury == ValueOf(FundsUtxo(d, m, FALSE)) + SumSeq([i \in DOMAIN buys |-> buys[i].cost])
        fees == ValueOf(FundsUtxo(d, m, TRUE)) + SumSeq([i \in DOMAIN buys |-> buys[i].fee])
                    + SumSeq([i \in DOMAIN sells |-> sells[i].fee])
        left == treasury - SellGross(sells)
        paid == IF treasury = 0 /\ sells = <<>> THEN d
                ELSE Insert(ClearFunds(d, m, FALSE), SellOutputs(sells) \cup BuyOutputs(buys))
        kept == IF left = 0 THEN paid
                ELSE SetFunds(paid, m, FALSE, MarketFunds(m, height, FALSE), left)
        done == IF fees = 0 THEN kept
                ELSE SetFunds(ClearFunds(kept, m, TRUE), m, TRUE, MarketFunds(m, height, TRUE), fees)
        entry == [market |-> m,
                  old |-> FundsUtxo(d, m, FALSE) \cup FundsUtxo(d, m, TRUE),
                  treasury_pointer |-> d.pointers[m, FALSE],
                  fee_pointer |-> d.pointers[m, TRUE],
                  new |-> {MarketFunds(m, height, FALSE) : x \in IF left > 0 THEN {1} ELSE {}}
                            \cup {MarketFunds(m, height, TRUE) : x \in IF fees > 0 THEN {1} ELSE {}}
                            \cup {u.out : u \in SellOutputs(sells) \cup BuyOutputs(buys)}]
    IN  IF left < 0 \/ \E b \in Entries(buys) : Change(b) < 0
        THEN [db |-> Fail(d), entries |-> <<>>]
        ELSE [db |-> done, entries |-> <<entry>>]

InputChanges(sells) ==
    {Owned(SellInputChange(s.tx), s.tx.who, s.change) : s \in {x \in Entries(sells) : x.change > 0}}

WithEntries(acc, one) == [db |-> one.db, entries |-> acc.entries \o one.entries]

WithConsolidationUndo(merged, changes, height) ==
    IF ~merged.db.ok THEN merged.db
    ELSE [Insert(merged.db, changes) EXCEPT
            !.consolidation_undo =
                PutKey(@, height, [entries |-> merged.entries, changes |-> {u.out : u \in changes}])]

ConsolidateMarketUtxos(d, upd, height) ==
    LET markets == SetToSeq({e.tx.market : e \in Entries(upd.buys) \cup Entries(upd.sells)})
        merged == FoldLeft(
                    LAMBDA acc, m :
                        IF acc.db.ok THEN WithEntries(acc, ConsolidateMarket(acc.db, m, upd, height))
                        ELSE acc,
                    [db |-> d, entries |-> <<>>], markets)
    IN  IF markets = <<>> THEN d ELSE WithConsolidationUndo(merged, InputChanges(upd.sells), height)

ApplyAllChanges(d, upd, height) ==
    LET updated == UpdateMarkets(AddMarkets(d, upd.creations), upd)
        credited == ChangeAccounts(updated, NetDeltas(upd.trades))
    IN  IF ~credited.ok \/ \E m \in Traded(upd) : ~VerifyShareInvariant(credited, m)
        THEN Fail(d)
        ELSE ConsolidateMarketUtxos(credited, upd, height)

-----------------------------------------------------------------------------
(* Settlement: transition_and_payout_resolved_markets.                      *)

(* The positions of a market in the order of the database.                  *)
Positions(d, m, prices) ==
    LET held == {p \in Addresses \X Outcomes : d.accounts[p[1], m, p[2]] > 0}
        order == SetToSortSeq(held, LAMBDA p, q : p[1] < q[1] \/ (p[1] = q[1] /\ p[2] < q[2]))
    IN  [i \in DOMAIN order |->
            [address |-> order[i][1], outcome |-> order[i][2],
             shares |-> d.accounts[order[i][1], m, order[i][2]],
             price |-> prices[order[i][2]]]]

(* The payouts of a market: one record per position, with those of nothing, *)
(* then the fees, then what is left of the treasury, to its author.         *)
Summary(positions, paid, fees, treasury, found) ==
    LET refund == treasury - SumSeq(paid)
    IN  [ok |-> refund >= 0 /\ found,
         positions |-> positions,
         payouts |-> [i \in DOMAIN paid |-> [key |-> positions[i].address, amount |-> paid[i]]]
                        \o fees
                        \o (IF refund > 0 THEN <<[key |-> Author, amount |-> refund]>> ELSE <<>>)]

PayoutSummary(d, m) ==
    LET result == d.outcome[m]
        prices == FinalPrices(Kind, result.outcome, NumOutcomes)
        positions == Positions(d, m, prices)
        treasury == ValueOf(FundsUtxo(d, m, FALSE))
        fees == FeeDistribution(ValueOf(FundsUtxo(d, m, TRUE)), result.voters, Author, Author)
        found == \A isFee \in BOOLEAN :
                    d.pointers[m, isFee] # None => FundsUtxo(d, m, isFee) # {}
    IN  Summary(positions, SharePayouts(positions, SumSeq(prices), treasury), fees, treasury, found)

(* Positions worth nothing get no output; fees and refund always do.        *)
PayoutOutputs(m, positions, payouts, height) ==
    {Owned(SharePayout(m, payouts[i].key, height, i), payouts[i].key, payouts[i].amount) :
        i \in {j \in DOMAIN payouts : j > Len(positions) \/ payouts[j].amount > 0}}

(* The shares of the positions that a settlement pays out.                  *)
Redeemed(m, positions) ==
    [a \in Addresses, n \in MarketIds, o \in Outcomes |->
        IF n = m
        THEN SumSeq([i \in DOMAIN positions |->
                        IF positions[i].address = a /\ positions[i].outcome = o
                        THEN positions[i].shares ELSE 0])
        ELSE 0]

WithSettlement(d, m, summary, height) ==
    LET redeemed == ChangeAccounts(d, Negated(Redeemed(m, summary.positions)))
        paid == Insert(redeemed, PayoutOutputs(m, summary.positions, summary.payouts, height))
        entry == [market |-> m, pre_settlement |-> d.markets[m], positions |-> summary.positions,
                  payouts |-> summary.payouts,
                  treasury |-> FundsUtxo(d, m, FALSE), fees |-> FundsUtxo(d, m, TRUE)]
        undo == IF height \in DOMAIN d.settlement_undo THEN d.settlement_undo[height] ELSE <<>>
    IN  IF ~summary.ok \/ ~redeemed.ok THEN Fail(d)
        ELSE [UpdateMarket(ClearFunds(ClearFunds(paid, m, FALSE), m, TRUE), m,
                           [d.markets[m] EXCEPT !.state = "Settled"]) EXCEPT
                !.settlement_undo = PutKey(@, height, Append(undo, entry))]

SettleMarket(d, m, height) == WithSettlement(d, m, PayoutSummary(d, m), height)

MarketsByState(d, s) == SelectSeq(d.state_index[s], LAMBDA m : d.markets[m].state # "None")

(* Consensus results of the block are recorded first.                       *)
SettleResolved(d, resolutions, height) ==
    LET resolved == [d EXCEPT !.outcome = [m \in MarketIds |->
                        IF m \in DOMAIN resolutions THEN resolutions[m] ELSE @[m]]]
        ready == SelectSeq(MarketsByState(d, "Trading"), LAMBDA m : resolved.outcome[m] # None)
    IN  FoldLeft(LAMBDA x, m : IF x.ok THEN SettleMarket(x, m, height) ELSE x, resolved, ready)

-----------------------------------------------------------------------------
(* connect_prevalidated.                                                    *)
MoveUtxos(d, txs, skipped) ==
    FoldLeft(LAMBDA x, i : IF x.ok THEN ApplyUtxoChanges(x, txs[i]) ELSE x, d,
             SelectSeq([i \in DOMAIN txs |-> i], LAMBDA i : i \notin skipped))

WithSkippedUndo(d, skipped, height) ==
    IF skipped = {} THEN d ELSE [d EXCEPT !.skipped_undo = PutKey(@, height, skipped)]

(* The block from where its transactions have been applied.                 *)
Finished(step, txs, coinbase, resolutions, height) ==
    IF \/ ~step.db.ok \/ ~ValidateAllChanges(step.db, step.upd)
       \/ coinbase > Fees(txs, step.upd.skipped)
    THEN Fail(step.db)
    ELSE Then(MoveUtxos(step.db, txs, step.upd.skipped), LAMBDA moved :
         Then(ApplyAllChanges(moved, step.upd, height), LAMBDA changed :
         Then(SettleResolved(changed, resolutions, height), LAMBDA settled :
              WithSkippedUndo(settled, step.upd.skipped, height))))

Connected(d, txs, coinbase, resolutions, height) ==
    LET paid == IF coinbase = 0 THEN d
                ELSE Insert(d, {Owned(Coinbase(height), Miner, coinbase)})
    IN  Finished(ApplyTransactions(paid, txs), txs, coinbase, resolutions, height)

-----------------------------------------------------------------------------
(* disconnect_tip.                                                          *)

(* revert_automatic_share_payouts: payouts are deleted, shares given back.  *)
RevertPayouts(d, entry, height) ==
    LET outs == {u.out : u \in PayoutOutputs(entry.market, entry.positions, entry.payouts, height)}
    IN  ChangeAccounts(Delete(d, outs), Redeemed(entry.market, entry.positions))

(* revert_settlement: then the funds and the market are restored.           *)
RevertSettlement(d, entry, height) ==
    LET m == entry.market
        given == RevertPayouts(d, entry, height)
        Point(x, isFee, outputs) ==
            IF outputs = {} THEN x
            ELSE [Insert(x, outputs) EXCEPT
                    !.pointers[<<m, isFee>>] = (CHOOSE u \in outputs : TRUE).out]
    IN  RestoreMarket(Point(Point(given, FALSE, entry.treasury), TRUE, entry.fees),
                      m, entry.pre_settlement)

RevertSettlements(d, height) ==
    IF height \notin DOMAIN d.settlement_undo THEN d
    ELSE [FoldLeft(LAMBDA x, e : RevertSettlement(x, e, height), d,
                   Reverse(d.settlement_undo[height]))
            EXCEPT !.settlement_undo = DeleteKey(@, height)]

(* Deviation: the outcome of the decision outlives the block.               *)
RevertConsensusKeeps(d, resolutions) == d

(* revert_consensus, as far as markets see it.                              *)
RevertConsensus(d, resolutions) ==
    [d EXCEPT !.outcome = [m \in MarketIds |-> IF m \in DOMAIN resolutions THEN None ELSE @[m]]]

RevertConsolidation(d, height) ==
    IF height \notin DOMAIN d.consolidation_undo THEN d
    ELSE [FoldLeft(LAMBDA x, e :
                       [Insert(Delete(x, e.new), e.old) EXCEPT
                            !.pointers[<<e.market, FALSE>>] = e.treasury_pointer,
                            !.pointers[<<e.market, TRUE>>] = e.fee_pointer],
                   Delete(d, d.consolidation_undo[height].changes),
                   Reverse(d.consolidation_undo[height].entries))
            EXCEPT !.consolidation_undo = DeleteKey(@, height)]

(* revert_trade_market_state: the cost of the trade is computed again, for  *)
(* the volume: a buy's total, a sale's gross proceeds.                      *)
RevertTrade(d, tx) ==
    LET market == d.markets[tx.market]
        now == market.shares
        old == [now EXCEPT ![tx.outcome] = @ - tx.shares]
        buy == BuyCost(Cost(now, market.base) - Cost(old, market.base))
        sell == SellProceeds(Cost(old, market.base) - Cost(now, market.base))
        amount == IF tx.shares > 0 THEN buy.total ELSE sell.gross
    IN  IF market.state = "None" \/ (tx.shares < 0 /\ ~sell.ok) THEN Fail(d)
        ELSE [Delete(d, {BuyChange(tx), SellPayout(tx), SellInputChange(tx)}) EXCEPT
                !.markets[tx.market].shares = old,
                !.markets[tx.market].volume[tx.outcome] = LargerOf(@ - amount, 0)]

RevertCreateMarket(d, tx) == DeleteMarket(d, tx.market)

RevertAmplifyBeta(d, tx) ==
    IF d.markets[tx.market].state = "None" \/ d.markets[tx.market].base < tx.shares THEN Fail(d)
    ELSE [d EXCEPT !.markets[tx.market].base = @ - tx.shares]

(* The transaction's outputs are deleted and its input is unspent.          *)
RevertTransaction(d, tx) ==
    LET data == CASE tx.kind = "trade" -> RevertTrade(d, tx)
                  [] tx.kind = "create" -> RevertCreateMarket(d, tx)
                  [] tx.kind = "amplify" -> RevertAmplifyBeta(d, tx)
        outs == IF tx.kind = "create" THEN {Regular(tx, 0), Regular(tx, 1)} ELSE {}
        spent == {s \in d.stxos : s.out = tx.input}
    IN  IF \/ ~data.ok \/ spent = {} \/ \E out \in outs : Utxo(data, out) = {}
        THEN Fail(d)
        ELSE [Insert(Delete(data, outs), spent) EXCEPT !.stxos = @ \ spent]

SkippedAt(d, height) == IF height \in DOMAIN d.skipped_undo THEN d.skipped_undo[height] ELSE {}

Applied(d, block, height) ==
    SelectSeq([i \in DOMAIN block.txs |-> i], LAMBDA i : i \notin SkippedAt(d, height))

Disconnected(d, block, height) ==
    LET kept == Applied(d, block, height)
        trades == SelectSeq([i \in DOMAIN kept |-> [tx |-> block.txs[kept[i]]]],
                            LAMBDA t : t.tx.kind = "trade")
        funds == RevertConsolidation(
                    RevertConsensus(RevertSettlements(d, height), block.resolutions), height)
        undone == FoldLeft(LAMBDA x, i : IF x.ok THEN RevertTransaction(x, block.txs[i]) ELSE x,
                           funds, Reverse(kept))
    IN  Then(undone, LAMBDA x :
        Then(ChangeAccounts(x, Negated(NetDeltas(trades))), LAMBDA given :
             IF block.coinbase > 0 /\ Utxo(given, Coinbase(height)) = {} THEN Fail(given)
             ELSE [Delete(given, {Coinbase(height)}) EXCEPT
                     !.skipped_undo = DeleteKey(@, height)]))

-----------------------------------------------------------------------------
Init ==
    /\ blocks = <<>>
    /\ db = EmptyDb
    /\ before = <<>>
    /\ scope \in Scopes

(* An order with an output of its signer to spend.                          *)
TxsOf(order, d) ==
    {[kind |-> order.kind, market |-> order.market, who |-> order.who, outcome |-> order.outcome,
      shares |-> order.shares, limit |-> order.limit, input |-> u.out] :
        u \in {x \in d.utxos : x.funds = None /\ x.owner = order.who}}

Transactions(d) == UNION {TxsOf(order, d) : order \in scope.orders}

WithinBounds(d) ==
    \A m \in MarketIds :
        d.markets[m].base =< MaxBase /\ \A o \in Outcomes : d.markets[m].shares[o] =< MaxShares

ConnectBlock(txs, coinbase, resolutions) ==
    /\ Len(blocks) < scope.height
    /\ Prevalidate(db, txs)
    /\ \E after \in {Connected(db, txs, coinbase, resolutions, Len(blocks))} :
        /\ after.ok
        /\ WithinBounds(after)
        /\ db' = after
        /\ blocks' = Append(blocks, [txs |-> txs, coinbase |-> coinbase,
                                     resolutions |-> resolutions])
        /\ before' = Append(before, db)
        /\ UNCHANGED scope

DisconnectTip ==
    /\ blocks # <<>>
    /\ scope.disconnects > 0
    /\ \E after \in {Disconnected(db, Last(blocks), Len(blocks) - 1)} :
        /\ after.ok
        /\ scope' = [scope EXCEPT !.disconnects = @ - 1]
        /\ db' = after
        /\ blocks' = Front(blocks)
        /\ before' = Front(before)

(* A decision is resolved once; a miner claims all the fees or none.        *)
Next ==
    \/ \E n \in 0..scope.txs :
         \E txs \in [1..n -> Transactions(db)],
            resolved \in SUBSET {m \in MarketIds : db.outcome[m] = None} :
           \E resolutions \in [resolved -> Results], claim \in {0, n} :
             ConnectBlock(txs, MinerFee * claim, resolutions)
    \/ DisconnectTip

Spec == Init /\ [][Next]_vars

-----------------------------------------------------------------------------
(* Properties.                                                              *)

Trading(m) == db.markets[m].state = "Trading"

Treasury(m) == ValueOf(FundsUtxo(db, m, FALSE))

SharesHeld ==
    \A m \in MarketIds, o \in Outcomes :
        HeldShares(db, m, o) = IF Trading(m) THEN db.markets[m].shares[o] ELSE 0

FundsPointed ==
    \A m \in MarketIds :
        /\ {u \in db.utxos : u.funds = m}
              = FundsUtxo(db, m, FALSE) \cup FundsUtxo(db, m, TRUE)
        /\ \A isFee \in BOOLEAN : db.pointers[m, isFee] # None => FundsUtxo(db, m, isFee) # {}
        /\ Trading(m) <=> FundsUtxo(db, m, FALSE) # {}

StatesIndexed ==
    \A s \in MarketStates :
        /\ ToSet(db.state_index[s]) = {m \in MarketIds : db.markets[m].state = s}
        /\ Len(db.state_index[s]) = Cardinality(ToSet(db.state_index[s]))

(* The records of a market agree with one another, whichever code wrote     *)
(* them last, connecting or disconnecting.  A trading market has issued the *)
(* shares its traders hold, and nobody holds shares of another (SharesHeld: *)
(* market.shares and share_accounts).  Its funds are the outputs its two    *)
(* pointers name and no other, and no pointer names an output that is gone  *)
(* (FundsPointed: get_market_funds_sats would fail in every block from then *)
(* on).  The index that settlement reads names every market once, under its *)
(* state (StatesIndexed: a market that it misses is never paid out).        *)
BooksAgree == SharesHeld /\ FundsPointed /\ StatesIndexed

Unclaimed ==
    SumSeq([i \in DOMAIN blocks |-> Fees(blocks[i].txs, SkippedAt(db, i - 1)) - blocks[i].coinbase])

(* No sat is created or lost by trading, by rounding, by a payout, by a fee *)
(* or by undoing any of them: what the outputs hold, with the fees that no  *)
(* miner claimed, is what the chain began with.                             *)
Conserved == ValueOf(db.utxos) + Unclaimed = SumOf(LAMBDA c : c.sats, Coins)

(* The treasury of a trading market covers its cost function, whatever was  *)
(* bought, sold and amplified in whichever order.                           *)
Solvent(m) == Scale * Treasury(m) >= Cost(db.markets[m].shares, db.markets[m].base)

(* Whatever consensus finds, a trading market can be settled: its treasury  *)
(* covers its cost function, and no payout, rounded, exceeds the treasury,  *)
(* which would be an error of every block from then on.                     *)
Settleable ==
    \A m \in MarketIds :
        Trading(m) => /\ Solvent(m)
                      /\ \A r \in Results :
                            SettleResolved(db, [n \in {m} |-> r], Len(blocks)).ok

WithoutVolume(d) ==
    [d EXCEPT !.markets = [m \in MarketIds |-> [@[m] EXCEPT !.volume = NoShares]],
              !.state_index = [s \in MarketStates |-> ToSet(@[s])]]

(* The tip can be disconnected, and that restores outputs, pointers,        *)
(* accounts, markets and undo data, all but the trading volume and the      *)
(* order of the state index (disconnect_tip recomputes or looks up what     *)
(* connect_prevalidated did).                                               *)
DisconnectExact ==
    blocks # <<>> =>
        LET after == Disconnected(db, Last(blocks), Len(blocks) - 1)
        IN  after.ok /\ WithoutVolume(after) = WithoutVolume(Last(before))
=============================================================================
