------------------------------ MODULE Mempool -------------------------------
(***************************************************************************)
(* Transactions that wait for a block (lib/mempool.rs), and the operations *)
(* of the node on them (lib/node/mod.rs, lib/node/net_task.rs,             *)
(* app/app.rs, lib/miner.rs): a wallet submits a transaction, a peer sends *)
(* one (lib/net/peer/task.rs), the miner builds a template from them and   *)
(* submits it once the mainchain commits to it, blocks of peers arrive,    *)
(* and a reorganization puts the transactions of a disconnected block back. *)
(*                                                                         *)
(* Blocks are applied and reverted by Markets.  Every operation is one     *)
(* LMDB write transaction; one that fails leaves everything as it was.     *)
(***************************************************************************)
EXTENDS Markets

CONSTANTS
    MaxTransactions,    \* MAX_MEMPOOL_TRANSACTIONS
    NumTransactions,    \* NUM_TRANSACTIONS of a template
    Radix,              \* values of a byte (256)
    Cases               \* bounds on a behaviour: a scope and a budget

(* Transactions submitted, transactions and blocks that peers send, and     *)
(* removals.                                                                *)
Budget == [submits : Nat, peerTxs : Nat, peerBlocks : Nat, removals : Nat]

ASSUME MempoolAssumption ==
    /\ MaxTransactions \in Nat \ {0} /\ NumTransactions \in Nat \ {0}
    /\ Radix \in Nat \ {0, 1}
    /\ Cases \subseteq Scopes \X Budget

VARIABLES
    pool,           \* the databases of the mempool
    pending,        \* mempool_shares: the shares of markets with waiting trades
    incoming,       \* Info::NewTransaction, on their way to the net task
    template,       \* the block the miner asks the mainchain to commit to
    budget,         \* what is left of the bounds
    alone           \* there were no peers and no removals to begin with

poolVars == <<pool, pending, incoming, template, budget, alone>>

Spend(bound) == budget[bound] > 0 /\ budget' = [budget EXCEPT ![bound] = @ - 1]

-----------------------------------------------------------------------------
(* The databases.  spent, claims and index are sets of pairs of a key and a *)
(* transaction, order maps counters to trades.                              *)

EmptyPool ==
    [ok |-> TRUE, txs |-> {}, spent |-> {}, claims |-> {}, index |-> {},
     order |-> [n \in {} |-> None], counter |-> 0]

IsTrade(tx) == tx.kind = "trade"

(* get_claimed_decision_ids: a market is created together with the claim of *)
(* the decision it is about.                                                *)
ClaimedDecisions(tx) == IF tx.kind = "create" THEN {tx.market} ELSE {}

(* The outputs a transaction lists, without their value.                    *)
Outpoints(tx) == IF tx.kind = "create" THEN {Regular(tx, 0), Regular(tx, 1)} ELSE {}

(* DecisionAlreadyClaimedInMempool.                                         *)
ClaimConflict(p, tx) ==
    \E c \in p.claims : c[1] \in ClaimedDecisions(tx) /\ c[2] # tx

Put(p, tx) ==
    IF \/ Cardinality(p.txs) >= MaxTransactions
       \/ ClaimConflict(p, tx)
       \/ \E s \in p.spent : s[1] = tx.input
    THEN Fail(p)
    ELSE [p EXCEPT
            !.txs = @ \cup {tx},
            !.spent = @ \cup {<<tx.input, tx>>},
            !.claims = @ \cup {<<m, tx>> : m \in ClaimedDecisions(tx)},
            !.index = @ \cup {<<tx.who, tx>>},
            !.order = IF IsTrade(tx) THEN PutKey(@, p.counter + 1, tx) ELSE @,
            !.counter = IF IsTrade(tx) THEN @ + 1 ELSE @]

(* Deviation: the claims of a deleted transaction stay.                     *)
DropKeepsClaims(p, gone) ==
    [p EXCEPT
        !.txs = @ \ gone,
        !.spent = {s \in @ : s[1] \notin {tx.input : tx \in gone}},
        !.index = {i \in @ : i[2] \notin gone},
        !.order = [n \in {k \in DOMAIN @ : @[k] \notin gone} |-> @[n]]]

(* What delete removes of each transaction it visits: stxos and claims by   *)
(* key, the rest by transaction.                                            *)
Drop(p, gone) ==
    [p EXCEPT
        !.txs = @ \ gone,
        !.spent = {s \in @ : s[1] \notin {tx.input : tx \in gone}},
        !.claims = {c \in @ : c[1] \notin UNION {ClaimedDecisions(tx) : tx \in gone}},
        !.index = {i \in @ : i[2] \notin gone},
        !.order = [n \in {k \in DOMAIN @ : @[k] \notin gone} |-> @[n]]]

(* Transactions of the pool that spend a listed output of one of txs.       *)
Children(p, txs) ==
    {s[2] : s \in {x \in p.spent : x[1] \in UNION {Outpoints(tx) : tx \in txs}}}

(* The queue of pending_deletes, run to its end.                            *)
Descendants(p, txs) ==
    LET reach[n \in 0..Cardinality(p.txs)] ==
            IF n = 0 THEN txs \cap p.txs
            ELSE reach[n - 1] \cup (Children(p, reach[n - 1]) \cap p.txs)
    IN  reach[Cardinality(p.txs)]

DeleteTx(p, tx) == Drop(p, Descendants(p, {tx}))

EvictDecisionClaimConflicts(p, tx) ==
    FoldSet(LAMBDA zombie, q : DeleteTx(q, zombie), p,
            {c[2] : c \in {x \in p.claims : x[1] \in ClaimedDecisions(tx) /\ x[2] # tx}})

(* The order of keys that are little-endian numbers of eight bytes.         *)
SortsBefore(k, n) ==
    LET byte(x, i) == (x \div Radix^i) % Radix
    IN  \E i \in 0..7 : /\ byte(k, i) < byte(n, i)
                        /\ \A j \in 0..(i - 1) : byte(k, j) = byte(n, j)

(* take_trades_ordered: trades in the order of their keys, which is that of *)
(* their insertion as long as the counters have one byte.                   *)
TradesOrdered(p) ==
    LET keys == DOMAIN p.order
        key(i) == CHOOSE k \in keys : Cardinality({n \in keys : n = k \/ SortsBefore(n, k)}) = i
    IN  [i \in 1..Cardinality(keys) |-> p.order[key(i)]]

-----------------------------------------------------------------------------
(* submit_transaction.                                                      *)

(* validate_market_creation, of the claims that come with the market.       *)
ValidateNewClaims(d, tx) == \A m \in ClaimedDecisions(tx) : d.markets[m].state = "None"

(* update_mempool_buy and update_mempool_sell: the shares of the market as  *)
(* they will be, from the confirmed ones at first.  Negative shares are an  *)
(* error of the submission.                                                 *)
PendingShares(tx) ==
    LET now == IF pending[tx.market] = None THEN db.markets[tx.market].shares
               ELSE pending[tx.market]
    IN  [now EXCEPT ![tx.outcome] = @ + tx.shares]

SubmitTransaction(tx) ==
    LET put == Put(pool, tx)
    IN  /\ Spend("submits")
        /\ ValidateTransaction(db, tx) /\ ValidateNewClaims(db, tx)
        /\ put.ok
        /\ IsTrade(tx) => \A o \in Outcomes : PendingShares(tx)[o] >= 0
        /\ pool' = put
        /\ pending' = IF IsTrade(tx) THEN [pending EXCEPT ![tx.market] = PendingShares(tx)]
                      ELSE pending
        /\ UNCHANGED <<vars, incoming, template, alone>>

(* A trade against its limit, at given shares and the confirmed base.       *)
BuyPasses(market, now, tx) ==
    LET then == [now EXCEPT ![tx.outcome] = @ + tx.shares]
    IN  BuyCost(Cost(then, market.base) - Cost(now, market.base)).total =< tx.limit

SellPasses(market, now, tx) ==
    LET then == [now EXCEPT ![tx.outcome] = @ + tx.shares]
        sell == SellProceeds(Cost(now, market.base) - Cost(then, market.base))
    IN  sell.ok /\ (tx.limit > 0 => sell.net >= tx.limit)

(* The clients.  market_buy and market_sell quote a trade on the shares with *)
(* the waiting trades, at the confirmed base, and submit it if the quote is  *)
(* within the limit; the miner fee, which the block counts, does not count. *)
QuotedShares(m) == IF pending[m] = None THEN db.markets[m].shares ELSE pending[m]

MarketBuy(tx) ==
    /\ IsTrade(tx) /\ tx.shares > 0
    /\ BuyPasses(db.markets[tx.market], QuotedShares(tx.market), tx)
    /\ SubmitTransaction(tx)

MarketSell(tx) ==
    /\ IsTrade(tx) /\ tx.shares < 0
    /\ db.accounts[tx.who, tx.market, tx.outcome] >= -tx.shares
    /\ QuotedShares(tx.market)[tx.outcome] >= -tx.shares
    /\ SellPasses(db.markets[tx.market], QuotedShares(tx.market), tx)
    /\ SubmitTransaction(tx)

MarketAmplifyBeta(tx) == tx.kind = "amplify" /\ SubmitTransaction(tx)

(* Markets are created with the slots of Listings.                          *)
MarketCreate(tx) == tx.kind = "create" /\ SubmitTransaction(tx)

(* create_trade signs a trade without a quote; it is submitted as it is.    *)
CreateTrade(tx) == IsTrade(tx) /\ SubmitTransaction(tx)

(* handle_push_tx of a connection: a transaction that is valid now is sent  *)
(* on to the net task.                                                      *)
HandlePushTx(tx) ==
    /\ Spend("peerTxs")
    /\ ValidateTransaction(db, tx) /\ ValidateNewClaims(db, tx)
    /\ incoming' = incoming \cup {tx}
    /\ UNCHANGED <<vars, pool, pending, template, alone>>

(* NewTransaction, in the net task, later: no validation, and a put that    *)
(* fails is only logged.                                                    *)
ReceiveTransaction(tx) ==
    LET put == Put(pool, tx)
    IN  /\ incoming' = incoming \ {tx}
        /\ pool' = IF put.ok THEN put ELSE pool
        /\ UNCHANGED <<vars, pending, template, budget, alone>>

RemoveFromMempool(tx) ==
    /\ Spend("removals")
    /\ pool' = DeleteTx(pool, tx)
    /\ UNCHANGED <<vars, pending, incoming, template, alone>>

-----------------------------------------------------------------------------
(* get_transactions and build_block_template.                               *)

(* check_trade_slippage, against the confirmed market and the trades of the *)
(* template so far; neither the state of the market, nor the miner fee, nor *)
(* an amplification of the template, nor earlier sales of the trader count. *)
PassesSlippage(d, cumulative, tx) ==
    LET market == d.markets[tx.market]
        now    == cumulative[tx.market]
    IN  /\ market.state # "None"
        /\ IF tx.shares > 0 THEN BuyPasses(market, now, tx)
           ELSE /\ d.accounts[tx.who, tx.market, tx.outcome] >= -tx.shares
                /\ SellPasses(market, now, tx)

(* Deviation: the funds of a market do not count as paid out.               *)
TemplateFeeWithFunds(d, tx) ==
    IF IsTrade(tx) THEN MinerFee
    ELSE InputOf(d, tx).sats - ValueOf({u \in OutputsOf(d, tx) : u.funds = None})

(* A trade pays the miner fee, another transaction what it does not pay     *)
(* out: all of its input, for an amplification.                             *)
TemplateFee(d, tx) ==
    IF IsTrade(tx) THEN MinerFee
    ELSE InputOf(d, tx).sats - ValueOf(OutputsOf(d, tx))

(* The shares of the markets with one more trade of the template.           *)
AddTrade(cumulative, tx) == [cumulative EXCEPT ![tx.market][tx.outcome] = @ + tx.shares]

(* Deviation: a transaction leaves the pool when a template takes it.       *)
ConsiderTakes(d, acc, tx) ==
    CASE Utxo(d, tx.input) = {} -> [acc EXCEPT !.pool = DeleteTx(@, tx)]
      [] IsTrade(tx) /\ ~PassesSlippage(d, acc.shares, tx) -> acc
      [] OTHER -> [acc EXCEPT !.pool = DeleteTx(@, tx), !.txs = Append(@, tx),
                              !.fees = @ + TemplateFee(d, tx)]

(* One transaction of the loop: deleted, left for later, or taken.          *)
Consider(d, acc, tx) ==
    CASE \E i \in DOMAIN acc.txs : acc.txs[i].input = tx.input ->
            [acc EXCEPT !.pool = DeleteTx(@, tx)]
      [] Utxo(d, tx.input) = {} ->
            [acc EXCEPT !.pool = DeleteTx(@, tx)]
      [] IsTrade(tx) /\ ~PassesSlippage(d, acc.shares, tx) -> acc
      [] OTHER ->
            [acc EXCEPT
                !.txs = Append(@, tx),
                !.fees = @ + TemplateFee(d, tx),
                !.shares = IF IsTrade(tx) THEN AddTrade(@, tx) ELSE @]

FirstOf(s, n) == SubSeq(s, 1, IF n =< Len(s) THEN n ELSE Len(s))

(* The transactions that are not trades, in the same order.                 *)
NonTrades(txs) ==
    FoldLeft(LAMBDA kept, tx : IF IsTrade(tx) THEN kept ELSE Append(kept, tx), <<>>, txs)

(* The pool is read in the order of the txids, which are hashes: byTxid is  *)
(* any order.  Trades come last, and in the order of their insertion.       *)
GetTransactions(d, p, byTxid, number) ==
    LET trades == TradesOrdered(p)
        others == NonTrades(FirstOf(byTxid, number))
    IN  FoldLeft(LAMBDA acc, tx : Consider(d, acc, tx),
                 [pool |-> p, txs |-> <<>>, fees |-> 0,
                  shares |-> [m \in MarketIds |-> d.markets[m].shares]],
                 FirstOf(others \o trades, number))

BuildBlockTemplate ==
    /\ template = None
    /\ \E byTxid \in SetToSeqs(pool.txs) :
         LET got == GetTransactions(db, pool, byTxid, NumTransactions)
         IN  /\ template' = [parent |-> blocks, txs |-> got.txs, coinbase |-> got.fees]
             /\ pool' = got.pool
    /\ UNCHANGED <<vars, pending, incoming, budget, alone>>

(* The mainchain left the branch of the tip: an empty block on an ancestor. *)
BuildEmptyTemplate(height) ==
    /\ template = None
    /\ template' = [parent |-> SubSeq(blocks, 1, height), txs |-> <<>>, coinbase |-> 0]
    /\ UNCHANGED <<vars, pool, pending, incoming, budget, alone>>

(* confirm_bmm: the next mainchain block does not commit to the template.   *)
BmmFails ==
    /\ template # None
    /\ template' = None
    /\ UNCHANGED <<vars, pool, pending, incoming, budget, alone>>

-----------------------------------------------------------------------------
(* connect_tip_ and disconnect_tip_.                                        *)

Confirm(p, tx) == DeleteTx(EvictDecisionClaimConflicts(p, tx), tx)

(* clear_mempool_shares for the markets the block traded.                   *)
ClearPending(txs, skipped) ==
    [m \in MarketIds |->
        IF \E i \in DOMAIN txs \ skipped : IsTrade(txs[i]) /\ txs[i].market = m
        THEN None ELSE pending[m]]

(* check_duplicate_decision_claims: by whatever transaction.                *)
DuplicateClaims(txs) ==
    \E i, j \in DOMAIN txs :
        i # j /\ ClaimedDecisions(txs[i]) \cap ClaimedDecisions(txs[j]) # {}

BlockConnects(d, txs, coinbase, height) ==
    /\ Prevalidate(d, txs)
    /\ ~DuplicateClaims(txs)
    /\ \A i \in DOMAIN txs : ValidateNewClaims(d, txs[i])
    /\ Connected(d, txs, coinbase, <<>>, height).ok

ConnectTip(txs, coinbase, resolutions) ==
    /\ ~DuplicateClaims(txs)
    /\ ConnectBlock(txs, coinbase, resolutions)
    /\ pool' = FoldLeft(Confirm, pool, txs)
    /\ pending' = ClearPending(txs, SkippedAt(db', Len(blocks)))
    /\ UNCHANGED <<incoming, alone>>

(* submit_block of the own block, if its parent is still the tip; otherwise *)
(* its branch is chosen or not as NodeSync says.                            *)
SubmitTemplate(resolutions) ==
    /\ template # None
    /\ template.parent = blocks
    /\ ConnectTip(template.txs, template.coinbase, resolutions)
    /\ template' = None
    /\ UNCHANGED budget

ReceiveBlock(txs, coinbase, resolutions) ==
    /\ Spend("peerBlocks")
    /\ ConnectTip(txs, coinbase, resolutions)
    /\ UNCHANGED template

(* A transaction goes back; a competitor for its decision makes way, and    *)
(* any other error stops the disconnection.                                 *)
PutBackOne(p, tx) ==
    IF ~p.ok THEN p
    ELSE IF Cardinality(p.txs) < MaxTransactions /\ ClaimConflict(p, tx)
    THEN Put(EvictDecisionClaimConflicts(p, tx), tx)
    ELSE Put(p, tx)

(* The transactions of the block, last one first.                           *)
PutBack(p, txs) == FoldLeft(PutBackOne, p, Reverse(txs))

DisconnectBlock ==
    LET back == PutBack(pool, Last(blocks).txs)
    IN  /\ DisconnectTip
        /\ back.ok
        /\ pool' = back
        /\ UNCHANGED <<pending, incoming, template, budget, alone>>

-----------------------------------------------------------------------------
PoolInit ==
    /\ Init
    /\ pool = EmptyPool
    /\ pending = [m \in MarketIds |-> None]
    /\ incoming = {}
    /\ template = None
    /\ \E case \in Cases : scope = case[1] /\ budget = case[2]
    /\ alone = (budget.peerTxs + budget.peerBlocks + budget.removals = 0)

Resolvable == {m \in MarketIds : db.outcome[m] = None}

PoolNext ==
    \/ \E tx \in Transactions(db) : MarketBuy(tx)
    \/ \E tx \in Transactions(db) : MarketSell(tx)
    \/ \E tx \in Transactions(db) : MarketAmplifyBeta(tx)
    \/ \E tx \in Transactions(db) : MarketCreate(tx)
    \/ \E tx \in Transactions(db) : CreateTrade(tx)
    \/ \E tx \in Transactions(db) : HandlePushTx(tx)
    \/ \E tx \in incoming : ReceiveTransaction(tx)
    \/ \E tx \in pool.txs : RemoveFromMempool(tx)
    \/ BuildBlockTemplate
    \/ \E height \in 0..(Len(blocks) - 1) : BuildEmptyTemplate(height)
    \/ BmmFails
    \/ \E resolved \in SUBSET Resolvable :
         \E resolutions \in [resolved -> Results] : SubmitTemplate(resolutions)
    \/ \E tx \in Transactions(db) : ReceiveBlock(<<tx>>, MinerFee, <<>>)
    \/ DisconnectBlock

PoolSpec == PoolInit /\ [][PoolNext]_<<vars, poolVars>>

-----------------------------------------------------------------------------
(* Properties.                                                              *)

(* The five databases of the mempool agree: every transaction is found by   *)
(* its input, by the decision it claims, by its address and, if it is a     *)
(* trade, by one position in the order, and they name no other transaction; *)
(* so no two transactions of the pool exclude each other by an input or a   *)
(* decision.  put, the cascade of delete, evictions and reorganizations     *)
(* each touch all five.                                                     *)
IndexesExact ==
    /\ pool.ok
    /\ pool.spent = {<<tx.input, tx>> : tx \in pool.txs}
    /\ pool.claims = UNION {{<<m, tx>> : m \in ClaimedDecisions(tx)} : tx \in pool.txs}
    /\ pool.index = {<<tx.who, tx>> : tx \in pool.txs}
    /\ {pool.order[n] : n \in DOMAIN pool.order} = {tx \in pool.txs : IsTrade(tx)}
    /\ \A k, n \in DOMAIN pool.order : pool.order[k] = pool.order[n] => k = n
    /\ \A t, u \in pool.txs :
          t # u => t.input # u.input /\ ClaimedDecisions(t) \cap ClaimedDecisions(u) = {}

(* The trades of a template before its i-th transaction.                    *)
TradesBefore(i) ==
    SelectSeq([k \in 1..(i - 1) |-> [tx |-> template.txs[k]]], LAMBDA t : IsTrade(t.tx))

OverLimit(i) ==
    LET tx == template.txs[i]
        now == RunningShares(db, [trades |-> TradesBefore(i)], tx.market)
        then == [now EXCEPT ![tx.outcome] = @ + tx.shares]
        base == db.markets[tx.market].base
    IN  /\ IsTrade(tx) /\ tx.shares > 0
        /\ BuyCost(Cost(then, base) - Cost(now, base)).total + MinerFee > tx.limit

OverSold(i) ==
    LET tx == template.txs[i]
    IN  /\ IsTrade(tx) /\ tx.shares < 0
        /\ db.accounts[tx.who, tx.market, tx.outcome]
              + NetDelta(TradesBefore(i), tx.who, tx.market, tx.outcome) < -tx.shares

(* A transaction that is not valid any more, an amplification, a buy with   *)
(* less than the miner fee to spare, or sales of more than the trader has.  *)
Spoils(i) ==
    LET tx == template.txs[i]
    IN  \/ ~ValidateTransaction(db, tx) \/ ~ValidateNewClaims(db, tx)
        \/ tx.kind = "amplify"
        \/ OverLimit(i)
        \/ OverSold(i)

TemplateOnTip == template # None /\ template.parent = blocks

TemplateAccepted ==
    BlockConnects(db, template.txs, template.coinbase, Len(blocks))

(* The node connects its own template unless a transaction of it is one of  *)
(* the four kinds that get_transactions does not tell apart, and then it    *)
(* never does: prices, fees and exclusions are computed twice, by           *)
(* different code, for the template and for the block.                      *)
TemplateExact ==
    TemplateOnTip => (TemplateAccepted <=> \A i \in DOMAIN template.txs : ~Spoils(i))

(* A block that the node built from its own transactions can be             *)
(* disconnected: nothing that was submitted since competes with what goes   *)
(* back to the pool, unless there is no room.                               *)
AloneDisconnects ==
    alone /\ blocks # <<>> =>
        \/ PutBack(pool, Last(blocks).txs).ok
        \/ Cardinality(pool.txs) + Len(Last(blocks).txs) > MaxTransactions
=============================================================================
