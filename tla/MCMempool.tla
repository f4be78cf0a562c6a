----------------------------- MODULE MCMempool ------------------------------
(* Instances of Mempool for TLC.                                           *)
EXTENDS Mempool

CONSTANTS m1

(* The cost function of MCMarkets, which see.                               *)
MCCost(q, b) ==
    LET most  == IF q[1] >= q[2] THEN q[1] ELSE q[2]
        apart == 2 * most - q[1] - q[2]
    IN  4 * most + (IF apart >= 4 * b THEN 0
                    ELSE ((4 * b - apart) * (4 * b - apart)) \div (4 * b))

MCCoins ==
    {[address |-> 1, sats |-> 7, n |-> 1], [address |-> 1, sats |-> 1, n |-> 2],
     [address |-> 1, sats |-> 1, n |-> 3],
     [address |-> 3, sats |-> 5, n |-> 1], [address |-> 3, sats |-> 5, n |-> 2]}

Order(kind, who, outcome, shares, limit) ==
    [kind |-> kind, market |-> m1, who |-> who, outcome |-> outcome, shares |-> shares,
     limit |-> limit]

Create == Order("create", 3, 1, 2, 0)
Amplify == Order("amplify", 3, 1, 1, 0)
Buy == Order("trade", 1, 1, 2, 6)
BuyTightly == Order("trade", 1, 1, 2, 3)
Sell == Order("trade", 1, 1, -2, 0)

MCOrders == {Create, Amplify, Buy, BuyTightly, Sell}

MCResults == {[outcome |-> 4, voters |-> <<>>]}

Bounds(height, disconnects, orders) ==
    [height |-> height, txs |-> 1, disconnects |-> disconnects, orders |-> orders]

Allowed(submits, peerTxs, peerBlocks, removals) ==
    [submits |-> submits, peerTxs |-> peerTxs, peerBlocks |-> peerBlocks, removals |-> removals]

(* A node on its own; a sale from a peer beside an own one; competitors for *)
(* inputs and decisions, stale and orphaned transactions of peers.          *)
MCCases ==
    {<<Bounds(3, 1, MCOrders), Allowed(3, 0, 0, 0)>>,
     <<Bounds(3, 0, {Create, Buy, Sell}), Allowed(3, 1, 0, 0)>>,
     <<Bounds(3, 1, {Create, Buy}), Allowed(2, 1, 1, 1)>>}

MCScopes == {case[1] : case \in MCCases}

=============================================================================
