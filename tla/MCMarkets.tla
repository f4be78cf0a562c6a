----------------------------- MODULE MCMarkets ------------------------------
(* Instances of Markets for TLC.                                           *)
EXTENDS Markets

CONSTANTS m1

(* A cost function with the shape of the LMSR, in quarter sats: the largest *)
(* number of shares, plus a subsidy that is the base when the outcomes are  *)
(* level and vanishes as they part.                                         *)
MCCost(q, b) ==
    LET most  == IF q[1] >= q[2] THEN q[1] ELSE q[2]
        apart == 2 * most - q[1] - q[2]
    IN  4 * most + (IF apart >= 4 * b THEN 0
                    ELSE ((4 * b - apart) * (4 * b - apart)) \div (4 * b))

(* Author and miner is address 3.                                           *)
MCCoins ==
    {[address |-> 1, sats |-> 9, n |-> 1], [address |-> 1, sats |-> 1, n |-> 2],
     [address |-> 2, sats |-> 9, n |-> 1], [address |-> 3, sats |-> 5, n |-> 1]}

Order(kind, who, outcome, shares, limit) ==
    [kind |-> kind, market |-> m1, who |-> who, outcome |-> outcome, shares |-> shares,
     limit |-> limit]

(* Sales, limits that bite, amplification.                                  *)
MixedOrders ==
    {Order("create", 3, 1, 2, 0), Order("amplify", 3, 1, 1, 0),
     Order("trade", 1, 1, 3, 9), Order("trade", 1, 1, -3, 0), Order("trade", 1, 1, -2, 1),
     Order("trade", 2, 2, 3, 9), Order("trade", 2, 1, 3, 4), Order("trade", 2, 2, -3, 0)}

(* Four positions of three shares in a small market: at the price 0.5 their *)
(* payouts, rounded, exceed the treasury.                                   *)
TightOrders ==
    {Order("create", 3, 1, 1, 0)} \cup {Order("trade", a, o, 3, 4) : a \in {1, 2}, o \in {1, 2}}

MCOrders == MixedOrders \cup TightOrders

MCResults ==
    {[outcome |-> 4, voters |-> <<[key |-> 1, weight |-> 1], [key |-> 2, weight |-> 2]>>],
     [outcome |-> 2, voters |-> <<>>]}

MCScopes ==
    {[height |-> 4, txs |-> 1, disconnects |-> 1, orders |-> MixedOrders],
     [height |-> 3, txs |-> 2, disconnects |-> 1, orders |-> MixedOrders],
     [height |-> 3, txs |-> 2, disconnects |-> 0, orders |-> TightOrders]}

=============================================================================
