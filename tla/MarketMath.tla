----------------------------- MODULE MarketMath -----------------------------
(***************************************************************************)
(* The arithmetic of a market (lib/math/trading.rs, safe_math.rs,          *)
(* allocation.rs; the payout side of lib/state/markets): what a trade      *)
(* costs once it is rounded to sats and charged a fee, at which prices the *)
(* shares are redeemed, and how a pool is split among its beneficiaries.   *)
(*                                                                         *)
(* A real number of the program is a count of small units: Scale units to  *)
(* the sat for costs, PriceScale units to 1.0 for prices and consensus     *)
(* outcomes, so that the roundings of the code are integer divisions.  The *)
(* LMSR cost itself (libm exp and log) is the parameter Cost of Markets.   *)
(***************************************************************************)
EXTENDS Integers, Sequences, SequencesExt

CONSTANTS
    Scale,          \* units of cost in a sat
    PriceScale,     \* units of price in 1.0: even, for the price 0.5
    FeeNum, FeeDen, \* trading_fee of the market, as a fraction
    MinTradingFee,  \* MIN_TRADING_FEE_SATS (1000)
    MinerFee        \* TRADE_MINER_FEE_SATS (1000)

ASSUME MarketMathAssumption ==
    /\ Scale \in Nat \ {0} /\ FeeDen \in Nat \ {0}
    /\ PriceScale \in Nat \ {0} /\ PriceScale % 2 = 0
    /\ FeeNum \in 0..FeeDen
    /\ MinTradingFee \in Nat /\ MinerFee \in Nat

-----------------------------------------------------------------------------
(* to_sats, with its three roundings, of the non-negative value n/d.       *)

RoundUp(n, d) == (n + d - 1) \div d

RoundDown(n, d) == n \div d

RoundNearest(n, d) == (2 * n + d) \div (2 * d)

LargerOf(a, b) == IF a >= b THEN a ELSE b

(* The fee is at least the minimum.                                        *)
TradingFee(cost) == LargerOf(RoundNearest(cost * FeeNum, Scale * FeeDen), MinTradingFee)

(* calculate_buy_cost: the base cost is rounded up, never in favour of the *)
(* trader.                                                                 *)
BuyCost(cost) ==
    [base |-> RoundUp(cost, Scale), fee |-> TradingFee(cost),
     total |-> RoundUp(cost, Scale) + TradingFee(cost)]

(* calculate_sell_proceeds: the proceeds are rounded down; a fee above them *)
(* is an error.                                                            *)
SellProceeds(proceeds) ==
    [ok |-> TradingFee(proceeds) =< RoundDown(proceeds, Scale),
     gross |-> RoundDown(proceeds, Scale), fee |-> TradingFee(proceeds),
     net |-> RoundDown(proceeds, Scale) - TradingFee(proceeds)]

-----------------------------------------------------------------------------
(* calculate_final_prices for a market over one decision: its axis of       *)
(* prices, by the kind of the decision.  A categorical outcome that is not  *)
(* the index of an option (0.5, when consensus is inconclusive) prices the  *)
(* n options equally, a binary one within [0.3, 0.7] prices both at 0.5.   *)
(* Prices are scaled to sum to Unit(kind, n).                               *)

SingleAxis(outcome) ==
    IF 10 * outcome > 7 * PriceScale THEN <<0, PriceScale>>
    ELSE IF 10 * outcome < 3 * PriceScale THEN <<PriceScale, 0>>
    ELSE <<PriceScale \div 2, PriceScale \div 2>>

ScaledAxis(outcome) == <<PriceScale - outcome, outcome>>

CategoricalAxis(outcome, n) ==
    LET winner == {k \in 1..n : outcome = (k - 1) * PriceScale}
    IN  IF winner = {} THEN [k \in 1..n |-> 1]
        ELSE [k \in 1..n |-> IF k \in winner THEN 1 ELSE 0]

SumSeq(s) == FoldLeft(LAMBDA a, b : a + b, 0, s)

FinalPrices(kind, outcome, n) ==
    CASE kind = "binary" -> SingleAxis(outcome)
      [] kind = "scaled" -> ScaledAxis(outcome)
      [] kind = "categorical" -> CategoricalAxis(outcome, n)

-----------------------------------------------------------------------------
(* The payouts of calculate_share_payouts.  A position is a record with     *)
(* its number of shares and the price of its outcome; the price 1.0 is the  *)
(* sum of the prices.                                                       *)

ExactValue(p) == p.shares * p.price

Fraction(p, one) == ExactValue(p) % one

RoundedPayouts(positions, one) ==
    [i \in DOMAIN positions |-> RoundNearest(ExactValue(positions[i]), one)]

(* reclaim_payout_roundups: positions that were rounded up give back one    *)
(* sat each, the largest fractions first (a stable sort), until the excess  *)
(* is gone.                                                                 *)
ReclaimRoundups(positions, payouts, one, excess) ==
    LET RoundedUp(i) == payouts[i] > RoundDown(ExactValue(positions[i]), one)
        Before(i, j) == \/ Fraction(positions[i], one) > Fraction(positions[j], one)
                        \/ /\ Fraction(positions[i], one) = Fraction(positions[j], one)
                           /\ i < j
        Rank(j) == Len(SelectSeq([i \in DOMAIN payouts |-> i],
                                 LAMBDA i : RoundedUp(i) /\ Before(i, j)))
    IN  [i \in DOMAIN payouts |->
            IF RoundedUp(i) /\ Rank(i) < excess THEN payouts[i] - 1 ELSE payouts[i]]

(* Deviation: what rounding adds is never taken back.                       *)
SharePayoutsUnreclaimed(positions, one, treasury) == RoundedPayouts(positions, one)

SharePayouts(positions, one, treasury) ==
    LET rounded == RoundedPayouts(positions, one)
        total == SumSeq(rounded)
    IN  IF total > treasury
        THEN ReclaimRoundups(positions, rounded, one, total - treasury)
        ELSE rounded

-----------------------------------------------------------------------------
(* allocate_proportionally_u64.  Participants are records of a key and a    *)
(* weight; the result is a sequence of keys and amounts.                    *)

(* Rust's max_by_key keeps the last of several maxima, the fallback of the  *)
(* code the first.                                                          *)
LastLargest(s) ==
    CHOOSE i \in DOMAIN s :
        \A j \in DOMAIN s : s[j].amount < s[i].amount \/ (s[j].amount = s[i].amount /\ j =< i)

FirstHeaviest(s) ==
    CHOOSE i \in DOMAIN s :
        \A j \in DOMAIN s : s[j].weight < s[i].weight \/ (s[j].weight = s[i].weight /\ i =< j)

(* Indices in ascending order of amount, as sort_by_key (stable) leaves     *)
(* them.                                                                    *)
Ascending(s) ==
    SetToSortSeq(DOMAIN s, LAMBDA i, j : \/ s[i].amount < s[j].amount
                                         \/ s[i].amount = s[j].amount /\ i < j)

(* The excess is taken from the smallest amounts first.                     *)
TakeExcess(s, excess) ==
    LET order == Ascending(s)
        Taken == [k \in 0..Len(order) |->
                     SumSeq([i \in 1..k |-> s[order[i]].amount])]
    IN  [k \in DOMAIN order |->
            LET left == LargerOf(excess - Taken[k - 1], 0)
            IN  [key |-> s[order[k]].key,
                 amount |-> s[order[k]].amount
                              - (IF left < s[order[k]].amount THEN left
                                 ELSE s[order[k]].amount)]]

Shares(participants, pool) ==
    LET total == SumSeq([i \in DOMAIN participants |-> participants[i].weight])
    IN  SelectSeq([i \in DOMAIN participants |->
                      [key |-> participants[i].key,
                       amount |-> RoundNearest(participants[i].weight * pool, total)]],
                  LAMBDA a : a.amount > 0)

(* Deviation: what rounding left over is not handed out.                    *)
AllocateDropsRemainder(participants, pool) ==
    IF participants = <<>> \/ pool = 0 THEN <<>> ELSE Shares(participants, pool)

Amounts(allocation) == [i \in DOMAIN allocation |-> allocation[i].amount]

(* The rounded shares, of the given sum, made to sum to the pool.           *)
Balanced(participants, shares, allocated, pool) ==
    CASE allocated < pool /\ shares # <<>> ->
            [shares EXCEPT ![LastLargest(shares)].amount = @ + pool - allocated]
      [] allocated < pool /\ shares = <<>> ->
            <<[key |-> participants[FirstHeaviest(participants)].key, amount |-> pool]>>
      [] allocated > pool -> TakeExcess(shares, allocated - pool)
      [] allocated = pool -> shares

Allocate(participants, pool) ==
    LET shares == Shares(participants, pool)
    IN  IF participants = <<>> \/ pool = 0 THEN <<>>
        ELSE Balanced(participants, shares, SumSeq(Amounts(shares)), pool)

(* calculate_fee_distribution for one decision: the pool is split 2:1:1     *)
(* between the voters who were right, the author of the decision and the    *)
(* author of the market, who also takes the voters' part when nobody was    *)
(* right.  `voters' are participants, in the order of their addresses.      *)
FeeShares(split, voters, decisionAuthor, marketAuthor) ==
    LET Pool(role) == SumSeq([i \in DOMAIN split |->
                                 IF split[i].key = role THEN split[i].amount ELSE 0])
        toVoters == IF voters = <<>> THEN <<>> ELSE Allocate(voters, Pool("voter"))
        toDecisionAuthor ==
            Allocate(<<[key |-> decisionAuthor, weight |-> 1]>>, Pool("decision_author"))
        rest == Pool("market_author") + (IF voters = <<>> THEN Pool("voter") ELSE 0)
        toMarketAuthor == IF rest > 0 THEN <<[key |-> marketAuthor, amount |-> rest]>> ELSE <<>>
    IN  SortSeq(toVoters, LAMBDA a, b : a.key < b.key) \o toDecisionAuthor \o toMarketAuthor

FeeDistribution(fees, voters, decisionAuthor, marketAuthor) ==
    FeeShares(Allocate(<<[key |-> "voter", weight |-> 2],
                         [key |-> "decision_author", weight |-> 1],
                         [key |-> "market_author", weight |-> 1]>>, fees),
              voters, decisionAuthor, marketAuthor)
=============================================================================
