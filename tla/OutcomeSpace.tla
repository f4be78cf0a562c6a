---------------------------- MODULE OutcomeSpace ----------------------------
(***************************************************************************)
(* Markets over several decisions: when a market is valid and when it can  *)
(* be built, its outcomes and their indexes, its final prices.             *)
(*   spec       [tag, id], the tag "Single" or "Categorical"               *)
(*   decisions  a function from ids to [kind, options, outcome]; a         *)
(*              decision without consensus has the outcome None            *)
(***************************************************************************)
EXTENDS MarketMath

CONSTANTS
    MaxOutcomes,        \* MAX_OUTCOMES (256)
    None                \* no consensus

ASSUME OutcomeSpaceAssumption == MaxOutcomes \in Nat

-----------------------------------------------------------------------------
(* validate_market_creation, of the decisions that the transaction claims  *)
(* along with the market and of the dimensions                             *)

\* claims: a sequence of [id, decision]
ValidNewClaims(claims, decisions) ==
    \A i \in DOMAIN claims :
        /\ claims[i].id \notin DOMAIN decisions
        /\ \A j \in DOMAIN claims : claims[i].id = claims[j].id => i = j

\* The decisions once the transaction's claims are in.
Claimed(claims, decisions) ==
    [id \in DOMAIN decisions \cup {claims[i].id : i \in DOMAIN claims} |->
        IF \E i \in DOMAIN claims : claims[i].id = id
        THEN claims[CHOOSE i \in DOMAIN claims : claims[i].id = id].decision
        ELSE decisions[id]]

ValidateDimensions(specs, decisions) ==
    /\ specs # <<>>
    /\ \A i \in DOMAIN specs :
          /\ specs[i].id \in DOMAIN decisions
          /\ specs[i].tag = "Categorical" =>
                /\ decisions[specs[i].id].kind = "categorical"
                /\ decisions[specs[i].id].options >= 2

ValidateMarketCreation(specs, claims, decisions) ==
    ValidNewClaims(claims, decisions) /\ ValidateDimensions(specs, Claimed(claims, decisions))

-----------------------------------------------------------------------------
(* Building a market: apply_market_creation, generate_state_combos         *)

\* The states of a single dimension are no, yes and abstain.
DimensionRange(spec, decisions) ==
    IF spec.tag = "Single" THEN 3 ELSE decisions[spec.id].options

TradeableRange(spec, decisions) ==
    IF spec.tag = "Single" THEN 2 ELSE decisions[spec.id].options

OutcomeSpaceSize(ranges) == FoldLeft(LAMBDA a, b : a * b, 1, ranges)

\* All combinations of the states 0..ranges[d]-1, the last dimension fastest.
CartesianProduct(ranges) ==
    LET product[d \in 0..Len(ranges)] ==
            IF d = 0 THEN << <<>> >>
            ELSE FlattenSeq([c \in DOMAIN product[d - 1] |->
                     [v \in 1..ranges[d] |-> Append(product[d - 1][c], v - 1)]])
    IN  product[Len(ranges)]

GenerateStateCombos(specs, decisions) ==
    LET ranges == [d \in DOMAIN specs |-> DimensionRange(specs[d], decisions)]
        tradeable == [d \in DOMAIN specs |-> TradeableRange(specs[d], decisions)]
    IN  [ok |-> /\ specs # <<>>
                /\ \A i, j \in DOMAIN specs : specs[i].id = specs[j].id => i = j
                /\ OutcomeSpaceSize(tradeable) =< MaxOutcomes,
         combos |-> CartesianProduct(ranges)]

\* The claims are applied first; then a decision that is missing, or named
\* twice, or too many outcomes, are errors of the block.
BuildMarket(specs, claims, decisions) ==
    LET known == Claimed(claims, decisions)
    IN  IF \E d \in DOMAIN specs : specs[d].id \notin DOMAIN known
        THEN [ok |-> FALSE, combos |-> <<>>]
        ELSE GenerateStateCombos(specs, known)

\* Deviation: the abstain states can be traded too.
ValidStateCombosAll(specs, decisions) == GenerateStateCombos(specs, decisions).combos

\* The tradeable combinations: none of the single dimensions abstains.
ValidStateCombos(specs, decisions) ==
    SelectSeq(GenerateStateCombos(specs, decisions).combos,
              LAMBDA combo : \A d \in DOMAIN specs : specs[d].tag = "Single" => combo[d] < 2)

TradeableIndex(specs, decisions, positions) ==
    LET valid == ValidStateCombos(specs, decisions)
        at == {i \in DOMAIN valid : valid[i] = positions}
    IN  IF at = {} THEN 0 ELSE CHOOSE i \in at : \A j \in at : i =< j

-----------------------------------------------------------------------------
(* calculate_final_prices: the product over the dimensions, then a common  *)
(* divisor, which is the sum.                                              *)

Axis(spec, decision) ==
    LET outcome == IF decision.outcome = None THEN PriceScale \div 2 ELSE decision.outcome
    IN  IF spec.tag = "Single"
        THEN IF decision.kind = "scaled" THEN ScaledAxis(outcome) ELSE SingleAxis(outcome)
        ELSE CategoricalAxis(IF decision.outcome = None THEN -1 ELSE decision.outcome,
                             decision.options)

JointPrices(specs, decisions) ==
    LET valid == ValidStateCombos(specs, decisions)
        axes == [d \in DOMAIN specs |-> Axis(specs[d], decisions[specs[d].id])]
    IN  [i \in DOMAIN valid |->
            FoldLeft(LAMBDA a, b : a * b, 1, [d \in DOMAIN specs |-> axes[d][valid[i][d] + 1]])]
=============================================================================
