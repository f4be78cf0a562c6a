-------------------------------- MODULE Lmsr ---------------------------------
(***************************************************************************)
(* The market maker's cost (lib/math/lmsr.rs): beta times the logarithm of *)
(* the sum of exp(q/beta).  Here beta is b/(Base*ln 2) for a whole b that  *)
(* divides Base, so that exp(q/beta) is the power of two 2^(q*Base/b), and *)
(* the logarithm is taken to 1/Precision, rounded down.  Costs are         *)
(* multiples of 1/(Base*Precision); shares are a sequence of naturals.     *)
(***************************************************************************)
EXTENDS Integers, Sequences, SequencesExt

CONSTANTS
    Base,           \* shares over which exp doubles Base times at beta 1
    Precision,      \* parts of a unit that the logarithm resolves
    MaxShift,       \* binary places of the exponentials
    MinBeta,        \* MIN_BETA and MAX_BETA, both excluded, in the unit of b
    MaxBeta,
    MostOutcomes    \* max_outcomes

ASSUME LmsrAssumption ==
    /\ Base \in Nat \ {0} /\ Precision \in Nat \ {0} /\ MaxShift \in Nat
    /\ MinBeta \in Nat /\ MaxBeta \in Nat /\ MostOutcomes \in Nat

MostShares(shares) == FoldLeft(LAMBDA a, b : IF a >= b THEN a ELSE b, 0, shares)

\* exp of the shares less the largest, in units of 2^-MaxShift: at most 1, so
\* that it cannot overflow; the smallest vanish.
ExpShares(shares, b) ==
    [i \in DOMAIN shares |->
        LET down == ((MostShares(shares) - shares[i]) * Base) \div b
        IN  IF down > MaxShift THEN 0 ELSE 2^(MaxShift - down)]

SumExp(shares, b) == FoldLeft(LAMBDA x, y : x + y, 0, ExpShares(shares, b))

\* The logarithm of n/2^MaxShift, in 1/Precision.
Log2(n) ==
    CHOOSE c \in 0..Precision * 8 :
        /\ 2^c * 2^(MaxShift * Precision) =< n^Precision
        /\ n^Precision < 2^(c + 1) * 2^(MaxShift * Precision)

\* C = beta * (ln(sum) + max/beta)
CostFunction(shares, b) ==
    b * Log2(SumExp(shares, b)) + MostShares(shares) * Base * Precision

UpdateCost(old, new, b) == CostFunction(new, b) - CostFunction(old, b)

\* Prices are these over their sum.
Prices(shares, b) == ExpShares(shares, b)

\* What funds a market of n outcomes at this beta: beta * ln(n).
Liquidity(n, b) == b * Log2(n * 2^MaxShift)

ValidParams(shares, b) ==
    b > MinBeta /\ b < MaxBeta /\ Len(shares) \in 2..MostOutcomes
=============================================================================
