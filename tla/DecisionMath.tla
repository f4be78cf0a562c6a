---------------------------- MODULE DecisionMath ----------------------------
(***************************************************************************)
(* The listing-fee arithmetic of lib/math/decisions.rs: the fixed mapping  *)
(* from a decision index to its price tier, the unlocking of slots by mint *)
(* events, and the exponential reprice curve in binary fixed point.        *)
(*                                                                         *)
(* The code's literal constants (100 slots per tier, Q32 and Q62 fixed     *)
(* point, u64 saturation) are parameters, so that TLC can evaluate the     *)
(* same integer program at a precision its integers can hold.              *)
(***************************************************************************)
EXTENDS Integers

CONSTANTS
    TierCount,          \* TIER_COUNT (5)
    SlotsPerTier,       \* SLOTS_PER_TIER (100)
    SlotsPerMint,       \* SLOTS_PER_TIER_PER_MINT (5)
    GenesisPrice,       \* GENESIS_P_PERIOD_SATS (10_000)
    QBits,              \* fraction bits of the exponent (32)
    FracBits,           \* fraction bits of the series (62)
    Ln2Fixed,           \* ln 2 with FracBits fraction bits
    SeriesTerms,        \* terms of the series (11: k in 1..12)
    MaxU64              \* the largest unsigned price (2^64 - 1)

ASSUME MathAssumption ==
    /\ {TierCount, SlotsPerTier, SlotsPerMint} \subseteq Nat \ {0}
    /\ {GenesisPrice, Ln2Fixed, MaxU64, SeriesTerms} \subseteq Nat
    /\ QBits \in Nat /\ FracBits \in Nat /\ QBits =< FracBits

SatSub(a, b) == IF a >= b THEN a - b ELSE 0

SatMul(a, b) == IF a * b > MaxU64 THEN MaxU64 ELSE a * b

(* The slot space of a period and the price tier an index falls in.        *)
SlotsPerPeriodMax == SlotsPerTier * TierCount

TierForIndex(index) == index \div SlotsPerTier

PositionInTier(index) == index % SlotsPerTier

(* A slot is claimable once enough mint events have reached its position.  *)
SlotUnlocked(index, mints) ==
    /\ index < SlotsPerPeriodMax
    /\ PositionInTier(index) < mints * SlotsPerMint

(* Tier t costs 2^t quarters of the period price.                          *)
SlotPrice(p_period, tier) == SatMul(p_period, 2^tier) \div 4

FeeForIndex(p_period, index) == SlotPrice(p_period, TierForIndex(index))

(* All slots minted into a period, over the tiers.                         *)
PeriodCapacity(mints) == mints * SlotsPerMint * TierCount

(* Deviation: the series stops after its first term.                       *)
Pow2FracOneTerm(frac) ==
    2^FracBits + ((frac * 2^(FracBits - QBits)) * Ln2Fixed) \div 2^FracBits

(* 2^(frac / 2^QBits) for 0 <= frac < 2^QBits, with FracBits fraction bits: *)
(* the exponential series of x = frac * ln 2, every product truncated.     *)
Pow2Frac(frac) ==
    LET one == 2^FracBits
        x   == ((frac * 2^(FracBits - QBits)) * Ln2Fixed) \div one
        term[k \in 0..SeriesTerms] ==
            IF k = 0 THEN one ELSE ((term[k-1] * x) \div one) \div k
        sum[k \in 0..SeriesTerms] ==
            IF k = 0 THEN one ELSE sum[k-1] + term[k]
    IN  sum[SeriesTerms]

(* 2^(e / 2^QBits) with QBits fraction bits, for a signed exponent e.      *)
Pow2Fixed(e) ==
    LET q        == 2^QBits
        exp_int  == e \div q
        mantissa == Pow2Frac(e % q) \div 2^(FracBits - QBits)
    IN  IF exp_int >= 0 THEN mantissa * 2^exp_int ELSE mantissa \div 2^(-exp_int)

(* The new period price after a window in which `sales' of the slots that  *)
(* were available at its opening were claimed: p * 2^(2 sales/available-1).*)
Reprice(p_old, sales, available) ==
    IF available = 0 \/ (sales # available /\ 2 * sales = available) THEN p_old
    ELSE IF sales = 0 THEN p_old \div 2
    ELSE IF sales = available THEN SatMul(p_old, 2)
    ELSE LET q == 2^QBits
             e == (sales * 2 * q) \div available - q
         IN  ((p_old * Pow2Fixed(e)) \div q) % (MaxU64 + 1)

(* Number of blocks between two scheduled reprices.                        *)
RepriceInterval(blocks_per_period, reprices) ==
    IF blocks_per_period \div reprices > 1 THEN blocks_per_period \div reprices ELSE 1
=============================================================================
