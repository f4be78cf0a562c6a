---------------------------- MODULE DecisionTypes ----------------------------
(***************************************************************************)
(* What a decision is, apart from its life cycle: its three-byte id, its   *)
(* kinds, what a claim of one must say, and how a vote travels from the    *)
(* value that a user enters to the one that is validated, stored, counted  *)
(* and shown.                                                              *)
(*   decision   [kind, min, max, increment, options]                       *)
(*   value      [num, den], or NaN to abstain                              *)
(***************************************************************************)
EXTENDS Integers, Sequences, FiniteSets

CONSTANTS
    IdByteBits,     \* bits of a byte of an id (8): one for the standard bit,
                    \* the rest of the first byte for the period
    Abstain         \* the value NaN

ASSUME DecisionTypesAssumption == IdByteBits \in Nat \ {0, 1}

-----------------------------------------------------------------------------
(* DecisionId                                                              *)

PeriodShift == 2 * IdByteBits

MaxPeriodIndex == 2^(IdByteBits - 1) - 1

MaxDecisionIndex == 2^PeriodShift - 1

ValidBounds(period, index) == period =< MaxPeriodIndex /\ index =< MaxDecisionIndex

NewId(standard, period, index) ==
    LET n == (IF standard THEN 2^(3 * IdByteBits - 1) ELSE 0) + period * 2^PeriodShift + index
    IN  [ok |-> ValidBounds(period, index),
         bytes |-> <<n \div 2^PeriodShift, (n \div 2^IdByteBits) % 2^IdByteBits, n % 2^IdByteBits>>]

AsNumber(bytes) == bytes[1] * 2^PeriodShift + bytes[2] * 2^IdByteBits + bytes[3]

IsStandard(bytes) == AsNumber(bytes) \div 2^(3 * IdByteBits - 1) = 1

PeriodIndex(bytes) == (AsNumber(bytes) \div 2^PeriodShift) % (MaxPeriodIndex + 1)

DecisionIndex(bytes) == AsNumber(bytes) % (MaxDecisionIndex + 1)

-----------------------------------------------------------------------------
(* Kinds and claims                                                        *)

IsStepAligned(delta, step) == delta % step = 0

ValidKind(decision) ==
    CASE decision.kind = "binary" -> TRUE
      [] decision.kind = "scaled" -> /\ decision.min < decision.max
                                     /\ decision.increment > 0
                                     /\ IsStepAligned(decision.max - decision.min,
                                                      decision.increment)
      [] decision.kind = "category" -> decision.options >= 2

\* payload: [decision, entries], an entry [id, labels]; labels is the number of
\* its option labels, 0 if it has none
ValidPayload(payload) ==
    /\ Len(payload.entries) = 1
    /\ IF payload.decision.kind = "category"
       THEN payload.entries[1].labels >= 2
            /\ payload.entries[1].labels = payload.decision.options
       ELSE payload.entries[1].labels = 0
    /\ ValidKind(payload.decision)

-----------------------------------------------------------------------------
(* Votes                                                                   *)

InRange(value, low, high) ==
    low * value.den =< value.num /\ value.num =< high * value.den

IsInteger(value) == value.num % value.den = 0

Same(a, b) == a.num * b.den = b.num * a.den

\* Deviation: the lower bound is not taken off.
NormalizeFromZero(decision, value) ==
    IF decision.kind = "scaled"
    THEN [num |-> value.num, den |-> value.den * (decision.max - decision.min)]
    ELSE value

Normalize(decision, value) ==
    IF decision.kind = "scaled"
    THEN [num |-> value.num - decision.min * value.den,
          den |-> value.den * (decision.max - decision.min)]
    ELSE value

Denormalize(decision, value) ==
    IF decision.kind = "scaled"
    THEN [num |-> value.num * (decision.max - decision.min) + decision.min * value.den,
          den |-> value.den]
    ELSE value

\* What the clients let a user enter: validate_and_normalize.
EntryAccepted(decision, value) ==
    CASE decision.kind = "scaled" ->
            /\ InRange(value, decision.min, decision.max)
            /\ IsInteger(value)
            /\ IsStepAligned(value.num \div value.den - decision.min, decision.increment)
      [] decision.kind = "binary" -> InRange(value, 0, 1)
      [] decision.kind = "category" -> InRange(value, 0, decision.options) /\ IsInteger(value)

\* vote_submit: votes is a sequence of [id, period, value], known the claimed
\* decisions.  A ballot is for one voting period, and normalized.
Ballot(votes, known) ==
    [ok |-> /\ votes # <<>>
            /\ \A i \in DOMAIN votes :
                  /\ votes[i].period = votes[1].period
                  /\ votes[i].id \in DOMAIN known
                  /\ votes[i].value = Abstain \/ EntryAccepted(known[votes[i].id], votes[i].value),
     items |-> [i \in DOMAIN votes |->
                   IF votes[i].value = Abstain \/ votes[i].id \notin DOMAIN known THEN Abstain
                   ELSE Normalize(known[votes[i].id], votes[i].value)]]

\* What a block may carry: validate_vote_value.
VoteAccepted(decision, value) ==
    IF decision.kind = "category"
    THEN InRange(value, 0, decision.options) /\ IsInteger(value)
    ELSE InRange(value, 0, 1)

\* What is stored: convert_vote_value_with_decision.
ConvertVoteValue(decision, value) ==
    CASE value = Abstain -> [tag |-> "Abstain"]
      [] value # Abstain /\ decision.kind = "category" ->
            [tag |-> "Categorical", index |-> value.num \div value.den]
      [] OTHER -> IF value.num \in {0, value.den}
                  THEN [tag |-> "Binary", yes |-> value.num = value.den]
                  ELSE [tag |-> "Scalar", value |-> value]

\* What is counted: to_float_opt.
ToFloat(vote) ==
    CASE vote.tag = "Abstain" -> Abstain
      [] vote.tag = "Binary" -> [num |-> IF vote.yes THEN 1 ELSE 0, den |-> 1]
      [] vote.tag = "Categorical" -> [num |-> vote.index, den |-> 1]
      [] vote.tag = "Scalar" -> vote.value
=============================================================================
