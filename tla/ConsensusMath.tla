--------------------------- MODULE ConsensusMath ----------------------------
(***************************************************************************)
(* The consensus over the votes of a period (lib/math/voting/oracle.rs):   *)
(* how gaps in the vote matrix are filled, how categorical votes are       *)
(* counted, how outcomes are found, and how reputation moves.              *)
(*                                                                         *)
(* Reputation is a count of the units it is rounded to, a vote and an      *)
(* outcome a count of 1/Full.  A matrix maps a pair of voter and decision  *)
(* to a vote, or to NaN.  The principal component of one decision is       *)
(* computed; that of several is the argument `score', a number for each    *)
(* voter, on the side that get_reward_weights picks.                       *)
(***************************************************************************)
EXTENDS Integers, Sequences, FiniteSets, FiniteSetsExt, SequencesExt

CONSTANTS
    Full,               \* units of a vote in 1.0: even, for the neutral 0.5
    AlphaNum, AlphaDen, \* REPUTATION_SMOOTHING_ALPHA (3/10)
    NaN                 \* an abstention, or no vote

ASSUME ConsensusMathAssumption ==
    /\ Full \in Nat \ {0} /\ Full % 2 = 0
    /\ AlphaDen \in Nat \ {0} /\ AlphaNum \in 0..AlphaDen

Neutral == Full \div 2

Total(f) == MapThenSumSet(LAMBDA x : f[x], DOMAIN f)

Nearest(n, d) == (2 * n + d) \div (2 * d)

-----------------------------------------------------------------------------
(* catch_tl of the value n/d: outcomes within 0.1 of the middle are neutral. *)
Catch(n, d) ==
    IF 10 * n < 4 * Full * d THEN 0
    ELSE IF 10 * n > 6 * Full * d THEN Full
    ELSE Neutral

Cast(matrix, voters, j) == {i \in voters : matrix[i, j] # NaN}

(* The weighted mean of a column, caught.  Nothing cast is neutral.         *)
CaughtMean(matrix, voters, weights, j) ==
    LET cast == Cast(matrix, voters, j)
        total == MapThenSumSet(LAMBDA i : weights[i], cast)
    IN  IF total = 0 THEN Neutral
        ELSE Catch(MapThenSumSet(LAMBDA i : matrix[i, j] * weights[i], cast), total)

(* fill_na.                                                                 *)
Filled(matrix, voters, decisions, rep) ==
    [c \in voters \X decisions |->
        IF matrix[c] = NaN THEN CaughtMean(matrix, voters, rep, c[2]) ELSE matrix[c]]

-----------------------------------------------------------------------------
(* resolve_categorical_plurality: every voter counts once, whatever the     *)
(* reputation.  A vote is the index of an option, `options' that of         *)
(* "Inconclusive".                                                          *)

Votes(matrix, voters, j, option) == Cardinality({i \in voters : matrix[i, j] = option})

(* Deviation: of options that tie, the first wins.                          *)
FirstPlurality(matrix, voters, j, options) ==
    LET best == Max({Votes(matrix, voters, j, k) : k \in 0..options})
    IN  IF best = 0 THEN NaN
        ELSE Min({k \in 0..options : Votes(matrix, voters, j, k) = best})

Plurality(matrix, voters, j, options) ==
    LET best == Max({Votes(matrix, voters, j, k) : k \in 0..options})
        winners == {k \in 0..options : Votes(matrix, voters, j, k) = best}
    IN  IF best = 0 THEN NaN
        ELSE IF Cardinality(winners) = 1 THEN Min(winners)
        ELSE options

(* The column becomes 1.0 for those who named the winner, 0.0 for others.   *)
(* options[j] is 0 for a decision that is not categorical.                  *)
Rewritten(matrix, voters, decisions, options) ==
    [c \in voters \X decisions |->
        IF options[c[2]] = 0 \/ matrix[c] = NaN THEN matrix[c]
        ELSE IF matrix[c] = Plurality(matrix, voters, c[2], options[c[2]]) THEN Full
        ELSE 0]

-----------------------------------------------------------------------------
(* weighted_median: the value at which half of the weight is reached, or    *)
(* the mean with the next value when it is reached exactly.  The result is  *)
(* doubled, so that it is whole.                                            *)
TwiceMedian(values, weights) ==
    LET order == SetToSortSeq(DOMAIN values, LAMBDA a, b :
                    values[a] < values[b] \/ (values[a] = values[b] /\ a < b))
        Reached(k) == MapThenSumSet(LAMBDA i : weights[order[i]], 1..k)
        k == Min({i \in DOMAIN order : 2 * Reached(i) >= Total(weights)})
    IN  IF 2 * Reached(k) = Total(weights) /\ k < Len(order)
        THEN values[order[k]] + values[order[k + 1]]
        ELSE 2 * values[order[k]]

-----------------------------------------------------------------------------
(* get_reward_weights: the score of a voter times the reputation, blended   *)
(* with the part of the votes the voter cast as far as votes are missing,   *)
(* smoothed with the reputation there was.  Scores and weights are whole    *)
(* numbers over a common denominator: a positive factor changes nothing.    *)

Distance(a, b) == IF a >= b THEN a - b ELSE b - a

Reduced(f) ==
    LET values == {f[i] : i \in DOMAIN f}
        gcd == Max({1} \cup {d \in 1..Max(values) : \A v \in values : v % d = 0})
    IN  [i \in DOMAIN f |-> f[i] \div gcd]

(* normalize_weights, of weights that are not negative: all zeros count as  *)
(* equal.                                                                   *)
Weights(f) == IF Total(f) = 0 THEN [i \in DOMAIN f |-> 1] ELSE f

(* weighted_prin_comp: of one decision, its column.  The weighted mean that *)
(* is taken off every entry does not matter to what is made of the          *)
(* component.                                                               *)
FirstScore(filled, decisions, rep, score) ==
    IF Cardinality(decisions) # 1 THEN score
    ELSE [i \in DOMAIN rep |-> filled[i, CHOOSE j \in decisions : TRUE]]

(* The two ways to turn the component into scores from zero upwards.        *)
FromLeast(score) ==
    LET least == Min({score[i] : i \in DOMAIN score})
    IN  Reduced([i \in DOMAIN score |-> score[i] - least])

FromMost(score) ==
    LET most == Max({score[i] : i \in DOMAIN score})
    IN  Reduced([i \in DOMAIN score |-> most - score[i]])

(* score_reflect: what exceeds the median counts half.                      *)
ScoreReflect(component, rep) ==
    LET Reflected(twice) ==
            [i \in DOMAIN component |->
                IF Cardinality(DOMAIN component) > 2 /\ 2 * component[i] > twice
                THEN 2 * component[i] + twice
                ELSE 4 * component[i]]
    IN  Reflected(TwiceMedian(component, rep))

(* How near a voter is to the outcome by the reputation there was, for the  *)
(* distances to it.                                                         *)
Compliance(filled, j, rep) ==
    LET outcome == CaughtMean(filled, DOMAIN rep, rep, j)
    IN  Weights(FromMost([i \in DOMAIN rep |-> Distance(filled[i, j], outcome)]))

(* The sum of (a/A - c/C)^2, times (A*C)^2.                                 *)
SquaredDistance(a, c) ==
    LET A == Total(a)
        C == Total(c)
    IN  MapThenSumSet(LAMBDA i : (a[i] * C - c[i] * A) * (a[i] * C - c[i] * A), DOMAIN a)

(* Of two ways, the first is more like the compliance of the voters.        *)
MoreCompliant(a, b, c) ==
    SquaredDistance(a, c) * Total(b) * Total(b) < SquaredDistance(b, c) * Total(a) * Total(a)

ChosenScores(filled, decisions, rep, first) ==
    LET Chosen(least, most) ==
            IF \/ Cardinality(decisions) # 1
               \/ MoreCompliant(least, most,
                                Compliance(filled, CHOOSE j \in decisions : TRUE, rep))
            THEN least ELSE most
    IN  Chosen(Weights(ScoreReflect(FromLeast(first), rep)),
               Weights(ScoreReflect(FromMost(first), rep)))

CastBy(matrix, decisions, i) == Cardinality({j \in decisions : matrix[i, j] # NaN})

Rewarded(filled, decisions, rep, score) ==
    LET first == FirstScore(filled, decisions, rep, score)
        chosen == ChosenScores(filled, decisions, rep, first)
    IN  IF \A i, k \in DOMAIN first : first[i] = first[k] THEN rep
        ELSE Weights([i \in DOMAIN rep |-> rep[i] * chosen[i]])

Participation(matrix, decisions, voters) ==
    LET cast == [i \in voters |-> CastBy(matrix, decisions, i)]
    IN  IF Total(cast) = 0 THEN [i \in voters |-> 1] ELSE cast

Smooth(matrix, filled, decisions, rep, score) ==
    LET voters == DOMAIN rep
        cells == Cardinality(voters) * Cardinality(decisions)
        cast == MapThenSumSet(LAMBDA i : CastBy(matrix, decisions, i), voters)
        Blend(new, part) ==
            [i \in voters |->
                AlphaNum * Total(rep) * (new[i] * cast * Total(part)
                                            + part[i] * (cells - cast) * Total(new))
                  + (AlphaDen - AlphaNum) * rep[i] * cells * Total(new) * Total(part)]
    IN  Blend(Rewarded(filled, decisions, rep, score), Participation(matrix, decisions, voters))

(* The end of run_consensus: the smoothed weights are scaled to the         *)
(* reputation there was and rounded, and the first of those with most gets  *)
(* the difference.                                                          *)
FirstMost(rep) ==
    CHOOSE i \in DOMAIN rep :
        \A k \in DOMAIN rep : rep[k] < rep[i] \/ (rep[k] = rep[i] /\ i =< k)

(* Deviation: the difference that rounding makes is left.                   *)
ScaledUnbalanced(rep, smooth) ==
    [i \in DOMAIN rep |-> Nearest(smooth[i] * Total(rep), Total(smooth))]

Scaled(rep, smooth) ==
    LET rounded == [i \in DOMAIN rep |-> Nearest(smooth[i] * Total(rep), Total(smooth))]
    IN  [rounded EXCEPT ![FirstMost(rounded)] = @ + Total(rep) - Total(rounded)]

-----------------------------------------------------------------------------
(* factory and run_consensus.  Scaled decisions take the weighted median,   *)
(* the others the caught mean; a categorical decision is the index of its   *)
(* winner, or neutral, and `winner' keeps the winner.  kinds[j] is binary,  *)
(* scaled or the number of options.  NaN if nobody voted.                   *)

Outcome(matrix, filled, weights, kinds, j) ==
    LET voters == DOMAIN weights
        winner == Plurality(matrix, voters, j, kinds[j].options)
    IN  CASE kinds[j].kind = "categorical" ->
               IF winner # NaN /\ winner < kinds[j].options THEN winner * Full ELSE Neutral
          [] kinds[j].kind # "categorical" /\ Cast(matrix, voters, j) = {} -> NaN
          [] kinds[j].kind = "scaled" ->
               TwiceMedian([i \in voters |-> filled[i, j]], weights) \div 2
          [] OTHER -> CaughtMean(filled, voters, weights, j)

RunConsensus(matrix, decisions, rep, kinds, score) ==
    LET voters == DOMAIN rep
        options == [j \in decisions |-> kinds[j].options]
        rewritten == Rewritten(matrix, voters, decisions, options)
        filled == Filled(rewritten, voters, decisions, rep)
        Result(smooth) ==
            [outcomes |-> [j \in decisions |-> Outcome(matrix, filled, smooth, kinds, j)],
             updated |-> Scaled(rep, smooth)]
    IN  Result(Smooth(rewritten, filled, decisions, rep, score))

-----------------------------------------------------------------------------
(* is_vote_correct, of payouts.rs: an abstention never is.  A vote on a    *)
(* scaled decision is right within 0.05 of the outcome, but a vote of 0.0   *)
(* or 1.0 is stored as a binary vote and must be met exactly.  A vote for   *)
(* "Inconclusive" is right when the outcome is neutral.                     *)
IsVoteCorrect(vote, outcome, kind) ==
    /\ vote # NaN
    /\ CASE kind.kind = "categorical" ->
               \/ vote * Full = outcome
               \/ outcome = Neutral /\ vote = kind.options
         [] kind.kind = "scaled" /\ vote \notin {0, Full} ->
               (IF vote > outcome THEN vote - outcome ELSE outcome - vote) * 20 =< Full
         [] OTHER -> vote = outcome
=============================================================================
