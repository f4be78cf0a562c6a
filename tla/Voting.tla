------------------------------- MODULE Voting -------------------------------
(***************************************************************************)
(* Voting and reputation as blocks apply and revert them (lib/state/voting,*)
(* lib/state/reputation.rs, lib/validation/vote.rs and their part of       *)
(* lib/state/block.rs).  Decisions were claimed before the modelled blocks *)
(* and go to Voting and to Resolved with the period of the block; votes    *)
(* and ballots are collected and stored at the end of the block, transfers *)
(* of reputation are applied at once, and the consensus of a period that   *)
(* closed is computed after both.                                          *)
(*                                                                         *)
(* As in Markets, the databases are one record, db, whose `ok' becomes     *)
(* FALSE where the code returns an error.  An address is a number.         *)
(***************************************************************************)
EXTENDS ConsensusMath

CONSTANTS
    Addresses,          \* voters and receivers of reputation: numbers
    FirstReputation,    \* reputation at first, in units: what genesis made of it
    Decisions,          \* the decisions: numbers
    PeriodIndex,        \* the period each was claimed for
    Kinds,              \* its kind and number of options
    Requests,           \* transactions: votes, ballots and transfers
    Scores,             \* what the principal component may say of the voters
    Radix,              \* values of a byte (256)
    MaxPeriod,          \* bound on the period of a block
    Scopes,             \* bounds on a behaviour: see Scope
    None

(* blocks of the chain, transactions per block, blocks disconnected, the    *)
(* periods of blocks and the transactions that occur                        *)
Scope == [height : Nat, txs : Nat, disconnects : Nat, periods : SUBSET (1..MaxPeriod),
          requests : SUBSET Requests]

Anchor == Total(FirstReputation)      \* INITIAL_REPUTATION_TOTAL, in units

ASSUME VotingAssumption ==
    /\ Addresses \subseteq Nat /\ FirstReputation \in [Addresses -> Nat]
    /\ Decisions \subseteq Nat /\ PeriodIndex \in [Decisions -> 1..MaxPeriod]
    /\ Kinds \in [Decisions -> [kind : {"binary", "scaled", "categorical"}, options : Nat]]
    /\ Scores \subseteq [Addresses -> Int]
    /\ Radix \in Nat \ {0, 1}
    /\ Scopes \subseteq Scope

VARIABLES
    blocks,             \* connected blocks: period, transactions, scores
    db,                 \* the databases
    before,             \* history variable: db before each connected block
    scope               \* the bounds, with the number of disconnects left

vars == <<blocks, db, before, scope>>

Fail(d) == [d EXCEPT !.ok = FALSE]

VotingPeriod(decision) == PeriodIndex[decision] + 1

NoUndo == [h \in {} |-> <<>>]
PutKey(f, k, v) == [x \in DOMAIN f \cup {k} |-> IF x = k THEN v ELSE f[x]]
DeleteKey(f, k) == [x \in DOMAIN f \ {k} |-> f[x]]

(* Heights of the modelled blocks begin at 1.                               *)
EmptyDb ==
    [ok |-> TRUE,
     reputation |-> FirstReputation,
     history |-> [x \in Decisions |-> <<[state |-> "Claimed", height |-> 0]>>],
     votes |-> {},
     outcomes |-> [x \in Decisions |-> None],
     period_stats |-> {},
     consensus_undo |-> NoUndo, transfer_undo |-> NoUndo]

StateOf(d, decision) == Last(d.history[decision]).state

-----------------------------------------------------------------------------
(* Reputation: an address without any has no entry.                         *)

Holders(d) == {a \in Addresses : d.reputation[a] > 0}

SetReputation(d, a, amount) == [d EXCEPT !.reputation[a] = IF amount > 0 THEN amount ELSE 0]

(* clear_and_restore.                                                       *)
ClearAndRestore(d, snapshot) ==
    [d EXCEPT !.reputation = [a \in Addresses |-> IF a \in DOMAIN snapshot THEN snapshot[a] ELSE 0]]

-----------------------------------------------------------------------------
(* The table of votes.  A key is period, voter and decision; the period is  *)
(* a little-endian u32 in the key, so the order of the keys is not that of  *)
(* the periods.                                                             *)

PutVote(d, v) ==
    [d EXCEPT !.votes = {w \in @ : <<w.voter, w.decision>> # <<v.voter, v.decision>>} \cup {v}]

DeleteVote(d, voter, decision) ==
    [d EXCEPT !.votes = {w \in @ : <<w.voter, w.decision>> # <<voter, decision>>}]

HasVote(d, voter, decision) == \E v \in d.votes : v.voter = voter /\ v.decision = decision

PeriodOf(v) == VotingPeriod(v.decision)

SortsBefore(p, q) ==
    \/ p % Radix < q % Radix
    \/ p % Radix = q % Radix /\ p \div Radix < q \div Radix

(* get_votes_for_period: the scan ends at the first key of a later period.  *)
VotesForPeriod(d, period) ==
    {v \in d.votes : /\ PeriodOf(v) = period
                     /\ ~\E w \in d.votes : PeriodOf(w) > period /\ SortsBefore(PeriodOf(w), period)}

-----------------------------------------------------------------------------
(* Validation against the state of the previous block: validate_vote_       *)
(* submission, validate_ballot and validate_reputation_transfer.  The       *)
(* signature of the voter, and an input of the sender, are taken as given.  *)

ValidVoteValue(kind, value) ==
    value = NaN \/ value \in 0..(IF kind.kind = "categorical" THEN kind.options ELSE Full)

ValidateVoteItem(d, voter, item) ==
    /\ ValidVoteValue(Kinds[item.decision], item.value)
    /\ StateOf(d, item.decision) = "Voting"
    /\ ~HasVote(d, voter, item.decision)

(* A vote is a ballot of one item.  A ballot names no decision twice.       *)
ValidateBallot(d, tx) ==
    /\ d.reputation[tx.voter] > 0
    /\ \A i \in DOMAIN tx.items : ValidateVoteItem(d, tx.voter, tx.items[i])
    /\ \A i, j \in DOMAIN tx.items : tx.items[i].decision = tx.items[j].decision => i = j

ValidateReputationTransfer(d, tx) ==
    /\ tx.amount > 0
    /\ tx.sender # tx.dest
    /\ d.reputation[tx.sender] >= tx.amount

ValidateTransaction(d, tx) ==
    IF tx.kind = "transfer" THEN ValidateReputationTransfer(d, tx) ELSE ValidateBallot(d, tx)

-----------------------------------------------------------------------------
(* Applying transactions.  A step is the databases and the votes collected. *)

(* apply_submit_vote, apply_submit_ballot: the period of the transaction is *)
(* that of its decisions.                                                   *)
ApplySubmitBallot(step, tx, height) ==
    IF \E i \in DOMAIN tx.items : VotingPeriod(tx.items[i].decision) # tx.period
    THEN [step EXCEPT !.db.ok = FALSE]
    ELSE [step EXCEPT !.submissions = @ \o
            [i \in DOMAIN tx.items |-> [voter |-> tx.voter, decision |-> tx.items[i].decision,
                                        value |-> tx.items[i].value, height |-> height]]]

Transferred(d, tx, height) ==
    LET entry == [sender |-> tx.sender, sender_pre |-> d.reputation[tx.sender],
                  receiver |-> tx.dest, receiver_pre |-> d.reputation[tx.dest]]
        undo == IF height \in DOMAIN d.transfer_undo THEN d.transfer_undo[height] ELSE <<>>
        moved == SetReputation(SetReputation(d, tx.sender, entry.sender_pre - tx.amount),
                               tx.dest, entry.receiver_pre + tx.amount)
    IN  [moved EXCEPT !.transfer_undo = PutKey(@, height, Append(undo, entry))]

(* Deviation: the reputation is only checked before the block.              *)
ApplyTransferUnchecked(step, tx, height) ==
    [step EXCEPT !.db = Transferred(@, tx, height)]

ApplyTransferReputation(step, tx, height) ==
    IF step.db.reputation[tx.sender] < tx.amount THEN [step EXCEPT !.db.ok = FALSE]
    ELSE [step EXCEPT !.db = Transferred(@, tx, height)]

ApplyTransaction(step, tx, height) ==
    IF ~step.db.ok THEN step
    ELSE IF tx.kind = "transfer" THEN ApplyTransferReputation(step, tx, height)
    ELSE ApplySubmitBallot(step, tx, height)

-----------------------------------------------------------------------------
(* Decisions follow the period of the block.                                *)

Transition(d, decisions, state, height) ==
    [d EXCEPT !.history = [x \in Decisions |->
        IF x \in decisions THEN Append(@[x], [state |-> state, height |-> height]) ELSE @[x]]]

(* get_claimed_decisions_needing_voting.                                    *)
NeedVoting(d, period) == {x \in Decisions : StateOf(d, x) = "Claimed" /\ period > PeriodIndex[x]}

(* get_voting_decisions_needing_resolution.                                 *)
NeedResolution(d, period) == {x \in Decisions : StateOf(d, x) = "Voting" /\ period > VotingPeriod(x)}

-----------------------------------------------------------------------------
(* The consensus of a closed period.                                        *)

HasOutcomes(d, period) == \E x \in Decisions : VotingPeriod(x) = period /\ d.outcomes[x] # None

(* compute_consensus: no result when the period has outcomes or nobody has  *)
(* reputation; neutral outcomes when nobody voted.  A vote whose voter has  *)
(* no reputation any more has no row in the matrix: an error.               *)
VoteMatrix(votes, voters, decisions) ==
    [c \in voters \X decisions |->
        LET cast == {v \in votes : v.voter = c[1] /\ v.decision = c[2]}
        IN  IF cast = {} THEN NaN ELSE (CHOOSE v \in cast : TRUE).value]

(* Deviation: a decision that nobody voted on gets no outcome.              *)
VotedOutcomes(computed) ==
    [x \in {y \in DOMAIN computed : computed[y] # NaN} |-> computed[x]]

(* Unanimous abstention is neutral.                                         *)
DecisionOutcomes(computed) ==
    [x \in DOMAIN computed |-> IF computed[x] = NaN THEN Neutral ELSE computed[x]]

ComputeConsensus(d, period, decisions, score) ==
    LET votes == VotesForPeriod(d, period)
        voters == Holders(d)
        rep == [a \in voters |-> d.reputation[a]]
        Result(kind, outcomes, updated) ==
            [kind |-> kind, outcomes |-> outcomes, updated |-> updated]
        Some(result) == Result("some", DecisionOutcomes(result.outcomes), result.updated)
        neutral == [x \in decisions |-> Neutral]
    IN  CASE HasOutcomes(d, period) -> Result("none", neutral, rep)
          [] ~HasOutcomes(d, period) /\ votes = {} -> Result("some", neutral, <<>>)
          [] OTHER ->
               IF voters = {} THEN Result("none", neutral, rep)
               ELSE IF \E v \in votes : v.value # NaN
                                        /\ (v.voter \notin voters \/ v.decision \notin decisions)
               THEN Result("error", neutral, rep)
               ELSE Some(RunConsensus(VoteMatrix(votes, voters, decisions), decisions, rep,
                                      Kinds, [a \in voters |-> score[a]]))

(* compute_post_consensus_reputation, of a computed update.                 *)
PostReputation(pre, updated) ==
    [a \in DOMAIN pre |-> IF a \in DOMAIN updated THEN updated[a] ELSE pre[a]]

LastMost(rep) ==
    CHOOSE i \in DOMAIN rep :
        \A k \in DOMAIN rep : rep[k] < rep[i] \/ (rep[k] = rep[i] /\ k =< i)

(* reanchor_to_initial_total.                                               *)
Reanchored(post) ==
    IF DOMAIN post = {} THEN post ELSE [post EXCEPT ![LastMost(post)] = @ + Anchor - Total(post)]

(* verify_reputation_conservation: the sum of reputation neither moves nor  *)
(* leaves the anchor.                                                       *)
ConservationVerified(pre, post) == Total(post) = Total(pre) /\ Total(post) = Anchor

ValidateConsensusCommit(d, decisions) == \A x \in decisions : d.history[x] # <<>>

CommitConsensusResult(d, period, result, height) ==
    LET pre == [a \in Holders(d) |-> d.reputation[a]]
        post == PostReputation(pre, result.updated)
        decisions == DOMAIN result.outcomes
        stored == [ClearAndRestore(d, Reanchored(post)) EXCEPT
                    !.outcomes = [x \in Decisions |-> IF x \in decisions THEN result.outcomes[x] ELSE @[x]],
                    !.period_stats = @ \cup {period}]
    IN  IF ~ValidateConsensusCommit(d, decisions) \/ ~ConservationVerified(pre, post)
        THEN [db |-> Fail(d), undo |-> <<>>]
        ELSE [db |-> Transition(stored, decisions, "Resolved", height),
              undo |-> <<[period |-> period, decisions |-> decisions,
                          had_stats |-> period \in d.period_stats, pre |-> pre]>>]

CalculateAndStore(acc, period, decisions, score, height) ==
    LET Stored(done) == [db |-> done.db, undo |-> acc.undo \o done.undo]
        Commit(result) ==
            CASE result.kind = "none" -> acc
              [] result.kind = "error" -> [acc EXCEPT !.db.ok = FALSE]
              [] OTHER -> Stored(CommitConsensusResult(acc.db, period, result, height))
    IN  IF ~acc.db.ok THEN acc ELSE Commit(ComputeConsensus(acc.db, period, decisions, score))

(* Periods are resolved in ascending order.                                 *)
ResolvePeriods(d, current, score, height) ==
    LET ready == NeedResolution(d, current)
        periods == SetToSortSeq({VotingPeriod(x) : x \in ready}, LAMBDA p, q : p < q)
        WithUndo(all) ==
            IF all.undo = <<>> THEN all.db
            ELSE [all.db EXCEPT !.consensus_undo = PutKey(@, height, all.undo)]
    IN  WithUndo(FoldLeft(LAMBDA acc, p : CalculateAndStore(
                              acc, p, {x \in ready : VotingPeriod(x) = p}, score, height),
                          [db |-> d, undo |-> <<>>], periods))

-----------------------------------------------------------------------------
(* connect_prevalidated and disconnect_tip, as far as voting goes.          *)

Connected(d, period, txs, score, height) ==
    LET opened == Transition(d, NeedVoting(d, period), "Voting", height)
        step == FoldLeft(LAMBDA s, tx : ApplyTransaction(s, tx, height),
                         [db |-> opened, submissions |-> <<>>], txs)
        stored == FoldLeft(PutVote, step.db, step.submissions)
    IN  IF ~step.db.ok THEN step.db ELSE ResolvePeriods(stored, period, score, height)

(* Deviation: the reputation is left as the consensus made it.              *)
RevertConsensusOutcomes(d, entry) ==
    [d EXCEPT !.outcomes = [x \in Decisions |-> IF x \in entry.decisions THEN None ELSE @[x]],
              !.period_stats = IF entry.had_stats THEN @ ELSE @ \ {entry.period}]

RevertConsensusEntry(d, entry) ==
    ClearAndRestore(
        [d EXCEPT !.outcomes = [x \in Decisions |-> IF x \in entry.decisions THEN None ELSE @[x]],
                  !.period_stats = IF entry.had_stats THEN @ ELSE @ \ {entry.period}],
        entry.pre)

RevertConsensus(d, height) ==
    IF height \notin DOMAIN d.consensus_undo THEN d
    ELSE [FoldLeft(RevertConsensusEntry, d, Reverse(d.consensus_undo[height]))
            EXCEPT !.consensus_undo = DeleteKey(@, height)]

(* Deviation: only the first vote of a ballot is deleted.                   *)
RevertFirstVote(d, tx) ==
    IF tx.kind = "transfer" THEN d ELSE DeleteVote(d, tx.voter, tx.items[1].decision)

(* revert_submit_vote, revert_submit_ballot.                                *)
RevertSubmitBallot(d, tx) ==
    IF tx.kind = "transfer" THEN d
    ELSE FoldLeft(LAMBDA x, item : DeleteVote(x, tx.voter, item.decision), d, tx.items)

RevertTransfers(d, height) ==
    IF height \notin DOMAIN d.transfer_undo THEN d
    ELSE [FoldLeft(LAMBDA x, e : SetReputation(SetReputation(x, e.sender, e.sender_pre),
                                               e.receiver, e.receiver_pre),
                   d, Reverse(d.transfer_undo[height]))
            EXCEPT !.transfer_undo = DeleteKey(@, height)]

(* rollback_decision_states_to_height: later states are dropped.            *)
RollbackDecisionStates(d, height) ==
    [d EXCEPT !.history = [x \in Decisions |-> SelectSeq(@[x], LAMBDA e : e.height =< height)]]

Disconnected(d, block, height) ==
    LET unvoted == FoldLeft(RevertSubmitBallot, RevertConsensus(d, height), Reverse(block.txs))
    IN  RollbackDecisionStates(RevertTransfers(unvoted, height), height - 1)

-----------------------------------------------------------------------------
(* What wallets and the RPC interface are told of a voting period, computed *)
(* from its boundaries and not from the states of its decisions.            *)

(* calculate_period_status, by the period in which the time falls.          *)
PeriodStatus(d, period, current) ==
    IF period \in d.period_stats THEN "Resolved"
    ELSE IF current > period THEN "Closed"
    ELSE IF current >= period THEN "Active" ELSE "Pending"

(* get_decision_ids_for_period.                                             *)
DecisionsOf(period) == {x \in Decisions : PeriodIndex[x] = period - 1}

-----------------------------------------------------------------------------
Init ==
    /\ blocks = <<>>
    /\ db = EmptyDb
    /\ before = <<>>
    /\ scope \in Scopes

(* The period of a block follows from the time of its mainchain block,      *)
(* which may also step back.                                                *)
ConnectBlock(period, txs, score) ==
    /\ Len(blocks) < scope.height
    /\ \A i \in DOMAIN txs : ValidateTransaction(db, txs[i])
    /\ \E after \in {Connected(db, period, txs, score, Len(blocks) + 1)} :
        /\ after.ok
        /\ db' = after
        /\ blocks' = Append(blocks, [period |-> period, txs |-> txs])
        /\ before' = Append(before, db)
        /\ UNCHANGED scope

DisconnectTip ==
    /\ blocks # <<>>
    /\ scope.disconnects > 0
    /\ db' = Disconnected(db, Last(blocks), Len(blocks))
    /\ blocks' = Front(blocks)
    /\ before' = Front(before)
    /\ scope' = [scope EXCEPT !.disconnects = @ - 1]

Next ==
    \/ \E period \in scope.periods, n \in 0..scope.txs, score \in Scores :
          \E txs \in [1..n -> scope.requests] : ConnectBlock(period, txs, score)
    \/ DisconnectTip

Spec == Init /\ [][Next]_vars

-----------------------------------------------------------------------------
(* Properties.                                                              *)

(* Types, and no error is left in the databases.                            *)
TypeOK ==
    /\ db.ok
    /\ db.reputation \in [Addresses -> Nat]
    /\ \A v \in db.votes : v.voter \in Addresses /\ v.decision \in Decisions
    /\ db.period_stats \subseteq 1..MaxPeriod
    /\ DOMAIN db.consensus_undo \cup DOMAIN db.transfer_undo \subseteq 1..Len(blocks)
    /\ scope \in Scope

(* Reputation is neither made nor lost by transfers, by the consensus and   *)
(* its roundings, or by undoing either.  verify_reputation_conservation     *)
(* makes any drift an error of every later block that closes a period.      *)
ReputationConserved == Total(db.reputation) = Anchor

(* The table holds the votes of the blocks of the chain and no others, the  *)
(* last of a voter on a decision when a block has several.                  *)
Submissions ==
    FlattenSeq([h \in DOMAIN blocks |->
        FlattenSeq([i \in DOMAIN blocks[h].txs |->
            LET tx == blocks[h].txs[i]
            IN  IF tx.kind = "transfer" THEN <<>>
                ELSE [k \in DOMAIN tx.items |->
                        [voter |-> tx.voter, decision |-> tx.items[k].decision,
                         value |-> tx.items[k].value, height |-> h]]])])

VotesOfChain ==
    LET cast == Submissions
    IN  db.votes = {cast[i] : i \in {k \in DOMAIN cast :
                        \A l \in DOMAIN cast :
                            l > k => \/ cast[l].voter # cast[k].voter
                                     \/ cast[l].decision # cast[k].decision}}

(* A decision has an outcome exactly when it is resolved, its period then   *)
(* has its statistics, and no decision of a period that was resolved is     *)
(* left in voting: compute_consensus skips such a period for ever.          *)
PeriodsResolvedWhole ==
    \A x \in Decisions :
        /\ (db.outcomes[x] # None) <=> (StateOf(db, x) = "Resolved")
        /\ (VotingPeriod(x) \in db.period_stats) <=> (StateOf(db, x) = "Resolved")

(* The scan for the votes of a period that is still to be resolved finds    *)
(* all of them, although it ends at the first key of a later period and     *)
(* the keys are not in the order of the periods.                            *)
ConsensusSeesAllVotes ==
    \A x \in Decisions :
        StateOf(db, x) = "Voting" =>
            VotesForPeriod(db, VotingPeriod(x))
                = {v \in db.votes : PeriodOf(v) = VotingPeriod(x)}

(* What the consensus counts is what the chain says: no vote is missed,     *)
(* none is counted that was overwritten or undone.                          *)
VotesCounted == VotesOfChain /\ ConsensusSeesAllVotes

(* A block that closes periods connects, unless a voter of one of them has  *)
(* no reputation left: then no such block connects.                         *)
Stranded(x) ==
    \E v \in db.votes :
        PeriodOf(v) = VotingPeriod(x) /\ v.value # NaN /\ db.reputation[v.voter] = 0

PeriodsClose ==
    \A period \in 1..MaxPeriod, score \in Scores :
        LET after == Connected(db, period, <<>>, score, Len(blocks) + 1)
        IN  after.ok <=> ~\E x \in NeedResolution(db, period) : Stranded(x)

(* While the time of blocks does not step back, the status that is shown of *)
(* a period is what blocks made of its decisions: active exactly while they *)
(* are voted on, and never closed without a result.                         *)
PeriodStatusTruthful ==
    LET current == Last(blocks).period
        Shown(x) == PeriodStatus(db, VotingPeriod(x), current)
    IN  (blocks # <<>> /\ \A i, j \in DOMAIN blocks : i < j => blocks[i].period =< blocks[j].period)
          => \A period \in 2..MaxPeriod : \A x \in DecisionsOf(period) :
                /\ StateOf(db, x) = "Voting" <=> Shown(x) = "Active"
                /\ StateOf(db, x) = "Resolved" <=> Shown(x) = "Resolved"
                /\ Shown(x) # "Closed"

(* The records of a period agree with one another and with what is shown.   *)
PeriodsWhole == TypeOK /\ PeriodsResolvedWhole /\ PeriodStatusTruthful

Stack == INSTANCE BlockStack WITH current <- db, found <- before

(* The databases of voting implement a stack of blocks: disconnecting a     *)
(* block restores votes, reputation, outcomes, statistics and the states of *)
(* decisions.                                                               *)
DisconnectRestores == Stack!Spec
=============================================================================
