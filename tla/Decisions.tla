----------------------------- MODULE Decisions ------------------------------
(***************************************************************************)
(* The decision registry of the sidechain state (lib/state/decisions) as   *)
(* the block pipeline drives it: connect_prevalidated applies a block's    *)
(* claims, mints and prices the window of future periods and moves         *)
(* decisions Claimed -> Voting -> Resolved; disconnect_tip undoes the tip  *)
(* block from the undo records kept per height.                            *)
(*                                                                         *)
(* A database whose absent and empty values the code does not tell apart   *)
(* is a total function with an empty value; the two tables period_decisions*)
(* (period -> entries, an entry per claimed decision) is kept as its set of*)
(* keys and the set of its entries.                                        *)
(***************************************************************************)
EXTENDS DecisionMath, Sequences, FiniteSets

CONSTANTS
    DecisionIds,        \* the decision ids transactions may claim
    FuturePeriods,      \* FUTURE_PERIODS (20): width of the claim window
    SettledAfter,       \* periods after which a period is settled (7)
    Quantity,           \* blocks or seconds per period
    Reprices,           \* MID_PERIOD_REPRICES (5)
    SecondsPerBlock,    \* SECONDS_PER_BLOCK (600)
    Timestamps,         \* mainchain timestamps a block may carry
    MaxDrift,           \* how far a mainchain timestamp may run backwards
    MaxHeight,          \* bound: blocks on a chain
    MaxPeriod,          \* bound: periods
    Scopes,             \* bounds on a behaviour: see Scope
    NoPricing           \* absent row of period_pricing

Periods == 0..MaxPeriod

(* A node counts periods in blocks (is_blocks: test networks) or in seconds *)
(* of mainchain time; its blocks carry these timestamps and claim these     *)
(* decisions, up to this height.                                            *)
Scope == [is_blocks : BOOLEAN, timestamps : SUBSET Timestamps,
          decisions : SUBSET DecisionIds, height : 0..MaxHeight]

(* PeriodPricing.                                                           *)
PricingRows ==
    [p_period : Nat, p_floor : Nat, mints : Nat, claimed : Nat,
     last_reprice_block : 0..MaxHeight, window_open_claimed : Nat,
     window_open_mints : Nat]

ASSUME DecisionsAssumption ==
    /\ DecisionIds \subseteq
         [is_standard : BOOLEAN, period_index : Periods, decision_index : Nat]
    /\ IsFiniteSet(DecisionIds)     \* an id has three bytes
    /\ FuturePeriods \in Nat \ {0}
    /\ SettledAfter \in Nat
    /\ Quantity \in Nat \ {0}
    /\ Reprices \in Nat \ {0}
    /\ SecondsPerBlock \in Nat \ {0}
    /\ Timestamps \subseteq Nat \ {0}
    /\ MaxDrift \in Nat
    /\ MaxHeight \in Nat
    /\ MaxPeriod \in Nat
    /\ Scopes \subseteq Scope
    /\ NoPricing \notin PricingRows

VARIABLES
    scope,              \* constant in a behaviour
    chain,              \* the connected blocks (bodies kept by the archive)
    period_keys,        \* keys of period_decisions: the minted periods
    claimed,            \* entries of period_decisions: the claimed decisions
    histories,          \* decision_state_histories
    period_pricing,     \* period -> pricing row
    outcomes,           \* decisions with a stored consensus outcome
    undo,               \* undo records, one per connected height
    genesis_timestamp,  \* 0: not set
    mainchain_timestamp,\* 0: not set
    before              \* history variable: the registry before each block

registry == <<claimed, histories, period_pricing, outcomes>>
vars == <<scope, chain, period_keys, claimed, histories, period_pricing,
          outcomes, undo, genesis_timestamp, mainchain_timestamp, before>>

-----------------------------------------------------------------------------
(* Periods.                                                                *)

(* The 1-based period of a block; 0 before the genesis timestamp is known. *)
GetCurrentPeriod(ts, height, genesis_ts) ==
    IF scope.is_blocks THEN height \div Quantity + 1
    ELSE IF genesis_ts = 0 \/ ts < genesis_ts THEN 0
    ELSE (ts - genesis_ts) \div Quantity + 1

VotingPeriod(d) == d.period_index + 1

HighestMinted(keys) ==
    IF keys = {} THEN 0 ELSE CHOOSE p \in keys : \A q \in keys : q =< p

BlocksPerPeriod == IF scope.is_blocks THEN Quantity ELSE Quantity \div SecondsPerBlock

Interval == RepriceInterval(BlocksPerPeriod, Reprices)

-----------------------------------------------------------------------------
(* Decision state histories.                                               *)

CurrentState(history) ==
    IF history = <<>> THEN "Created" ELSE history[Len(history)].state

Entry(state, height) == [state |-> state, height |-> height]

(* Claimed decisions whose period has passed open for voting.              *)
TransitionToVoting(hist, current, height) ==
    [d \in DecisionIds |->
        IF CurrentState(hist[d]) = "Claimed" /\ current > d.period_index
        THEN Append(hist[d], Entry("Voting", height))
        ELSE hist[d]]

(* Deviation: resolution one period late.                                  *)
NeedingResolutionLate(hist, current) ==
    {d \in DecisionIds : CurrentState(hist[d]) = "Voting" /\ current > VotingPeriod(d) + 1}

(* Voting decisions whose voting period has passed.                        *)
NeedingResolution(hist, current) ==
    {d \in DecisionIds : CurrentState(hist[d]) = "Voting" /\ current > VotingPeriod(d)}

(* calculate_and_store_consensus skips a voting period that already has    *)
(* outcomes; the rest are resolved.                                        *)
Resolvable(hist, stored, current) ==
    {d \in NeedingResolution(hist, current) :
        \A e \in stored : VotingPeriod(e) # VotingPeriod(d)}

TransitionToResolved(hist, resolved, height) ==
    [d \in DecisionIds |->
        IF d \in resolved THEN Append(hist[d], Entry("Resolved", height)) ELSE hist[d]]

(* Deviation: the roll-back keeps the claim only.                          *)
RollbackToClaimed(history, height) ==
    SubSeq(history, 1, CHOOSE n \in 0..Len(history) :
        \A i \in 1..Len(history) :
            i =< n <=> history[i].height =< height /\ history[i].state = "Claimed")

(* retain(h <= height): a prefix, since heights never decrease (LifeCycle). *)
RollbackToHeight(history, height) ==
    SubSeq(history, 1, CHOOSE n \in 0..Len(history) :
        \A i \in 1..Len(history) : i =< n <=> history[i].height =< height)

-----------------------------------------------------------------------------
(* Pricing of the claim window.                                            *)

Seeded(price, height) ==
    [p_period |-> price, p_floor |-> price \div 16, mints |-> 1, claimed |-> 0,
     last_reprice_block |-> height, window_open_claimed |-> 0,
     window_open_mints |-> 1]

GenesisPricing(mints, height) ==
    [Seeded(GenesisPrice, height) EXCEPT !.mints = mints, !.window_open_mints = mints]

ApplyReprice(row, height) ==
    LET sales     == SatSub(row.claimed, row.window_open_claimed)
        available == SatSub(PeriodCapacity(row.window_open_mints), row.window_open_claimed)
        new_p     == Reprice(row.p_period, sales, available)
    IN  IF row.last_reprice_block = height THEN row
        ELSE [row EXCEPT
                !.p_period = IF new_p < row.p_floor THEN row.p_floor ELSE new_p,
                !.last_reprice_block = height,
                !.window_open_claimed = row.claimed,
                !.window_open_mints = row.mints]

(* Mean price of the future periods current+1 .. current+FuturePeriods-1   *)
(* that have a row.                                                        *)
ComputePAverage(pricing, current) ==
    LET priced == {p \in (current + 1)..(current + FuturePeriods - 1) :
                      p \in Periods /\ pricing[p] # NoPricing}
        sum[p \in current..(current + FuturePeriods - 1)] ==
            IF p = current THEN 0
            ELSE sum[p-1] + (IF p \in priced THEN pricing[p].p_period ELSE 0)
    IN  IF priced = {} THEN GenesisPrice
        ELSE sum[current + FuturePeriods - 1] \div Cardinality(priced)

(* New periods are seeded one after the other, each from the average over  *)
(* a table that already holds the ones before it.                          *)
SeedPrices(pricing, highest, target, current, height) ==
    LET table[p \in highest..target] ==
            IF p = highest THEN pricing
            ELSE [table[p-1] EXCEPT ![p] = Seeded(ComputePAverage(table[p-1], current), height)]
    IN  [p \in (highest + 1)..target |-> table[p][p].p_period]

(* process_block_pricing on a period transition: seed the new periods, add *)
(* the missed mint events to the surviving ones and reprice those.         *)
PriceTransition(pricing, highest, current, height) ==
    LET target  == current + FuturePeriods - 1
        prev    == SatSub(highest + 1, FuturePeriods)
        seed    == SeedPrices(pricing, highest, target, current, height)
    IN  [p \in Periods |->
            IF p > highest /\ p =< target THEN Seeded(seed[p], height)
            ELSE IF p >= current /\ p =< highest /\ p =< target /\ pricing[p] # NoPricing
            THEN ApplyReprice([pricing[p] EXCEPT !.mints = @ + (current - prev)], height)
            ELSE pricing[p]]

(* process_block_pricing within a period: when the interval has elapsed for *)
(* one period of the window, all of them are repriced.                     *)
PriceWindow(pricing, current, height) ==
    LET window == {p \in Periods : p >= current /\ p =< current + FuturePeriods - 1
                                     /\ pricing[p] # NoPricing}
        due    == \E p \in window :
                    SatSub(height, pricing[p].last_reprice_block) >= Interval
    IN  [p \in Periods |->
            IF due /\ p \in window THEN ApplyReprice(pricing[p], height) ELSE pricing[p]]

ProcessBlockPricing(keys, pricing, current, height) ==
    LET highest == HighestMinted(keys)
        prev    == SatSub(highest + 1, FuturePeriods)
    IN  IF current > prev THEN PriceTransition(pricing, highest, current, height)
        ELSE PriceWindow(pricing, current, height)

MintGenesis(pricing, current, height) ==
    [p \in Periods |->
        IF p >= current /\ p =< current + FuturePeriods - 1 /\ pricing[p] = NoPricing
        THEN GenesisPricing(SatSub(FuturePeriods, p - current), height)
        ELSE pricing[p]]

MintPeriodsUpTo(keys, target) == keys \cup ((HighestMinted(keys) + 1)..target)

-----------------------------------------------------------------------------
(* Claims.                                                                 *)

(* validate_decision_claim in the period the caller takes for the current. *)
ClaimValidIn(d, current) ==
    /\ current =< d.period_index + SettledAfter
    /\ CurrentState(histories[d]) # "Voting"
    /\ d.period_index =< current + FuturePeriods - 1
    /\ d.is_standard =>
          /\ d.period_index >= current
          /\ period_pricing[d.period_index] # NoPricing
          /\ SlotUnlocked(d.decision_index, period_pricing[d.period_index].mints)
    /\ d \notin claimed

(* A claim against the state before the block: the stored timestamp of the *)
(* tip, the height of the block being validated.                           *)
ValidClaim(d) ==
    ClaimValidIn(d, GetCurrentPeriod(mainchain_timestamp, Len(chain), genesis_timestamp))

(* Deviation: the claim is stamped with the height of the parent.          *)
ClaimHistoriesEarly(hist, claims, height) ==
    [d \in DecisionIds |->
        IF d \in claims THEN <<Entry("Claimed", height - 1)>> ELSE hist[d]]

ClaimHistories(hist, claims, height) ==
    [d \in DecisionIds |->
        IF d \in claims THEN <<Entry("Claimed", height)>> ELSE hist[d]]

StandardIn(ids, p) == {d \in ids : d.is_standard /\ d.period_index = p}

(* Deviation: one increment for all claims of a period in a block.         *)
ClaimPricingOnce(pricing, claims) ==
    [p \in Periods |->
        IF StandardIn(claims, p) = {} THEN pricing[p]
        ELSE [pricing[p] EXCEPT !.claimed = @ + 1]]

ClaimPricing(pricing, claims) ==
    [p \in Periods |->
        IF StandardIn(claims, p) = {} THEN pricing[p]
        ELSE [pricing[p] EXCEPT !.claimed = @ + Cardinality(StandardIn(claims, p))]]

-----------------------------------------------------------------------------
Init ==
    /\ scope \in Scopes
    /\ chain = <<>>
    /\ period_keys = {}
    /\ claimed = {}
    /\ histories = [d \in DecisionIds |-> <<>>]
    /\ period_pricing = [p \in Periods |-> NoPricing]
    /\ outcomes = {}
    /\ undo = <<>>
    /\ genesis_timestamp = 0
    /\ mainchain_timestamp = 0
    /\ before = <<>>

(* Timestamps come from the mainchain headers, which may run backwards by  *)
(* less than MaxDrift.                                                     *)
MainchainAllows(ts) ==
    \A i \in DOMAIN chain : chain[i].ts =< ts + MaxDrift

(* connect_prevalidated: one block at height Len(chain), with a mainchain  *)
(* timestamp and the decisions its transactions claim (none in the genesis *)
(* block, which has no output to spend; no decision twice, which           *)
(* check_duplicate_decision_claims rejects).                               *)
ConnectBlock(ts, claims) ==
    LET height   == Len(chain)
        genesis  == IF height = 0 THEN ts ELSE genesis_timestamp
        current  == GetCurrentPeriod(ts, height, genesis)
        target   == current + FuturePeriods - 1
        opened   == TransitionToVoting(histories, current, height)
        entered  == ClaimHistories(opened, claims, height)
        keys     == period_keys \cup {d.period_index : d \in claims}
        priced   == ClaimPricing(period_pricing, claims)
        resolved == Resolvable(entered, outcomes, current)
    IN  /\ ts \in scope.timestamps /\ claims \subseteq scope.decisions
        /\ height =< scope.height
        /\ target =< MaxPeriod
        /\ MainchainAllows(ts)
        /\ height = 0 => claims = {}
        /\ \A d \in claims : ValidClaim(d)
        /\ genesis_timestamp' = genesis
        /\ chain' = Append(chain, [ts |-> ts, claims |-> claims])
        /\ undo' = Append(undo, [highest  |-> HighestMinted(period_keys),
                                 pricing  |-> period_pricing,
                                 resolved |-> resolved])
        /\ claimed' = claimed \cup claims
        /\ period_keys' = MintPeriodsUpTo(keys, target)
        /\ period_pricing' = IF height = 0 THEN MintGenesis(priced, current, height)
                             ELSE ProcessBlockPricing(keys, priced, current, height)
        /\ histories' = TransitionToResolved(entered, resolved, height)
        /\ outcomes' = outcomes \cup resolved
        /\ mainchain_timestamp' = ts
        /\ before' = Append(before, registry)
        /\ UNCHANGED scope

(* Reverting a claim removes the entry, and the period's row with it when  *)
(* it becomes empty.                                                       *)
RevertClaims(keys, claims, remaining) ==
    keys \ {p \in {d.period_index : d \in claims} :
               \A d \in remaining : d.period_index # p}

(* disconnect_tip: the outcomes of the block's consensus are deleted, its  *)
(* claims reverted, state histories cut back to the previous height, the   *)
(* periods it minted deleted, and the pricing table restored.              *)
DisconnectTip ==
    LET height    == Len(chain) - 1
        block     == chain[Len(chain)]
        record    == undo[Len(undo)]
        remaining == claimed \ block.claims
    IN  /\ chain # <<>>
        /\ chain' = SubSeq(chain, 1, height)
        /\ undo' = SubSeq(undo, 1, height)
        /\ outcomes' = outcomes \ record.resolved
        /\ claimed' = {d \in remaining : d.period_index =< record.highest}
        /\ period_keys' = {p \in RevertClaims(period_keys, block.claims, remaining) :
                              p =< record.highest}
        /\ histories' = IF height = 0 THEN histories
                        ELSE [d \in DecisionIds |-> RollbackToHeight(histories[d], height - 1)]
        /\ period_pricing' = record.pricing
        /\ before' = SubSeq(before, 1, height)
        /\ UNCHANGED <<scope, genesis_timestamp, mainchain_timestamp>>

Next ==
    \/ \E ts \in Timestamps, claims \in SUBSET DecisionIds : ConnectBlock(ts, claims)
    \/ DisconnectTip

Spec == Init /\ [][Next]_vars

-----------------------------------------------------------------------------
(* Properties.                                                             *)

Row(p) == period_pricing[p]
TipHeight == Len(chain) - 1
PeriodAt(i) == GetCurrentPeriod(chain[i].ts, i - 1, genesis_timestamp)
TipPeriod == PeriodAt(Len(chain))

(* Types of the registry and of its undo records, which are kept for       *)
(* exactly the connected heights.                                          *)
TypeOK ==
    /\ scope \in Scopes
    /\ chain \in Seq([ts : Timestamps, claims : SUBSET DecisionIds])
    /\ Len(chain) =< MaxHeight + 1
    /\ period_keys \subseteq Periods
    /\ claimed \subseteq DecisionIds
    /\ outcomes \subseteq DecisionIds
    /\ \A d \in DecisionIds :
          histories[d] \in Seq([state : {"Claimed", "Voting", "Resolved"}, height : 0..MaxHeight])
    /\ \A p \in Periods : Row(p) = NoPricing \/ Row(p) \in PricingRows
    /\ Len(undo) = Len(chain) /\ Len(before) = Len(chain)
    /\ genesis_timestamp \in Timestamps \cup {0}
    /\ mainchain_timestamp \in Timestamps \cup {0}

(* A decision has an entry in period_decisions exactly when its history    *)
(* says it was claimed: claim_decision writes both tables, and a reorg     *)
(* removes from each by a different rule (revert_decision_claim and        *)
(* delete_periods_above against rollback_decision_states_to_height).       *)
EntryIffHistory ==
    \A d \in DecisionIds : d \in claimed <=> histories[d] # <<>>

(* The life-cycle of every decision is Claimed, Voting, Resolved in this   *)
(* order, at heights that do not decrease and that the chain has reached,  *)
(* through any sequence of connects and disconnects.                       *)
LifeCycle ==
    \A d \in DecisionIds :
        LET h == histories[d]
        IN  /\ Len(h) =< 3
            /\ \A i \in 1..Len(h) :
                  /\ h[i].state = <<"Claimed", "Voting", "Resolved">>[i]
                  /\ h[i].height =< TipHeight
                  /\ i > 1 => h[i-1].height =< h[i].height

(* A decision is Resolved exactly when its consensus outcome is stored;    *)
(* the outcome is deleted by revert_consensus and the state by the height  *)
(* roll-back, so a reorg could leave one without the other.                *)
ResolvedIffOutcome ==
    \A d \in DecisionIds : CurrentState(histories[d]) = "Resolved" <=> d \in outcomes

(* What a reorg relies on: the block at a height carries exactly the       *)
(* claims, and its undo record exactly the resolutions, that the histories *)
(* stamp with that height, and no decision claimed below it lies in a      *)
(* period above the recorded horizon, which delete_periods_above clears.   *)
UndoExact ==
    \A i \in 1..Len(chain) :
        /\ chain[i].claims =
              {d \in DecisionIds : histories[d] # <<>> /\ histories[d][1].height = i - 1}
        /\ undo[i].resolved =
              {d \in DecisionIds : Len(histories[d]) = 3 /\ histories[d][3].height = i - 1}
        /\ \A d \in DecisionIds :
              histories[d] # <<>> /\ histories[d][1].height < i - 1
                => d.period_index =< undo[i].highest

(* The tables of the registry agree with one another and with what a reorg *)
(* will take back.                                                         *)
RecordsAgree == EntryIffHistory /\ LifeCycle /\ ResolvedIffOutcome /\ UndoExact

(* The claim counter of a priced period, which drives the reprice curve,   *)
(* is the number of standard decisions claimed in it, also after the       *)
(* counter came back from a snapshot and the entries from a revert.        *)
ClaimCounterExact ==
    \A p \in Periods : Row(p) # NoPricing =>
        Row(p).claimed = Cardinality(StandardIn(claimed, p))

(* Every standard claim sits in a slot that its period's mint count has    *)
(* unlocked, in a period that has a price: no reorg takes back the mint    *)
(* that a surviving claim relied on.                                       *)
ClaimsUnlocked ==
    \A d \in claimed : d.is_standard =>
        /\ Row(d.period_index) # NoPricing
        /\ SlotUnlocked(d.decision_index, Row(d.period_index).mints)

(* No more standard decisions are claimed in a period than it has minted.  *)
CapacityRespected ==
    \A p \in Periods : Row(p) # NoPricing =>
        Row(p).window_open_claimed =< Row(p).claimed
            /\ Row(p).claimed =< PeriodCapacity(Row(p).mints)

(* The claims and the prices of a period agree after any reorg, which      *)
(* takes each back by its own rule: the counter counts the claims, every   *)
(* claim sits in a minted slot, and no period holds more than it minted.   *)
ClaimsAccounted == TypeOK /\ ClaimCounterExact /\ ClaimsUnlocked /\ CapacityRespected

(* A standard decision is never left waiting in Voting once a block of a   *)
(* later period than its voting period is the tip: its consensus was       *)
(* computed in the first such block.  The exception is a decision claimed  *)
(* in a block that is itself past that period: claims are validated        *)
(* against the stored timestamp, which is that of the parent, or that of a *)
(* disconnected block, and another decision may have closed the period.    *)
StandardResolvedOnTime ==
    \A d \in DecisionIds :
        d.is_standard /\ CurrentState(histories[d]) = "Voting"
            => \/ TipPeriod =< VotingPeriod(d)
               \/ ~scope.is_blocks /\ PeriodAt(histories[d][1].height + 1) > VotingPeriod(d)

Stack == INSTANCE BlockStack WITH current <- registry, found <- before

(* The registry implements a stack of blocks: disconnecting the tip gives   *)
(* back the claims, the state of every decision, the prices and the stored  *)
(* outcomes that the block found.  The rows of minted periods are left out: *)
(* see MintedHorizon.                                                       *)
DisconnectRestores == Stack!Spec

-----------------------------------------------------------------------------
(* What the source says of itself and does not keep: see README, 3.2.       *)

(* The comment in process_block_pricing: between blocks the highest minted *)
(* period is the last of the tip's claim window.                           *)
MintedHorizon ==
    chain # <<>> => HighestMinted(period_keys) = TipPeriod + FuturePeriods - 1

(* Every period of the tip's claim window has a price.                     *)
WindowPriced ==
    chain # <<>> =>
        \A p \in TipPeriod..(TipPeriod + FuturePeriods - 1) : Row(p) # NoPricing

(* The stored mainchain timestamp, against which the next block's claims   *)
(* are validated, is that of the tip.                                      *)
TimestampIsTips ==
    chain # <<>> => mainchain_timestamp = chain[Len(chain)].ts

(* The debug assertion of process_block_pricing: the period derived from   *)
(* the highest minted one is never later than the connected block's.       *)
PeriodAdvances ==
    [][Len(chain') > Len(chain) =>
          LET keys == period_keys \cup {d.period_index : d \in chain'[Len(chain')].claims}
          IN  SatSub(HighestMinted(keys) + 1, FuturePeriods) =< TipPeriod']_vars
=============================================================================
