------------------------------ MODULE Listings ------------------------------
(***************************************************************************)
(* How the node's clients claim decisions: a slot is picked and its fee    *)
(* quoted from the state of the tip and the claims pending in the mempool  *)
(* (allocate_decision_slots), the transaction is validated in the mempool  *)
(* at the height of the tip, and a block validates it at the next height.  *)
(*   request    [period, kind, labels]: a decision to be claimed           *)
(*   dimension  [existing, id, request] of a market to be created          *)
(***************************************************************************)
EXTENDS Decisions, SequencesExt

-----------------------------------------------------------------------------
(* The period that the clients and the mempool see: that of the tip.       *)
ContextPeriod ==
    GetCurrentPeriod(mainchain_timestamp, TipHeight, genesis_timestamp)

(* Slots of a period are offered as long as it is in the claim window.     *)
PeriodOffered(p, current) == p >= current /\ p - current < FuturePeriods

(* The slots that the mint events have unlocked, tier by tier.             *)
AvailableDecisions(p) ==
    IF ~PeriodOffered(p, ContextPeriod) \/ Row(p) = NoPricing THEN {}
    ELSE LET indexes == {tier * SlotsPerTier + pos :
                            tier \in 0..TierCount - 1, pos \in 0..(Row(p).mints * SlotsPerMint) - 1}
         IN  {d \in StandardIn(DecisionIds, p) : d.decision_index \in indexes} \ claimed

FeeForDecision(d) == FeeForIndex(Row(d.period_index).p_period, d.decision_index)

(* What a request must say of the decision's type.                         *)
KindAccepted(request) ==
    request.kind \in {"binary", "scaled", "category"}
        /\ (request.kind = "category" => request.labels >= 2)

Free(p, taken) ==
    {d \in AvailableDecisions(p) :
        SlotUnlocked(d.decision_index, Row(p).mints) /\ d \notin taken}

(* Deviation: the slots picked for the same call are forgotten.            *)
PickForgetful(request, pending, picked) ==
    CHOOSE d \in Free(request.period, pending) :
        \A e \in Free(request.period, pending) : d.decision_index =< e.decision_index

(* The lowest free index, which lies in the cheapest tier.                 *)
Pick(request, pending, picked) ==
    CHOOSE d \in Free(request.period, pending \cup picked) :
        \A e \in Free(request.period, pending \cup picked) : d.decision_index =< e.decision_index

(* One slot for each request, in order; the call fails as a whole.         *)
AllocateSlots(requests, pending) ==
    FoldLeft(LAMBDA a, r :
                LET picked == Range(a.slots)
                IN  IF a.ok /\ r.period \in Periods /\ Row(r.period) # NoPricing
                           /\ Free(r.period, pending \cup picked) # {}
                    THEN LET d == Pick(r, pending, picked)
                         IN  [ok |-> TRUE, slots |-> Append(a.slots, d),
                              fee |-> a.fee + FeeForDecision(d)]
                    ELSE [a EXCEPT !.ok = FALSE],
             [ok |-> TRUE, slots |-> <<>>, fee |-> 0], requests)

(* decision_claim: one payload with all the slots, which pays the fee.     *)
DecisionClaim(requests, cap, pending) ==
    LET a == AllocateSlots(requests, pending)
    IN  [ok |-> /\ \A i \in DOMAIN requests : KindAccepted(requests[i])
                /\ requests # <<>>
                /\ requests[1].kind = "category" => Len(requests) = 1
                /\ a.ok /\ a.fee =< cap,
         payloads |-> <<a.slots>>, fee |-> a.fee]

(* market_create, first half: the requests of its new dimensions.          *)
NewRequests(dimensions) ==
    LET new == SelectSeq(dimensions, LAMBDA dim : ~dim.existing)
    IN  [i \in DOMAIN new |-> new[i].request]

(* Its second half: one payload for each new decision, and the dimensions  *)
(* with every new one replaced by the slot it was given.                   *)
MarketCreate(dimensions, cap, pending) ==
    LET requests == NewRequests(dimensions)
        a        == AllocateSlots(requests, pending)
        nth(i)   == Cardinality({j \in 1..i : ~dimensions[j].existing})
    IN  [ok |-> /\ dimensions # <<>>
                /\ \A i \in DOMAIN requests : KindAccepted(requests[i])
                /\ a.ok /\ a.fee =< cap
                /\ \A i \in DOMAIN dimensions :
                      dimensions[i].existing => dimensions[i].id \in claimed,
         payloads |-> [i \in DOMAIN a.slots |-> <<a.slots[i]>>],
         ids |-> IF ~a.ok THEN <<>>
                 ELSE [i \in DOMAIN dimensions |->
                          IF dimensions[i].existing THEN dimensions[i].id ELSE a.slots[nth(i)]],
         fee |-> a.fee]

-----------------------------------------------------------------------------
(* Validation of the transaction.                                          *)

PayloadsDistinct(payloads) ==
    \A i, j \in DOMAIN payloads : payloads[i] = payloads[j] => i = j

(* validate_complete_decision_claim, and the same of the claims of a       *)
(* market: one decision per payload, each claimable, all paid for.         *)
ValidateClaims(payloads, fee, current) ==
    /\ \A i \in DOMAIN payloads :
          Len(payloads[i]) = 1 /\ ClaimValidIn(payloads[i][1], current)
    /\ PayloadsDistinct(payloads)
    /\ fee >= FoldLeft(LAMBDA sum, payload :
                          sum + (IF payload[1].is_standard THEN FeeForDecision(payload[1]) ELSE 0),
                       0, payloads)

InMempool(tx) == ValidateClaims(tx.payloads, tx.fee, ContextPeriod)

NextPeriod == GetCurrentPeriod(mainchain_timestamp, Len(chain), genesis_timestamp)

InNextBlock(tx) == ValidateClaims(tx.payloads, tx.fee, NextPeriod)
=============================================================================
