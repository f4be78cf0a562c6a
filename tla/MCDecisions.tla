---------------------------- MODULE MCDecisions -----------------------------
(* Instances of Decisions for TLC.                                         *)
EXTENDS Listings

Id(standard, period, index) ==
    [is_standard |-> standard, period_index |-> period, decision_index |-> index]

(* Two standard slots, one unlocked at once and one by a second mint, of   *)
(* the window's periods, and a non-standard decision.                      *)
MCDecisionIds == {Id(TRUE, 1, 0), Id(TRUE, 2, 0), Id(TRUE, 2, 1), Id(FALSE, 1, 0), Id(FALSE, 3, 0)}

(* Three periods of two blocks; mainchain time that stands still, skips     *)
(* periods and runs backwards.                                              *)
MCScopes ==
    {[is_blocks |-> TRUE, timestamps |-> {1}, decisions |-> DecisionIds, height |-> 6],
     [is_blocks |-> FALSE, timestamps |-> {1, 2, 3, 5},
      decisions |-> {Id(TRUE, 1, 0), Id(TRUE, 2, 0), Id(FALSE, 1, 0)}, height |-> 3]}

-----------------------------------------------------------------------------
(* What a client may ask for: slots of the tip's window, one or two at a    *)
(* time, for a market that may also use a claimed decision.                *)

Asked(p) == [existing |-> FALSE, id |-> NoPricing,
             request |-> [period |-> p, kind |-> "binary", labels |-> 0]]

Used(d) == [existing |-> TRUE, id |-> d, request |-> NoPricing]

Window == {p \in Periods : p >= ContextPeriod /\ p =< ContextPeriod + FuturePeriods}

Creations ==
    {<<Asked(p)>> : p \in Window} \cup {<<Asked(p), Asked(q)>> : p, q \in Window}
        \cup {<<Used(d), Asked(p)>> : d \in claimed, p \in Window}

Answered(tx, pending) ==
    LET slots == {tx.payloads[i][1] : i \in DOMAIN tx.payloads}
    IN  tx.ok => /\ slots \cap pending = {}
                 /\ InMempool(tx)
                 /\ InNextBlock(tx) <=> \A d \in slots : d.period_index >= NextPeriod

(* The slots that the node picks for a client, and the fee it quotes, make  *)
(* a transaction that the mempool takes and that the next block takes too,  *)
(* unless a slot's period ends with the tip; no slot is picked that another *)
(* pending transaction claims, and a market is created on decisions that    *)
(* exist once its own claims are in (allocate_decision_slots against        *)
(* validate_decision_claim, after any connected and disconnected blocks).   *)
ListingsClaimable ==
    chain # <<>> =>
        \A pending \in {{}} \cup {{d} : d \in DecisionIds \ claimed} :
            /\ \A dims \in Creations :
                  LET tx == MarketCreate(dims, MaxU64, pending)
                  IN  /\ Answered(tx, pending)
                      /\ tx.ok => \A i \in DOMAIN tx.ids :
                            tx.ids[i] \in claimed \cup {tx.payloads[j][1] : j \in DOMAIN tx.payloads}
            /\ \A p \in Window :
                  Answered(DecisionClaim(<<Asked(p).request>>, MaxU64, pending), pending)
=============================================================================
