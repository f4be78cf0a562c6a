------------------------------ MODULE MCWallet ------------------------------
(* Instances of Wallet for TLC.                                            *)
EXTENDS Wallet

MCKinds == AllKinds

MCSpend == [k \in MCKinds |-> IF k \in {"claim", "ballot", "reputation"} THEN 0
                             ELSE IF k = "transfer" THEN 2 ELSE 1]

Limits(callers, kinds, txs, blocks, disconnects, pushes, removals, restarts) ==
    [callers |-> callers, kinds |-> kinds, txs |-> txs, blocks |-> blocks,
     disconnects |-> disconnects, pushes |-> pushes, removals |-> removals,
     restarts |-> restarts]

OneCaller == {CHOOSE c \in Clients : TRUE}

(* Every kind of transaction, and a reorganization; two callers; a dropped  *)
(* transaction and a restart; a pushed transaction and another one; a       *)
(* reorganization that leaves a child waiting with its parent, and claims   *)
(* that are evicted.                                                        *)
MCBounds ==
    {Limits(Clients, Kinds, 1, 2, 1, 0, 0, 0),
     Limits(Clients, {"transfer", "withdrawal", "reputation"}, 2, 1, 0, 0, 0, 0),
     Limits(Clients, {"transfer"}, 1, 2, 0, 0, 1, 1),
     Limits(Clients, {"transfer"}, 2, 1, 0, 1, 0, 0),
     Limits(OneCaller, {"claim"}, 2, 2, 1, 0, 0, 0)}
=============================================================================
