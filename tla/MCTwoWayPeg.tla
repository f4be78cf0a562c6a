---------------------------- MODULE MCTwoWayPeg -----------------------------
(* Instances of TwoWayPeg for TLC.                                         *)
EXTENDS TwoWayPeg

CONSTANTS d1, u1

MCWithdrawals == {1, 2}

(* Long chains with one event per block, and short ones with two events,   *)
(* deposits and bundles this chain cannot know.                            *)
MCScopes ==
    {[height |-> 6, events |-> 1, disconnects |-> 3, outside |-> {}],
     [height |-> 3, events |-> 2, disconnects |-> 1, outside |-> {d1, u1}]}

MCForkScopes == {[height |-> 4, events |-> 1, disconnects |-> 3, outside |-> {}]}
=============================================================================
