------------------------------ MODULE MCVoting ------------------------------
(* Instances of Voting for TLC.                                            *)
EXTENDS Voting

(* Three holders, the third with the least there is; a fourth without any. *)
MCReputation == <<11, 8, 1, 0>>

(* Two decisions are voted on in period 3, one in period 4, whose keys come *)
(* first when a byte has two values.                                        *)
MCPeriodIndex == <<2, 2, 3>>

MCKinds == <<[kind |-> "binary", options |-> 0], [kind |-> "categorical", options |-> 2],
             [kind |-> "scaled", options |-> 0]>>

Item(decision, value) == [decision |-> decision, value |-> value]
Ballot(voter, period, items) ==
    [kind |-> "ballot", voter |-> voter, period |-> period, items |-> items]
Transfer(sender, dest, amount) ==
    [kind |-> "transfer", sender |-> sender, dest |-> dest, amount |-> amount]

(* One transaction a block, through two periods of voting.                  *)
LongRequests ==
    {Ballot(1, 3, <<Item(1, 20), Item(2, 1)>>), Ballot(2, 3, <<Item(2, 0)>>),
     Ballot(3, 3, <<Item(1, NaN)>>), Ballot(2, 4, <<Item(3, 13)>>), Transfer(2, 4, 8)}

(* Two transactions a block: votes repeated, reputation passed on and spent *)
(* twice, a ballot for the wrong period.                                    *)
PairedRequests ==
    {Ballot(1, 3, <<Item(1, 20), Item(2, 1)>>), Ballot(1, 3, <<Item(1, 0)>>),
     Ballot(4, 3, <<Item(2, 2)>>), Ballot(1, 4, <<Item(1, 20)>>),
     Transfer(1, 4, 6), Transfer(4, 2, 6)}

MCRequests == LongRequests \cup PairedRequests

MCScores == {<<0, 0, 0, 0>>, <<1, -1, -2, 0>>}

MCScopes ==
    {[height |-> 5, txs |-> 1, disconnects |-> 1, periods |-> 3..5, requests |-> LongRequests],
     [height |-> 3, txs |-> 2, disconnects |-> 1, periods |-> 3..5, requests |-> PairedRequests]}
=============================================================================
