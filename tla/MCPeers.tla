------------------------------- MODULE MCPeers -------------------------------
(* Instances of Peers for TLC.                                             *)
EXTENDS Peers

CONSTANTS a1, a2, a3, a4, a5, a6

MCKind ==
    (a1 :> "peer") @@ (a2 :> "peer") @@ (a3 :> "silent")
    @@ (a4 :> "mute") @@ (a5 :> "foreign") @@ (a6 :> "invalid")

Nothing ==
    [known |-> {}, names |-> {}, height |-> 0, dials |-> 0, forgets |-> 0, incoming |-> 0,
     duplicates |-> 0, closes |-> 0, timeouts |-> 0, refusals |-> 0, discards |-> 0]

Name(addrs) == [domain |-> TRUE, addrs |-> addrs]

(* Catching up with one peer, and with two; answers that are refused, late  *)
(* or thrown away; the addresses that are no peers, one by one, and the     *)
(* operator; a host name; connections from both sides at once.              *)
MCCases ==
    {[Nothing EXCEPT !.known = {a1}, !.height = 3],
     [Nothing EXCEPT !.known = {a1, a2}, !.height = 1],
     [Nothing EXCEPT !.known = {a1}, !.height = 2, !.refusals = 1, !.discards = 1,
                     !.timeouts = 1],
     [Nothing EXCEPT !.known = {a1, a3}, !.dials = 1, !.forgets = 1, !.closes = 1],
     [Nothing EXCEPT !.known = {a5, a6}, !.names = {Name(<<a6, a4, a1>>)}, !.closes = 1,
                     !.timeouts = 1],
     [Nothing EXCEPT !.known = {a1}, !.incoming = 2, !.closes = 1, !.duplicates = 1]}
=============================================================================
