----------------------------- MODULE MCNodeSync -----------------------------
(* A mainchain with forks and the sidechain blocks its branches commit to,  *)
(* of which each environment has a part:                                    *)
(*                                                                          *)
(*   m1 <- m2 <- m3         m2 commits to s1, m3 to s2                      *)
(*            <- n3         n3, with more work than m3, commits to t2       *)
(*      <- n2               n2 commits to s1 again                          *)
(*      <- o2 <- o3         o3 commits to u2, whose parent s1 is not        *)
(*                          merge-mined on this branch                      *)
(*                                                                          *)
(*   s1 <- s2                                                               *)
(*      <- t2                                                               *)
(*      <- u2                                                               *)
EXTENDS NodeSync

CONSTANTS m1, m2, m3, n2, n3, o2, o3, s1, s2, t2, u2

mc_main_prev ==
    [m \in MainBlocks |->
        CASE m = m1 -> Zero [] m \in {m3, n3} -> m2 [] m = o3 -> o2 [] OTHER -> m1]
mc_main_work ==
    [m \in MainBlocks |-> CASE m \in {m3, n2} -> 2 [] m \in {n3, o2} -> 3 [] OTHER -> 1]
mc_bmm_commitment ==
    [m \in MainBlocks |->
        CASE m \in {m2, n2} -> s1
          [] m = m3 -> s2
          [] m = n3 -> t2
          [] m = o3 -> u2
          [] OTHER -> None]
mc_prev_side == [s \in SideBlocks |-> IF s = s1 THEN None ELSE s1]
mc_prev_main == [s \in SideBlocks |-> CASE s = s1 -> m1 [] s = u2 -> o2 [] OTHER -> m2]

(* nothing goes wrong *)
Quiet(blocks) ==
    [mined |-> blocks, reorgs |-> 0, restarts |-> 0,
     bad |-> FALSE, late |-> FALSE, invalidations |-> FALSE, hangups |-> FALSE, undo |-> {}]

(* Reorganisations of the mainchain and restarts of the node: of a branch   *)
(* with another sidechain block, also where blocks may fail to be undone,   *)
(* with the same one, with a commitment that is not valid; twice.  Then     *)
(* wrong bodies, also with a reorganisation, late ones, invalidated blocks, *)
(* and clients that hang up.                                                *)
mc_faults ==
    {[Quiet({m1, m2, m3, n3}) EXCEPT !.reorgs = 1],
     [Quiet({m1, m2, m3, n3}) EXCEPT !.reorgs = 1, !.undo = {"state", "pool"}],
     [Quiet({m1, m2, m3}) EXCEPT !.restarts = 1],
     [Quiet({m1, m2, n2}) EXCEPT !.reorgs = 1, !.restarts = 1],
     [Quiet({m1, m2, o2, o3}) EXCEPT !.reorgs = 1],
     [Quiet({m1, m2, n2, o2}) EXCEPT !.reorgs = 2],
     [Quiet({m1, m2, m3}) EXCEPT !.bad = TRUE],
     [Quiet({m1, m2, n2}) EXCEPT !.bad = TRUE, !.reorgs = 1],
     [Quiet({m1, m2, m3}) EXCEPT !.late = TRUE],
     [Quiet({m1, m2, m3}) EXCEPT !.invalidations = TRUE],
     [Quiet({m1, m2}) EXCEPT !.bad = TRUE, !.hangups = TRUE]}
mc_restart == {[Quiet({m1, m2, m3}) EXCEPT !.restarts = 1]}
=============================================================================
