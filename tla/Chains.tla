----------------------------- MODULE Chains -----------------------------
(* The two block trees a node chooses tips from, and the rule it chooses    *)
(* by.  A block hash fixes the header it names, so the trees are constants: *)
(* what a node knows of them at a given time is the state of NodeSync.      *)
(*                                                                          *)
(* Ancestry is by sets of ancestors.  The archive computes it through an    *)
(* exponential index; module Ancestry shows that the searches on that index *)
(* return what these definitions say.                                       *)
EXTENDS Integers, FiniteSets

CONSTANTS
    MainBlocks,     \* hashes of mainchain blocks
    SideBlocks,     \* hashes of sidechain blocks
    Zero,           \* the all-zeros hash before the mainchain's genesis block
    None,           \* Option::None
    main_prev,      \* prev_block_hash of a mainchain header
    main_work,      \* work of a mainchain header
    bmm_commitment, \* the sidechain block a mainchain block commits to
    prev_side,      \* prev_side_hash of a sidechain header
    prev_main       \* prev_main_hash of a sidechain header

(* hash chains have no cycles; a mainchain has one genesis block *)
Grounded(prev) ==
    \A S \in SUBSET DOMAIN prev : S # {} => \E b \in S : prev[b] \notin S

ASSUME ChainsAssumption ==
    /\ Zero \notin MainBlocks
    /\ None \notin SideBlocks \cup MainBlocks
    /\ main_prev \in [MainBlocks -> MainBlocks \cup {Zero}]
    /\ main_work \in [MainBlocks -> Nat \ {0}]
    /\ bmm_commitment \in [MainBlocks -> SideBlocks \cup {None}]
    /\ prev_side \in [SideBlocks -> SideBlocks \cup {None}]
    /\ prev_main \in [SideBlocks -> MainBlocks]
    /\ Grounded(main_prev)
    /\ Grounded(prev_side)
    /\ \A m, n \in MainBlocks : main_prev[m] = Zero /\ main_prev[n] = Zero => m = n

(* main_ancestors, the block itself included *)
MainAncestors[m \in MainBlocks] ==
    IF main_prev[m] = Zero THEN {m} ELSE {m} \cup MainAncestors[main_prev[m]]

(* ancestors, the block itself included *)
Ancestors[s \in SideBlocks] ==
    IF prev_side[s] = None THEN {s} ELSE {s} \cup Ancestors[prev_side[s]]

MainHeight == [m \in MainBlocks |-> Cardinality(MainAncestors[m]) - 1]
Height     == [s \in SideBlocks |-> Cardinality(Ancestors[s]) - 1]

(* total_work, accumulated by put_main_header_info *)
TotalWork[m \in MainBlocks] ==
    IF main_prev[m] = Zero THEN main_work[m] ELSE TotalWork[main_prev[m]] + main_work[m]

(* is_main_descendant(a, d): d descends from a; is_descendant likewise *)
IsMainDescendant(a, d) == d # Zero /\ a \in MainAncestors[d]
IsDescendant(a, d)     == a \in Ancestors[d]

SharedMainchainLineage(m, n) == IsMainDescendant(m, n) \/ IsMainDescendant(n, m)

(* last_common_main_ancestor, and last_common_ancestor *)
LastCommonMainAncestor(m, n) ==
    CHOOSE a \in MainAncestors[m] \cap MainAncestors[n] :
        \A b \in MainAncestors[m] \cap MainAncestors[n] : MainHeight[b] <= MainHeight[a]

LastCommonAncestor(s, t) ==
    LET common == Ancestors[s] \cap Ancestors[t]
    IN  IF common = {} THEN None
        ELSE CHOOSE a \in common : \A b \in common : Height[b] <= Height[a]

---------------------------------------------------------------------------
(* The choice between two tips: Archive::better_tip.                        *)

Tips == [block_hash : SideBlocks, main_block_hash : MainBlocks]

Tip(s, m) == [block_hash |-> s, main_block_hash |-> m]

NoTip == [block_hash |-> None, main_block_hash |-> None]

(* the ancestors of a tip that were mined strictly before a mainchain block *)
MinedBefore(s, m) ==
    {a \in Ancestors[s] : prev_main[a] # m /\ IsMainDescendant(prev_main[a], m)}

(* height of the latest of them, -1 for None *)
HeightBefore(s, m) ==
    LET H == {Height[a] : a \in MinedBefore(s, m)}
    IN  IF H = {} THEN -1 ELSE CHOOSE h \in H : \A g \in H : g <= h

(* work of the mainchain block, on the way to m, that it was mined in *)
WorkBefore(s, m) ==
    IF MinedBefore(s, m) = {} THEN -1
    ELSE LET a == CHOOSE x \in MinedBefore(s, m) : Height[x] = HeightBefore(s, m)
             c == CHOOSE x \in MainAncestors[m] : main_prev[x] = prev_main[a]
         IN  TotalWork[c]

(* mutant: the height before the fork does not count *)
TipOrder_WorkOnly(t0, t1) ==
    LET w0 == TotalWork[t0.main_block_hash]
        w1 == TotalWork[t1.main_block_hash]
        h0 == Height[t0.block_hash]
        h1 == Height[t1.block_hash]
    IN  IF h0 > h1 \/ (h0 = h1 /\ w0 <= w1) THEN t0 ELSE t1

(* the greater work has the smaller height: what was mined before the fork   *)
(* of the mainchain decides                                                  *)
FirstAcrossFork(t0, t1) ==
    LET fork == LastCommonMainAncestor(t0.main_block_hash, t1.main_block_hash)
        w0 == TotalWork[t0.main_block_hash]
        w1 == TotalWork[t1.main_block_hash]
    IN  IF w0 < w1 THEN HeightBefore(t0.block_hash, fork) >= Height[t1.block_hash]
        ELSE HeightBefore(t1.block_hash, fork) < Height[t0.block_hash]

(* equal work and equal height                                               *)
FirstOfEquals(t0, t1) ==
    LET fork == LastCommonMainAncestor(t0.main_block_hash, t1.main_block_hash)
        before0 == HeightBefore(t0.block_hash, fork)
        before1 == HeightBefore(t1.block_hash, fork)
    IN  \/ t0.block_hash = t1.block_hash
        \/ before0 > before1
        \/ before0 = before1
             /\ WorkBefore(t0.block_hash, fork) <= WorkBefore(t1.block_hash, fork)

(* the comparison by work and height                                         *)
TipOrder(t0, t1) ==
    LET w0 == TotalWork[t0.main_block_hash]
        w1 == TotalWork[t1.main_block_hash]
        h0 == Height[t0.block_hash]
        h1 == Height[t1.block_hash]
        shared == SharedMainchainLineage(t0.main_block_hash, t1.main_block_hash)
        first ==
            \/ w0 >= w1 /\ h0 > h1
            \/ w0 < w1 /\ h0 = h1 /\ shared
            \/ w0 > w1 /\ h0 = h1 /\ ~shared
            \/ ((w0 < w1 /\ h0 > h1) \/ (w0 > w1 /\ h0 < h1)) /\ FirstAcrossFork(t0, t1)
            \/ w0 = w1 /\ h0 = h1 /\ FirstOfEquals(t0, t1)
    IN  IF first THEN t0 ELSE t1

better_tip(t0, t1) ==
    LET h0 == Height[t0.block_hash]
        h1 == Height[t1.block_hash]
    IN  IF t0 = t1 \/ (h0 = 0 /\ h1 = 0) THEN NoTip
        ELSE IF h0 = 0 THEN t1
        ELSE IF h1 = 0 THEN t0
        ELSE TipOrder(t0, t1)

---------------------------------------------------------------------------
(* The check that a connection makes of the tip its peer announces, against  *)
(* the own tip: code of its own for the same order, without the exception    *)
(* for the genesis height.                                                   *)

PeerBetterAtHeight(own, peer) ==
    LET work0 == TotalWork[own.main_block_hash]
        work1 == TotalWork[peer.main_block_hash]
        shared == SharedMainchainLineage(own.main_block_hash, peer.main_block_hash)
    IN  (work0 < work1 /\ ~shared) \/ (work0 > work1 /\ shared)

(* Deviation: the fork is not looked at.                                     *)
PeerBetterAcrossAnyFork(own, peer) ==
    TotalWork[own.main_block_hash] < TotalWork[peer.main_block_hash]

PeerBetterAcrossFork(own, peer) ==
    LET fork == LastCommonMainAncestor(own.main_block_hash, peer.main_block_hash)
    IN  IF TotalWork[own.main_block_hash] < TotalWork[peer.main_block_hash]
        THEN ~(HeightBefore(own.block_hash, fork) >= Height[peer.block_hash])
        ELSE ~(HeightBefore(peer.block_hash, fork) < Height[own.block_hash])

PeerBetterOfEquals(own, peer) ==
    LET fork == LastCommonMainAncestor(own.main_block_hash, peer.main_block_hash)
        before0 == HeightBefore(own.block_hash, fork)
        before1 == HeightBefore(peer.block_hash, fork)
    IN  /\ own.block_hash # peer.block_hash
        /\ \/ before0 < before1
           \/ before0 = before1
                /\ WorkBefore(own.block_hash, fork) > WorkBefore(peer.block_hash, fork)

PeerBetter(own, peer) ==
    LET work0 == TotalWork[own.main_block_hash]
        work1 == TotalWork[peer.main_block_hash]
        height0 == Height[own.block_hash]
        height1 == Height[peer.block_hash]
    IN  CASE work0 =< work1 /\ height0 < height1 -> TRUE
          [] work0 >= work1 /\ height0 > height1 -> FALSE
          [] work0 # work1 /\ height0 = height1 -> PeerBetterAtHeight(own, peer)
          [] work0 = work1 /\ height0 = height1 -> PeerBetterOfEquals(own, peer)
          [] OTHER -> PeerBetterAcrossFork(own, peer)
=============================================================================
