---------------------------- MODULE TipChoice ----------------------------
(* Archive::better_tip over every pair of block trees: a mainchain tree     *)
(* grown block by block, each block with its work and, possibly, the BMM    *)
(* commitment to a new sidechain block.  Sidechain block i is the one that  *)
(* mainchain block i commits to.                                            *)
EXTENDS Integers, Sequences, FiniteSets

CONSTANTS
    MaxMainBlocks,  \* bound: mainchain blocks
    MaxWork     \* bound: work of a mainchain block

ASSUME TipChoiceAssumption == MaxMainBlocks \in Nat /\ MaxWork \in Nat \ {0}

VARIABLES
    main_chain, \* per mainchain block: parent, 0 for the zero hash, and work
    side_chain  \* per sidechain block: its parent, or 0

treeVars == <<main_chain, side_chain>>

ZeroHash == 0

Mined == 1 .. Len(main_chain)

Chain == INSTANCE Chains WITH
    MainBlocks     <- Mined,
    SideBlocks     <- DOMAIN side_chain,
    Zero           <- ZeroHash,
    None           <- ZeroHash,
    main_prev      <- [m \in Mined |-> main_chain[m].prev],
    main_work      <- [m \in Mined |-> main_chain[m].work],
    bmm_commitment <- [m \in Mined |-> IF m \in DOMAIN side_chain THEN m ELSE ZeroHash],
    prev_side      <- side_chain,
    prev_main      <- [s \in DOMAIN side_chain |-> main_chain[s].prev]

(* the tips a node compares: BMM-verified blocks *)
Tips == {Chain!Tip(s, s) : s \in DOMAIN side_chain}

(* a block that commits to no sidechain block *)
MineMainBlock(prev, work) ==
    /\ main_chain' = Append(main_chain, [prev |-> prev, work |-> work])
    /\ UNCHANGED side_chain

(* a block that commits to a sidechain block, whose parent is merge-mined   *)
(* on the branch it extends                                                 *)
MineSideBlock(prev, work, parent) ==
    LET m == Len(main_chain) + 1
    IN  /\ parent \in DOMAIN side_chain \cap Chain!MainAncestors[prev] \/ parent = ZeroHash
        /\ main_chain' = Append(main_chain, [prev |-> prev, work |-> work])
        /\ side_chain' = [s \in DOMAIN side_chain \cup {m} |->
                             IF s = m THEN parent ELSE side_chain[s]]

TreeInit ==
    /\ main_chain = <<[prev |-> ZeroHash, work |-> 1]>>
    /\ side_chain = [s \in {} |-> ZeroHash]

TreeNext ==
    /\ Len(main_chain) < MaxMainBlocks
    /\ \E prev \in Mined, work \in 1 .. MaxWork :
           \/ MineMainBlock(prev, work)
           \/ \E parent \in DOMAIN side_chain \cup {ZeroHash} :
                  MineSideBlock(prev, work, parent)

TreeSpec == TreeInit /\ [][TreeNext]_treeVars

---------------------------------------------------------------------------
(* Properties. *)

Height(t) == Chain!Height[t.block_hash]
Work(t)   == Chain!TotalWork[t.main_block_hash]
Shared(t0, t1) == Chain!SharedMainchainLineage(t0.main_block_hash, t1.main_block_hash)

(* height of a tip's chain before the common mainchain ancestor of two tips *)
HeightBefore(t, t0, t1) ==
    Chain!HeightBefore(t.block_hash,
                       Chain!LastCommonMainAncestor(t0.main_block_hash, t1.main_block_hash))

Better(t0, t1) == Chain!better_tip(t0, t1) = t0 /\ Chain!better_tip(t1, t0) = t0

(* The check of a peer's tip (net/peer/task.rs), which decides whether        *)
(* anything is asked of the peer, and better_tip, which decides on the blocks *)
(* once they are there, are two programs for one order: above the genesis     *)
(* height they always agree, in whichever place the own tip is.               *)
PeerCheckAgrees ==
    \A own, peer \in {t \in Tips : Height(t) > 0} :
        own # peer => /\ Chain!PeerBetter(own, peer) <=> Chain!better_tip(own, peer) = peer
                      /\ Chain!PeerBetter(own, peer) => Chain!better_tip(peer, own) = peer

(* The rule of better_tip, of which the code has the branches by work and     *)
(* height: on one mainchain lineage the greater height wins, and of equal     *)
(* heights the lower work; on two, the greater height with equal work, the    *)
(* greater work with no less height, the greater work with no less height     *)
(* before the fork, and with equal height and work the greater height before  *)
(* the fork.  This is the doc comment of better_tip with one exception: for   *)
(* one lineage and equal heights that comment says "greater total work"       *)
(* (archive/mod.rs:1401) and the code does the opposite, as the comments in   *)
(* its body say ("prefer lower work", 1442 and 1457); the rule here is the    *)
(* code's.                                                                    *)
BetterTipRule ==
    \A t0, t1 \in {t \in Tips : Height(t) > 0} :
        \/ t0 = t1
        \/ LET shared == Shared(t0, t1)
               before0 == HeightBefore(t0, t0, t1)
               before1 == HeightBefore(t1, t0, t1)
               rule == \/ shared /\ Height(t0) > Height(t1)
                       \/ shared /\ Height(t0) = Height(t1) /\ Work(t0) < Work(t1)
                       \/ ~shared /\ Height(t0) > Height(t1) /\ Work(t0) = Work(t1)
                       \/ ~shared /\ Height(t0) >= Height(t1) /\ Work(t0) > Work(t1)
                       \/ ~shared /\ Work(t0) > Work(t1) /\ before0 >= before1
                       \/ ~shared /\ Height(t0) = Height(t1) /\ Work(t0) = Work(t1)
                              /\ before0 > before1
           IN  rule => Better(t0, t1)

(* What new_tip_ready relies on when it only considers tips merge-mined on   *)
(* the active mainchain: among the tips of one branch, preferences are never *)
(* circular, so that the order in which a node hears of them cannot keep it  *)
(* reorganising, and of two tips above the genesis height one is better.     *)
BranchOrder ==
    \A m \in Mined :
        LET tips == {t \in Tips : Chain!IsMainDescendant(t.main_block_hash, m)}
        IN  /\ \A t0, t1, t2 \in tips : ~(Better(t0, t1) /\ Better(t1, t2) /\ Better(t2, t0))
            /\ \A t0, t1 \in {t \in tips : Height(t) > 0} :
                   t0 = t1 \/ Better(t0, t1) \/ Better(t1, t0)

(* better_tip follows its rule, with lower work first where the doc comment  *)
(* says greater (BetterTipRule), and is an order on every branch.            *)
TipOrderSound == BetterTipRule /\ BranchOrder
=============================================================================
