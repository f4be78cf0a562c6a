------------------------------ MODULE MCChains ------------------------------
(* Every forest of headers in which a parent is at most Reach headers back, *)
(* deep enough for three levels of the exponential index; and every         *)
(* mainchain tree of MaxMainBlocks blocks with its commitments.  A          *)
(* behaviour grows one or the other.                                        *)
EXTENDS Ancestry, TipChoice

ChainsInit == Init /\ TreeInit

ChainsNext ==
    \/ Next /\ TreeInit /\ UNCHANGED treeVars
    \/ TreeNext /\ Init /\ UNCHANGED vars

ChainsSpec == ChainsInit /\ [][ChainsNext]_<<vars, treeVars>>
=============================================================================
