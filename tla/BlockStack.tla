----------------------------- MODULE BlockStack -----------------------------
(***************************************************************************)
(* What a node promises about reorganizations ("fully revert",             *)
(* lib/state/undo.rs), as an abstract specification: connecting a block    *)
(* may change the state in any way, and disconnecting it brings back the   *)
(* state that it found, for as many blocks as are connected.  The state is *)
(* found again because it was kept; the code keeps much less, and rebuilds *)
(* it from blocks, undo records and heights.                               *)
(***************************************************************************)
EXTENDS Naturals, Sequences

VARIABLES
    current,    \* the state
    found       \* the state that each connected block found, oldest first

Init == found = <<>>

Connect == found' = Append(found, current)

Disconnect ==
    /\ found # <<>>
    /\ current' = found[Len(found)]
    /\ found' = SubSeq(found, 1, Len(found) - 1)

Next == Connect \/ Disconnect

Spec == Init /\ [][Next]_<<current, found>>
=============================================================================
