----------------------------- MODULE NodeSync -----------------------------
(* How a node follows the mainchain and the best sidechain tip: the archive *)
(* (lib/archive/mod.rs), its index of tips that can be re-orged to          *)
(* (lib/archive/side_tips/mod.rs), the task that follows the mainchain node *)
(* (lib/node/mainchain_task.rs), the task that owns the chain state         *)
(* (lib/node/net_task.rs), the peer connections' view of an announced tip   *)
(* (lib/net/peer/task.rs) and the calls of the RPC server (lib/node/mod.rs).*)
(*                                                                          *)
(* The tasks and the RPC calls run concurrently and share one LMDB          *)
(* environment, whose write transactions are serialised: one action is one  *)
(* write transaction, together with the reads no other task can disturb.    *)
EXTENDS Chains, Sequences, SequencesExt

CONSTANTS
    Environments,   \* what may happen around the node: see Environment
    MaxEvents,      \* bound: mainchain events waiting for the net task
    MaxTips         \* bound: tips waiting for the net task

(* the mainchain blocks there are, bounds on the reorganisations of the      *)
(* mainchain and on the restarts of the node, whether peers may answer with  *)
(* a body that is not the block's (bad), or when the body is already stored  *)
(* (late), the operator may invalidate blocks, and clients of the RPC server *)
(* may hang up while they wait, and which errors undoing a sound block may   *)
(* meet: of the peg or the state, whose tables are not part of this module,  *)
(* or of putting its transactions back in the pool                           *)
Environment ==
    [mined : SUBSET MainBlocks, reorgs : Nat, restarts : Nat,
     bad : BOOLEAN, late : BOOLEAN, invalidations : BOOLEAN,
     hangups : BOOLEAN, undo : SUBSET {"state", "pool"}]

ASSUME NodeSyncAssumption ==
    /\ Environments \subseteq Environment
    /\ \A e \in Environments, m \in MainBlocks :
           m \in e.mined => main_prev[m] \in e.mined \cup {Zero}
    /\ {MaxEvents, MaxTips} \subseteq Nat
    /\ IsFiniteSet(MainBlocks) /\ IsFiniteSet(SideBlocks)  \* a hash has 32 bytes
    /\ \A s \in SideBlocks : s \notin {"kept", "done", "fatal", "undo failed"}

VARIABLES
    \* the archive
    main_infos,     \* blocks with a main_header_info and a main_block_info
    headers,        \* blocks with a header
    bodies,         \* "none", "good", or "bad": not what the header commits to
    invalid_blocks,
    bmm_results,    \* per sidechain and mainchain block
    \* side_tips
    mainchain_tip,
    sidechain_tips,         \* the main_block_hash of a tip's info, or None
    ordered_sidechain_tips, \* as Tips: height and work follow from the hashes
    \* the chain state
    state_tip,
    \* the mainchain node, and the task that follows it
    enforcer_tip,
    env,            \* the environment, with the reorgs and restarts left
    stream,         \* block events of the current subscription
    main_task,      \* [pc, tip]: "stopped", "syncing" to a tip, "streaming"
    \* the net task
    net_task,       \* what it is in the middle of: see AtRest
    block_events,   \* length of mainchain_task_event_rx: its events are opaque
    new_tips,       \* new_tip_ready_rx: see NewTip
    descendant_tips,\* tips to retry once a body arrives: pairs <<block, tip>>
    \* a block submission of this node
    submit

archive_vars == <<main_infos, headers, bodies, invalid_blocks, bmm_results>>
side_tips_vars == <<mainchain_tip, sidechain_tips, ordered_sidechain_tips>>
enforcer_vars == <<enforcer_tip, env>>
main_vars == <<enforcer_vars, stream, main_task>>
net_vars == <<net_task, block_events, new_tips, descendant_tips>>
vars == <<archive_vars, side_tips_vars, state_tip, main_vars, net_vars, submit>>

---------------------------------------------------------------------------
(* BMM verification. *)

(* mutant: the parent may be verified on any branch *)
BmmResult_AnyBranch(results, s, m) ==
    IF /\ bmm_commitment[m] = s
       /\ prev_main[s] = main_prev[m]
       /\ \/ prev_side[s] = None
          \/ \E n \in MainBlocks : results[<<prev_side[s], n>>] = "Verified"
    THEN "Verified" ELSE "Failed"

(* The result for a stored header committed to by a mainchain block, given   *)
(* the results so far: put_main_block_info, and the loop at the end of       *)
(* put_header.                                                               *)
BmmResult(results, s, m) ==
    IF /\ bmm_commitment[m] = s
       /\ prev_main[s] = main_prev[m]
       /\ \/ prev_side[s] = None
          \/ \E n \in MainBlocks :
                 results[<<prev_side[s], n>>] = "Verified" /\ IsMainDescendant(n, m)
    THEN "Verified" ELSE "Failed"

(* Archive::put_main_block_info *)
put_main_block_info(results, m) ==
    LET s == bmm_commitment[m]
    IN  IF s = None \/ s \notin headers THEN results
        ELSE [results EXCEPT ![<<s, m>>] = BmmResult(results, s, m)]

(* Archive::put_header: every known successor of prev_main_hash is checked *)
put_header(results, s) ==
    [k \in DOMAIN results |->
        IF k[1] = s /\ k[2] \in main_infos /\ main_prev[k[2]] = prev_main[s]
        THEN BmmResult(results, s, k[2])
        ELSE results[k]]

(* its preconditions; it fails with an error where they do not hold *)
HeaderStorable(hs, s) ==
    /\ prev_side[s] = None \/ prev_side[s] \in hs
    /\ prev_main[s] \in main_infos

VerifiedAt(s) ==
    IF s = None THEN {} ELSE {m \in MainBlocks : bmm_results[<<s, m>>] = "Verified"}

(* get_best_main_verification: one with the most work, of any fork *)
BestMainVerifications(s) ==
    {m \in VerifiedAt(s) : \A n \in VerifiedAt(s) : TotalWork[n] <= TotalWork[m]}

---------------------------------------------------------------------------
(* The index of side tips, as a record of its three tables so that the      *)
(* operations can be chained.                                               *)

SideTips == [tip |-> mainchain_tip, tips |-> sidechain_tips,
             ordered |-> ordered_sidechain_tips, ok |-> TRUE]

Store(st) ==
    /\ mainchain_tip' = st.tip
    /\ sidechain_tips' = st.tips
    /\ ordered_sidechain_tips' = st.ordered

ParentIsTip(st, s) == prev_side[s] = None \/ st.tips[prev_side[s]] # None

(* SideTips::connect_sidechain_tip, whose parent is a tip *)
connect_sidechain_tip(st, s, m) ==
    IF st.tips[s] # None THEN st
    ELSE [st EXCEPT !.tips = [@ EXCEPT ![s] = m], !.ordered = @ \cup {Tip(s, m)}]

(* SideTips::connect_mainchain_tip, with the BMM commitment its callers     *)
(* handle_block_event and sync_side_tips_to_tip look up                     *)
connect_mainchain_tip(st, m, results) ==
    LET s == bmm_commitment[m]
        commitment == /\ s # None
                      /\ bodies[s] # "none"
                      /\ ParentIsTip(st, s)
                      /\ results[<<s, m>>] = "Verified"
    IN  IF ~st.ok \/ main_prev[m] # st.tip THEN [st EXCEPT !.ok = FALSE]
        ELSE [(IF commitment THEN connect_sidechain_tip(st, s, m) ELSE st)
              EXCEPT !.tip = m]

(* SideTips::disconnect_mainchain_tip, called with the parent and the BMM    *)
(* commitment of block m: it fails for a commitment that is not a tip        *)
disconnect_mainchain_tip(st, m) ==
    LET s == bmm_commitment[m]
        missing == \/ st.tips[s] = None
                   \/ st.tips[s] = st.tip /\ Tip(s, st.tip) \notin st.ordered
    IN  IF \/ ~st.ok
           \/ st.tip = Zero
           \/ main_prev[m] # main_prev[st.tip]
           \/ s # None /\ missing
        THEN [st EXCEPT !.ok = FALSE]
        ELSE [st EXCEPT !.tip = main_prev[m],
                        !.ordered = IF s # None THEN @ \ {Tip(s, st.tip)} ELSE @]

(* the mainchain block on the active chain that verifies a block: there is  *)
(* at most one, the active successor of prev_main_hash                      *)
ActiveVerifications(st, s) == {m \in VerifiedAt(s) : IsMainDescendant(m, st.tip)}

(* the side tips a stored body connects: the block, if its parent is a tip, *)
(* and then its descendants, breadth first, along stored bodies             *)
ConnectedByBody(st, s) ==
    LET connects(x) == ActiveVerifications(st, x) # {} /\ (x = s \/ bodies[x] # "none")
    IN  IF ~ParentIsTip(st, s) THEN {}
        ELSE {d \in headers : /\ IsDescendant(s, d)
                              /\ \A x \in Ancestors[d] : IsDescendant(s, x) => connects(x)}

(* Archive::put_body, side tips *)
put_body(st, s) ==
    LET new == {x \in ConnectedByBody(st, s) : st.tips[x] = None}
        main(x) == CHOOSE m \in ActiveVerifications(st, x) : TRUE
    IN  [st EXCEPT !.tips = [x \in SideBlocks |-> IF x \in new THEN main(x) ELSE @[x]],
                   !.ordered = @ \cup {Tip(x, main(x)) : x \in new}]

(* put_body fails for a block whose header is gone, and for a verified block *)
(* while there is no mainchain tip to look up the height of                  *)
BodyStorable(st, s) == s \in headers /\ (st.tip = Zero => VerifiedAt(s) = {})

(* mutant: the descendants stay tips *)
delete_body_BlockOnly(st, s) ==
    [st EXCEPT !.tips[s] = None, !.ordered = {t \in @ : t.block_hash # s}]

(* Archive::delete_body, side tips: the block and the descendants that are tips *)
delete_body(st, s) ==
    LET gone == {d \in SideBlocks :
                    /\ IsDescendant(s, d)
                    /\ \A x \in Ancestors[d] : IsDescendant(s, x) => st.tips[x] # None}
    IN  [st EXCEPT !.tips = [x \in SideBlocks |-> IF x \in gone THEN None ELSE @[x]],
                   !.ordered = {t \in @ : ~(t.block_hash \in gone
                                            /\ t.main_block_hash = st.tips[t.block_hash])}]

(* it fails at a tip whose header, and list of successors, are gone *)
BodyDeletable(s) ==
    \A d \in SideBlocks : IsDescendant(s, d) /\ sidechain_tips[d] # None => d \in headers

(* SideTips::best_side_tip: by height, then work *)
BestSideTips ==
    LET higher(t, u) == \/ Height[t.block_hash] > Height[u.block_hash]
                        \/ /\ Height[t.block_hash] = Height[u.block_hash]
                           /\ TotalWork[t.main_block_hash] > TotalWork[u.main_block_hash]
    IN  {t \in ordered_sidechain_tips : \A u \in ordered_sidechain_tips : ~higher(u, t)}

---------------------------------------------------------------------------
(* The mainchain node.  A reorganisation moves it to a branch with more     *)
(* work; the events of the blocks it leaves may be missing from the stream. *)

MainSet(m) == IF m = Zero THEN {} ELSE MainAncestors[m]

(* the blocks after a common ancestor, oldest first *)
MainPath(a, m) ==
    [i \in 1 .. Cardinality(MainSet(m)) - Cardinality(MainSet(a)) |->
        CHOOSE x \in MainSet(m) : MainHeight[x] = Cardinality(MainSet(a)) + i - 1]

SideSet(s) == IF s = None THEN {} ELSE Ancestors[s]

SidePath(a, s) ==
    [i \in 1 .. Cardinality(SideSet(s)) - Cardinality(SideSet(a)) |->
        CHOOSE x \in SideSet(s) : Height[x] = Cardinality(SideSet(a)) + i - 1]

(* the first block of a part of a chain *)
Lowest(blocks) == CHOOSE x \in blocks : \A y \in blocks : Height[x] <= Height[y]

Events(type, blocks) == [i \in DOMAIN blocks |-> [type |-> type, block |-> blocks[i]]]

Subscribed == main_task.pc \in {"syncing", "streaming"}

Emit(events) == stream' = IF Subscribed THEN stream \o events ELSE stream

MineMainBlock(m) ==
    /\ m \in env.mined
    /\ main_prev[m] = enforcer_tip
    /\ enforcer_tip' = m
    /\ Emit(Events("Connect", <<m>>))
    /\ UNCHANGED <<archive_vars, side_tips_vars, state_tip, env, main_task, net_vars, submit>>

ReorgMainchain(m, announced) ==
    /\ m \in env.mined
    /\ env.reorgs > 0
    /\ TotalWork[m] > TotalWork[enforcer_tip]
    /\ ~IsMainDescendant(enforcer_tip, m)
    /\ LET fork == LastCommonMainAncestor(enforcer_tip, m)
           left == Events("Disconnect", Reverse(MainPath(fork, enforcer_tip)))
       IN  Emit((IF announced THEN left ELSE <<>>) \o Events("Connect", MainPath(fork, m)))
    /\ enforcer_tip' = m
    /\ env' = [env EXCEPT !.reorgs = @ - 1]
    /\ UNCHANGED <<archive_vars, side_tips_vars, state_tip, main_task, net_vars, submit>>

---------------------------------------------------------------------------
(* The mainchain task. *)

put_missing_info(results, m) ==
    IF m \in main_infos THEN results ELSE put_main_block_info(results, m)

(* request_ancestor_infos: the missing infos, oldest first, in one transaction *)
request_ancestor_infos(m) ==
    /\ bmm_results' = FoldLeft(put_missing_info, bmm_results, MainPath(Zero, m))
    /\ main_infos' = main_infos \cup MainSet(m)

(* events beyond MaxEvents coalesce: the net task ignores what they say *)
SendBlockEvents(n) ==
    block_events' = IF block_events + n > MaxEvents THEN MaxEvents ELSE block_events + n

(* run_once, first part *)
subscribe_block_events ==
    /\ main_task.pc = "stopped"
    /\ request_ancestor_infos(enforcer_tip)
    /\ main_task' = [pc |-> "syncing", tip |-> enforcer_tip]
    /\ stream' = <<>>
    /\ UNCHANGED <<headers, bodies, invalid_blocks, side_tips_vars, state_tip, enforcer_vars,
                   net_vars, submit>>

(* an error, or the end of the stream: run sleeps and starts again *)
Stopped == [pc |-> "stopped", tip |-> Zero]

Stop == main_task' = Stopped /\ stream' = <<>>

(* one block of the way back, in sync_side_tips_to_tip *)
connect_known_tip(st, m) == connect_mainchain_tip(st, m, bmm_results)

SyncedSideTips(target) ==
    LET fork == IF mainchain_tip = Zero THEN Zero
                ELSE LastCommonMainAncestor(target, mainchain_tip)
        undone == FoldLeft(disconnect_mainchain_tip, SideTips,
                           Reverse(MainPath(fork, mainchain_tip)))
    IN  FoldLeft(connect_known_tip, undone, MainPath(fork, target))

(* mutant: the stream is opened after the tip is synced, not before *)
sync_side_tips_to_tip_LateStream ==
    LET target == main_task.tip
        st == SyncedSideTips(target)
    IN  /\ main_task.pc = "syncing"
        /\ IF st.ok
           THEN /\ Store(st)
                /\ SendBlockEvents(1)
                /\ main_task' = [pc |-> "streaming", tip |-> Zero]
                /\ stream' = <<>>
           ELSE UNCHANGED <<side_tips_vars, block_events>> /\ Stop
        /\ UNCHANGED <<archive_vars, state_tip, enforcer_vars, net_task, new_tips,
                       descendant_tips, submit>>

sync_side_tips_to_tip ==
    LET target == main_task.tip
        st == SyncedSideTips(target)
        moves == Cardinality((MainSet(target) \ MainSet(mainchain_tip))
                             \cup (MainSet(mainchain_tip) \ MainSet(target)))
    IN  /\ main_task.pc = "syncing"
        /\ IF st.ok
           THEN /\ Store(st)
                /\ SendBlockEvents(moves)
                /\ main_task' = [pc |-> "streaming", tip |-> Zero]
                /\ UNCHANGED stream
           ELSE UNCHANGED <<side_tips_vars, block_events>> /\ Stop
        /\ UNCHANGED <<archive_vars, state_tip, enforcer_vars, net_task, new_tips,
                       descendant_tips, submit>>

(* handle_block_event: of a failed transaction nothing stays *)
handle_block_event ==
    LET event == Head(stream)
        m == event.block
        results == IF event.type = "Connect" THEN put_main_block_info(bmm_results, m)
                   ELSE bmm_results
        st == IF event.type = "Connect" THEN connect_mainchain_tip(SideTips, m, results)
              ELSE disconnect_mainchain_tip(SideTips, m)
        known == IF event.type = "Connect"
                 THEN main_prev[m] \in main_infos \cup {Zero} ELSE m \in main_infos
    IN  /\ main_task.pc = "streaming"
        /\ stream # <<>>
        /\ IF known /\ st.ok
           THEN /\ Store(st)
                /\ main_infos' = main_infos \cup {m}
                /\ bmm_results' = results
                /\ SendBlockEvents(1)
                /\ stream' = Tail(stream)
                /\ UNCHANGED main_task
           ELSE UNCHANGED <<side_tips_vars, main_infos, bmm_results, block_events>> /\ Stop
        /\ UNCHANGED <<headers, bodies, invalid_blocks, state_tip, enforcer_vars, net_task,
                       new_tips, descendant_tips, submit>>

(* handle_request: infos a peer connection or a submission asks for *)
handle_request(m) ==
    /\ main_task.pc = "streaming"
    /\ m \in env.mined \ main_infos
    /\ request_ancestor_infos(m)
    /\ UNCHANGED <<headers, bodies, invalid_blocks, side_tips_vars, state_tip, main_vars,
                   net_vars, submit>>

StreamCloses ==
    /\ main_task.pc = "streaming"
    /\ Stop
    /\ UNCHANGED <<archive_vars, side_tips_vars, state_tip, enforcer_vars, net_vars, submit>>

---------------------------------------------------------------------------
(* The net task: one mailbox item at a time, some of them in two or three   *)
(* transactions between which the other tasks run.                          *)

(* gone: the caller that waits for the result of a reorg will have dropped   *)
(* its receiver when it comes                                                *)
NewTip(t, gone) == [tip |-> t, gone |-> gone]

AtRest(pc) == [pc |-> pc, tip |-> NoTip, block |-> None, gone |-> FALSE]
Idle == AtRest("idle")
Dead == AtRest("dead")

(* the reply to the caller, if there is one: that it cannot be sent is fatal *)
Answered(gone) == IF gone THEN Dead ELSE Idle

(* disconnect_tip_ needs each block's header and body, and a body that hashes *)
(* to the header's merkle root; env.undo has the other errors it may meet     *)
Disconnectable(blocks) == \A x \in blocks : x \in headers /\ bodies[x] = "good"

(* handle_mainchain_block_event, first transaction: leave blocks that are no *)
(* side tips, then look up the best side tip.  Its errors end the task.      *)
handle_mainchain_block_event ==
    LET tips == {x \in SideSet(state_tip) : sidechain_tips[x] # None}
        kept == IF tips = {} THEN None
                ELSE CHOOSE x \in tips : \A y \in tips : Height[y] <= Height[x]
    IN  /\ net_task = Idle
        /\ block_events > 0
        /\ block_events' = block_events - 1
        /\ \/ /\ Disconnectable(SideSet(state_tip) \ SideSet(kept))
              /\ state_tip' = kept
              /\ \/ BestSideTips = {} /\ net_task' = Idle
                 \/ \E t \in BestSideTips :
                        net_task' = [pc |-> "mainchain reorg", tip |-> t, block |-> None,
                                     gone |-> FALSE]
           \/ /\ \/ ~Disconnectable(SideSet(state_tip) \ SideSet(kept))
                 \/ kept # state_tip /\ env.undo # {}
              /\ UNCHANGED state_tip
              /\ net_task' = Dead
        /\ UNCHANGED <<archive_vars, side_tips_vars, main_vars, new_tips, descendant_tips, submit>>

(* MailboxItem::NewTipReady, the check in a read transaction *)
new_tip_ready ==
    LET t == Head(new_tips).tip
        gone == Head(new_tips).gone
    IN  /\ net_task = Idle
        /\ new_tips # <<>>
        /\ new_tips' = Tail(new_tips)
        /\ net_task' =
               IF sidechain_tips[t.block_hash] = None THEN Answered(gone)
               ELSE IF mainchain_tip = Zero THEN Dead
               ELSE IF ~IsMainDescendant(t.main_block_hash, mainchain_tip) THEN Answered(gone)
               ELSE [pc |-> "peer reorg", tip |-> t, block |-> None, gone |-> gone]
        /\ UNCHANGED <<archive_vars, side_tips_vars, state_tip, main_vars, block_events,
                       descendant_tips, submit>>

(* the last block of the chain state on the way to another block, or None *)
ForkWith(s) == IF state_tip = None THEN None ELSE LastCommonAncestor(state_tip, s)

(* mutant: bodies are not checked against their headers *)
ReorgOutcome_Unchecked(t, m) ==
    LET fork == ForkWith(t.block_hash)
    IN  IF state_tip # None /\ better_tip(Tip(state_tip, m), t) # t THEN "kept"
        ELSE IF \E x \in ToSet(SidePath(fork, t.block_hash)) : bodies[x] = "none" THEN "fatal"
        ELSE "done"

(* What reorg_to_tip comes to, for a verification m of the current tip:      *)
(* "kept", "done", a fatal error, a state error while disconnecting, or the  *)
(* block whose body does not connect.                                        *)
ReorgOutcome(t, m) ==
    LET new == t.block_hash
        fork == ForkWith(new)
        undone == SideSet(state_tip) \ SideSet(fork)
        applied == SidePath(fork, new)
        missing(X) == {x \in X : x \notin headers \/ bodies[x] = "none"}
        damaged == {x \in undone : bodies[x] # "good"}
        bad == {x \in ToSet(applied) : bodies[x] = "bad"}
    IN  IF new \notin headers \/ (state_tip # None /\ state_tip \notin headers) THEN "fatal"
        ELSE IF state_tip # None /\ better_tip(Tip(state_tip, m), t) # t THEN "kept"
        ELSE IF missing(ToSet(applied)) # {} THEN "fatal"
        ELSE IF damaged # {}
             THEN IF \E x \in missing(undone) : \A y \in damaged : Height[y] <= Height[x]
                  THEN "fatal" ELSE "undo failed"
        ELSE IF bad # {} THEN Lowest(bad)
        ELSE IF mainchain_tip = Zero \/ \E x \in ToSet(applied) : VerifiedAt(x) = {}
             THEN "fatal"
        ELSE "done"

(* the errors of env.undo, where it gets to undo a sound block: a state error *)
(* or, from the pool, a fatal one                                             *)
UndoErrors(t, m) ==
    LET fork == ForkWith(t.block_hash)
    IN  IF /\ fork # state_tip
           /\ {t.block_hash, state_tip} \subseteq headers
           /\ better_tip(Tip(state_tip, m), t) = t
           /\ \A x \in ToSet(SidePath(fork, t.block_hash)) : x \in headers /\ bodies[x] # "none"
           /\ Disconnectable({state_tip})
        THEN {IF error = "state" THEN "undo failed" ELSE "fatal" : error \in env.undo}
        ELSE {}

Reorging == net_task.pc \in {"mainchain reorg", "peer reorg"}

(* mutant: every error is fatal *)
AfterStateError_Fatal == Dead

(* a state error: fatal for the best side tip; a tip from a peer or a caller *)
(* is not connected, which a caller is told                                  *)
AfterStateError ==
    IF net_task.pc \in {"peer reorg", "peer discard"} THEN Answered(net_task.gone) ELSE Dead

(* reorg_to_tip for the tip t; connect_tip_ stores header and body again *)
ReorgStep(t, outcome) ==
    LET applied == SidePath(ForkWith(t.block_hash), t.block_hash)
    IN  IF outcome = "done"
        THEN /\ state_tip' = t.block_hash
             /\ bmm_results' = FoldLeft(put_header, bmm_results, applied)
             /\ Store(FoldLeft(put_body, SideTips, applied))
             /\ net_task' = Answered(net_task.gone)
        ELSE /\ net_task' = CASE outcome = "kept" -> Answered(net_task.gone)
                              [] outcome = "fatal" -> Dead
                              [] outcome = "undo failed" -> AfterStateError
                              [] OTHER -> [pc |-> IF net_task.pc = "peer reorg"
                                                  THEN "peer discard"
                                                  ELSE "mainchain discard",
                                           tip |-> t, block |-> outcome,
                                           gone |-> net_task.gone]
             /\ UNCHANGED <<state_tip, bmm_results, side_tips_vars>>

(* one transaction, with a verification m of the current tip *)
reorg_to_tip ==
    /\ Reorging
    /\ \E m \in IF state_tip = None THEN {None} ELSE BestMainVerifications(state_tip) :
           \E outcome \in {ReorgOutcome(net_task.tip, m)} \cup UndoErrors(net_task.tip, m) :
               ReorgStep(net_task.tip, outcome)
    /\ UNCHANGED <<main_infos, headers, bodies, invalid_blocks, main_vars, block_events,
                   new_tips, descendant_tips, submit>>

(* reorg_to_tip after a state error: the body that did not connect is        *)
(* discarded in a transaction of its own                                     *)
discard_body ==
    /\ net_task.pc \in {"peer discard", "mainchain discard"}
    /\ LET s == net_task.block
       IN  IF BodyDeletable(s)
           THEN /\ bodies' = [bodies EXCEPT ![s] = "none"]
                /\ Store(delete_body(SideTips, s))
                /\ net_task' = AfterStateError
           ELSE net_task' = Dead /\ UNCHANGED <<bodies, side_tips_vars>>
    /\ UNCHANGED <<main_infos, headers, invalid_blocks, bmm_results, state_tip, main_vars,
                   block_events, new_tips, descendant_tips, submit>>

(* check_peer_tip_and_request_headers and handle_peer_state, up to the      *)
(* header requests: the announced tip is committed to by a mainchain block  *)
(* of our active chain                                                      *)
Announced(t) ==
    /\ t.main_block_hash \in main_infos
    /\ bmm_commitment[t.main_block_hash] = t.block_hash
    /\ IsMainDescendant(t.main_block_hash, mainchain_tip)

(* handle_response to GetHeaders, the checks in read transactions.  The      *)
(* answer is the chain from a block of our locator, or from genesis, to the  *)
(* announced tip.  The height of a start block that was invalidated since    *)
(* the request cannot be looked up, which is fatal; an answer with an        *)
(* invalidated block is dropped with its peer.                               *)
check_headers(t, start) ==
    /\ net_task = Idle
    /\ Announced(t)
    /\ t.block_hash \notin headers
    /\ start \in SideSet(prev_side[t.block_hash]) \cup {None}
    /\ start \in headers \cup invalid_blocks \cup {None}
    /\ IF start \notin headers \cup {None} THEN net_task' = Dead
       ELSE /\ (Ancestors[t.block_hash] \ SideSet(start)) \cap invalid_blocks = {}
            /\ net_task' = [pc |-> "headers", tip |-> t, block |-> start, gone |-> FALSE]
    /\ UNCHANGED <<archive_vars, side_tips_vars, state_tip, main_vars, block_events, new_tips,
                   descendant_tips, submit>>

(* one header of the answer: stored if it is missing and its parent is not; *)
(* the loop breaks at a missing parent                                      *)
StoreHeader(acc, s) ==
    IF acc.stop \/ s \in acc.headers THEN acc
    ELSE IF prev_side[s] # None /\ prev_side[s] \notin acc.headers THEN [acc EXCEPT !.stop = TRUE]
    ELSE IF ~HeaderStorable(acc.headers, s) THEN [acc EXCEPT !.stop = TRUE, !.ok = FALSE]
    ELSE [acc EXCEPT !.headers = @ \cup {s}, !.results = put_header(@, s)]

(* handle_response to GetHeaders, the write transaction *)
store_headers ==
    /\ net_task.pc = "headers"
    /\ LET stored == FoldLeft(StoreHeader,
                              [headers |-> headers, results |-> bmm_results, stop |-> FALSE,
                               ok |-> TRUE],
                              SidePath(net_task.block, net_task.tip.block_hash))
       IN  IF stored.ok
           THEN headers' = stored.headers /\ bmm_results' = stored.results /\ net_task' = Idle
           ELSE net_task' = Dead /\ UNCHANGED <<headers, bmm_results>>
    /\ UNCHANGED <<main_infos, bodies, invalid_blocks, side_tips_vars, state_tip, main_vars,
                   block_events, new_tips, descendant_tips, submit>>

(* iter_missing_bodies(s, height of a + 1).next(): the lowest, or None *)
EarliestMissing(stored, a, s) ==
    LET missing == {x \in SideSet(s) \ SideSet(a) : stored[x] = "none"}
    IN  IF missing = {} THEN None ELSE Lowest(missing)

(* the tip handle_response tries next for a waiting descendant tip d: d, or  *)
(* the parent of its earliest missing body, if it is better than our tip     *)
NextTips(stored, d) ==
    LET fork == IF state_tip = None THEN None ELSE LastCommonAncestor(d.block_hash, state_tip)
        missing == EarliestMissing(stored, fork, d.block_hash)
        next == IF missing = None THEN {d}
                ELSE IF prev_side[missing] = None THEN {}
                ELSE {Tip(prev_side[missing], m) : m \in BestMainVerifications(prev_side[missing])}
        better(t) == \E m \in BestMainVerifications(state_tip) :
                         better_tip(Tip(state_tip, m), t) = t
    IN  {t \in next : state_tip = None \/ better(t)}

(* handle_response to GetBlock.  The request was made for a descendant tip t *)
(* and names the fork with our chain at that time.                           *)
receive_body(s, t, body, fork) ==
    LET stored == [bodies EXCEPT ![s] = body]
        missing == EarliestMissing(stored, fork, s)
        waiting == descendant_tips
                       \cup (IF missing = None THEN {} ELSE {<<missing, t>>})
        woken == {p[2] : p \in {q \in waiting : q[1] = s}}
        again == {<<EarliestMissing(stored,
                                    IF state_tip = None THEN None
                                    ELSE LastCommonAncestor(d.block_hash, state_tip),
                                    d.block_hash), d>> : d \in woken}
        extends == IF prev_side[s] = state_tip
                   THEN {NewTip(Tip(s, m), FALSE) : m \in {n \in VerifiedAt(s) :
                                                     IsMainDescendant(n, t.main_block_hash)}}
                   ELSE {}
        ready == {NewTip(u, FALSE) : u \in UNION {NextTips(stored, d) : d \in woken}}
        ok == /\ fork = None \/ fork \in headers
              /\ \E m \in VerifiedAt(s) : IsMainDescendant(m, t.main_block_hash)
              /\ \A d \in woken : d.block_hash \in headers
    IN  /\ net_task = Idle
        /\ bmm_results[<<t.block_hash, t.main_block_hash>>] = "Verified"
        /\ IsDescendant(s, t.block_hash)
        /\ fork \in SideSet(prev_side[s]) \cup {None}
        /\ fork # None => bodies[fork] # "none" \/ fork \in invalid_blocks
        /\ body = "bad" => env.bad
        /\ env.late \/ bodies[s] = "none"
        /\ Len(new_tips) + Cardinality(extends) + Cardinality(ready) <= MaxTips
        /\ IF BodyStorable(SideTips, s)
           THEN bodies' = stored /\ Store(put_body(SideTips, s))
           ELSE UNCHANGED <<bodies, side_tips_vars>>
        /\ IF BodyStorable(SideTips, s) /\ ok
           THEN /\ descendant_tips' = {p \in waiting : p[1] # s}
                                          \cup {p \in again : p[1] # None}
                /\ \E first \in SetToSeqs(extends), rest \in SetToSeqs(ready) :
                       new_tips' = new_tips \o first \o rest
                /\ net_task' = Idle
           ELSE net_task' = Dead /\ UNCHANGED <<descendant_tips, new_tips>>
        /\ UNCHANGED <<main_infos, headers, invalid_blocks, bmm_results, state_tip, main_vars,
                       block_events, submit>>

---------------------------------------------------------------------------
(* Peer connections and RPC calls. *)

SendNewTip(t, gone) ==
    IF net_task = Dead THEN UNCHANGED new_tips
    ELSE Len(new_tips) < MaxTips /\ new_tips' = Append(new_tips, NewTip(t, gone))

(* check_peer_tip_and_request_headers                                        *)
PeerTipBetter(t) ==
    \/ state_tip = None
    \/ \E m \in BestMainVerifications(state_tip) :
           Tip(state_tip, m) # t /\ PeerBetter(Tip(state_tip, m), t)

(* handle_peer_state: a better tip, BMM-verified, none of whose bodies from  *)
(* the fork with our chain upwards is missing                                *)
peer_tip_ready(t) ==
    /\ Announced(t)
    /\ t.block_hash \in headers
    /\ bmm_results[<<t.block_hash, t.main_block_hash>>] = "Verified"
    /\ PeerTipBetter(t)
    /\ LET fork == ForkWith(t.block_hash)
       IN  \A x \in (Ancestors[t.block_hash] \ SideSet(fork)) \cup ({fork} \ {None}) :
               bodies[x] # "none"
    /\ NewTip(t, FALSE) \notin ToSet(new_tips)
    /\ net_task # Dead
    /\ SendNewTip(t, FALSE)
    /\ UNCHANGED <<archive_vars, side_tips_vars, state_tip, main_vars, net_task, block_events,
                   descendant_tips, submit>>

(* Node::submit_block, the first transaction: the header, if its BMM holds *)
submit_header(s, m) ==
    /\ submit = NoTip
    /\ main_task.pc = "streaming"
    /\ m \in main_infos
    /\ HeaderStorable(headers, s)
    /\ put_header(bmm_results, s)[<<s, m>>] = "Verified"
    /\ headers' = headers \cup {s}
    /\ bmm_results' = put_header(bmm_results, s)
    /\ submit' = Tip(s, m)
    /\ UNCHANGED <<main_infos, bodies, invalid_blocks, side_tips_vars, state_tip, main_vars,
                   net_vars>>

(* Node::submit_block, the second: the body, if it is the only missing one,  *)
(* then the tip for the net task.  Its callers run to the end in a task of   *)
(* their own, so that the receiver of the result stays.                      *)
submit_body ==
    LET s == submit.block_hash
        fork == ForkWith(s)
        missing == {x \in Ancestors[s] \ SideSet(fork) : bodies[x] = "none"}
    IN  /\ submit # NoTip
        /\ submit' = NoTip
        /\ IF s \notin headers \/ ~(missing \subseteq {s})
              \/ (missing = {s} /\ ~BodyStorable(SideTips, s))
           THEN UNCHANGED <<bodies, side_tips_vars, new_tips>>
           ELSE /\ SendNewTip(submit, FALSE)
                /\ IF missing = {s}
                   THEN /\ bodies' = [bodies EXCEPT ![s] = "good"]
                        /\ Store(put_body(SideTips, s))
                   ELSE UNCHANGED <<bodies, side_tips_vars>>
        /\ UNCHANGED <<main_infos, headers, invalid_blocks, bmm_results, state_tip, main_vars,
                       net_task, block_events, descendant_tips>>

(* Node::sync_to_tip, and the receiver it drops when the client hangs up *)
sync_to_tip(s, gone) ==
    /\ gone => env.hangups
    /\ \E m \in BestMainVerifications(s) :
           NewTip(Tip(s, m), gone) \notin ToSet(new_tips) /\ SendNewTip(Tip(s, m), gone)
    /\ net_task # Dead
    /\ UNCHANGED <<archive_vars, side_tips_vars, state_tip, main_vars, net_task, block_events,
                   descendant_tips, submit>>

(* Node::invalidate_block and Archive::invalidate_block, one transaction: the *)
(* side tips stay as they are                                                 *)
invalidate_block(s) ==
    LET gone == {x \in headers : IsDescendant(s, x)}
        active == s \in SideSet(state_tip)
    IN  /\ env.invalidations
        /\ s \in headers
        /\ active => Disconnectable(SideSet(state_tip) \ SideSet(prev_side[s]))
        /\ state_tip' = IF active THEN prev_side[s] ELSE state_tip
        /\ headers' = headers \ gone
        /\ bodies' = [x \in SideBlocks |-> IF x \in gone THEN "none" ELSE bodies[x]]
        /\ invalid_blocks' = invalid_blocks \cup gone
        /\ UNCHANGED <<main_infos, bmm_results, side_tips_vars, main_vars, net_vars, submit>>

(* The node stops and starts again: the databases stay, channels and tasks   *)
(* start anew.                                                               *)
Restart ==
    /\ env.restarts > 0
    /\ env' = [env EXCEPT !.restarts = @ - 1]
    /\ Stop
    /\ net_task' = Idle
    /\ block_events' = 0
    /\ new_tips' = <<>>
    /\ descendant_tips' = {}
    /\ submit' = NoTip
    /\ UNCHANGED <<archive_vars, side_tips_vars, state_tip, enforcer_tip>>

---------------------------------------------------------------------------
Init ==
    /\ main_infos = {}
    /\ headers = {}
    /\ bodies = [s \in SideBlocks |-> "none"]
    /\ invalid_blocks = {}
    /\ bmm_results = [k \in SideBlocks \X MainBlocks |-> "none"]
    /\ mainchain_tip = Zero
    /\ sidechain_tips = [s \in SideBlocks |-> None]
    /\ ordered_sidechain_tips = {}
    /\ state_tip = None
    /\ env \in Environments
    /\ enforcer_tip \in {m \in env.mined : main_prev[m] = Zero}
    /\ stream = <<>>
    /\ main_task = Stopped
    /\ net_task = Idle
    /\ block_events = 0
    /\ new_tips = <<>>
    /\ descendant_tips = {}
    /\ submit = NoTip

(* the tips with a BMM commitment: of no other tip is there a verification *)
CommittedTips == {t \in Tips : bmm_commitment[t.main_block_hash] = t.block_hash}

MainTask == subscribe_block_events \/ sync_side_tips_to_tip \/ handle_block_event

NetTask ==
    \/ handle_mainchain_block_event
    \/ new_tip_ready
    \/ reorg_to_tip
    \/ discard_body
    \/ store_headers

Next ==
    \/ \E m \in MainBlocks : MineMainBlock(m)
    \/ \E m \in MainBlocks, announced \in BOOLEAN : ReorgMainchain(m, announced)
    \/ MainTask
    \/ \E m \in MainBlocks : handle_request(m)
    \/ StreamCloses
    \/ NetTask
    \/ \E t \in CommittedTips, start \in SideBlocks \cup {None} : check_headers(t, start)
    \/ \E s \in SideBlocks, t \in CommittedTips, body \in {"good", "bad"}, fork \in SideBlocks \cup {None} :
           receive_body(s, t, body, fork)
    \/ \E t \in CommittedTips : peer_tip_ready(t)
    \/ \E t \in CommittedTips : submit_header(t.block_hash, t.main_block_hash)
    \/ submit_body
    \/ \E s \in SideBlocks, gone \in BOOLEAN : sync_to_tip(s, gone)
    \/ \E s \in SideBlocks : invalidate_block(s)
    \/ Restart

Spec == Init /\ [][Next]_vars

---------------------------------------------------------------------------
(* Properties. *)

TypeOK ==
    /\ main_infos \subseteq MainBlocks
    /\ headers \subseteq SideBlocks
    /\ bodies \in [SideBlocks -> {"none", "good", "bad"}]
    /\ invalid_blocks \subseteq SideBlocks
    /\ bmm_results \in [SideBlocks \X MainBlocks -> {"none", "Verified", "Failed"}]
    /\ mainchain_tip \in MainBlocks \cup {Zero}
    /\ sidechain_tips \in [SideBlocks -> MainBlocks \cup {None}]
    /\ ordered_sidechain_tips \subseteq Tips
    /\ state_tip \in SideBlocks \cup {None}
    /\ enforcer_tip \in MainBlocks
    /\ env \in Environment
    /\ stream \in Seq([type : {"Connect", "Disconnect"}, block : MainBlocks])
    /\ main_task \in [pc : {"stopped", "syncing", "streaming"}, tip : MainBlocks \cup {Zero}]
    /\ net_task \in [pc : {"idle", "dead", "headers", "mainchain reorg", "peer reorg",
                           "mainchain discard", "peer discard"},
                     tip : Tips \cup {NoTip}, block : SideBlocks \cup {None}, gone : BOOLEAN]
    /\ block_events \in 0 .. MaxEvents
    /\ new_tips \in Seq([tip : Tips, gone : BOOLEAN]) /\ Len(new_tips) <= MaxTips
    /\ descendant_tips \subseteq SideBlocks \X Tips
    /\ submit \in Tips \cup {NoTip}

(* a block is validly merge-mined at m if m commits to it, extends its       *)
(* prev_main_hash, and its parent is validly merge-mined below m             *)
ValidBmm[k \in SideBlocks \X MainBlocks] ==
    LET s == k[1]
        m == k[2]
    IN  /\ bmm_commitment[m] = s
        /\ prev_main[s] = main_prev[m]
        /\ prev_side[s] = None
               \/ \E n \in MainAncestors[m] \ {m} : ValidBmm[<<prev_side[s], n>>]

(* put_header and put_main_block_info: whatever the order in which headers   *)
(* and mainchain infos arrive, from peers, from the stream or from a         *)
(* resubscription, every stored header is marked Verified at exactly the     *)
(* known mainchain blocks that validly merge-mine it.                        *)
BmmExact ==
    \A s \in headers, m \in main_infos :
        bmm_results[<<s, m>>] = "Verified" <=> ValidBmm[<<s, m>>]

(* side_tips: the table best_side_tip reads holds only tips whose BMM is on  *)
(* the active mainchain, and agrees with the main_block_hash that            *)
(* sidechain_tips records for them, through reorganisations of the mainchain *)
(* and resubscriptions.                                                      *)
OrderedTipsActive ==
    \A t \in ordered_sidechain_tips :
        /\ IsMainDescendant(t.main_block_hash, mainchain_tip)
        /\ sidechain_tips[t.block_hash] = t.main_block_hash
        /\ bmm_results[<<t.block_hash, t.main_block_hash>>] = "Verified"

(* "The sidechain tip MUST be valid to re-org to": for every side tip each   *)
(* ancestor is a side tip with a stored header and body, whatever order the  *)
(* bodies arrive in and whichever are discarded later.  It holds until the   *)
(* operator invalidates a block, whose tip Archive::invalidate_block keeps.  *)
TipsComplete ==
    invalid_blocks = {} =>
        \A s \in SideBlocks : sidechain_tips[s] # None =>
            \A x \in Ancestors[s] :
                x \in headers /\ bodies[x] # "none" /\ sidechain_tips[x] # None

(* reorg_to_tip: the connected chain consists of blocks whose stored bodies  *)
(* are the ones their headers commit to, so that each can be disconnected.   *)
StateChainSound ==
    \A x \in SideSet(state_tip) : x \in headers /\ bodies[x] = "good"

(* The tables of the side tips are sound together, whatever the mainchain    *)
(* task, the net task, the submissions and a restart do to them in turns.    *)
SideTipsSound == TypeOK /\ OrderedTipsActive /\ TipsComplete

(* a step of the net task that undoes blocks: for a better tip of another     *)
(* branch, or because the connected tip is no side tip any more              *)
Undoing ==
    \/ Reorging /\ ForkWith(net_task.tip.block_hash) # state_tip
    \/ /\ net_task = Idle
       /\ block_events' < block_events
       /\ state_tip # None
       /\ sidechain_tips[state_tip] = None

(* a step that answers a caller, or would, if the caller had not hung up *)
Unheard ==
    \/ net_task.gone
    \/ net_task = Idle /\ new_tips # <<>> /\ new_tips' = Tail(new_tips) /\ Head(new_tips).gone

(* "local infrastructure errors stay fatal" and "an invalid block must not   *)
(* kill the net task": whatever the mainchain, the peers, the submissions    *)
(* and the restarts do between its transactions, nothing ends the task but   *)
(* an invalidated block; a wrong body that a mainchain event makes it        *)
(* connect; an error of the pool as it undoes a block, or, unless the tip is *)
(* a peer's or a caller's, one of the peg or the state; and the answer to a  *)
(* client of sync_to_tip that has hung up.                                   *)
NetTaskLives ==
    [][net_task' = Dead /\ net_task # Dead =>
          \/ env.invalidations
          \/ env.bad /\ net_task.pc \in {"mainchain reorg", "mainchain discard"}
          \/ Undoing /\ "pool" \in env.undo
          \/ Undoing /\ "state" \in env.undo /\ net_task.pc # "peer reorg"
          \/ Unheard]_vars

---------------------------------------------------------------------------
(* What the source says of itself and does not keep: see README, 3.2.       *)

(* "Sidechain tips that can be re-orged to as of best known mainchain tip":  *)
(* every block in sidechain_tips is merge-mined on the active mainchain.     *)
SideTipsReorgable ==
    \A s \in SideBlocks :
        sidechain_tips[s] # None => ActiveVerifications(SideTips, s) # {}

(* "Tips for this sidechain, sorted by height, then work": the sorted table  *)
(* misses no tip whose BMM is on the active mainchain.                       *)
SortedTipsComplete ==
    \A s \in SideBlocks :
        LET m == sidechain_tips[s]
        IN  m # None /\ IsMainDescendant(m, mainchain_tip) => Tip(s, m) \in ordered_sidechain_tips

(* "A known invalid block is not present here": headers and invalid_blocks   *)
(* are disjoint.                                                             *)
InvalidNotStored == headers \cap invalid_blocks = {}

---------------------------------------------------------------------------
(* Liveness.  run starts the mainchain task again after every failure, and   *)
(* the task takes the steps it can.  Nothing is assumed of the mainchain, of *)
(* peers, of the net task or of the operator.                                *)

Fairness ==
    /\ WF_vars(subscribe_block_events)
    /\ WF_vars(sync_side_tips_to_tip)
    /\ WF_vars(handle_block_event)

FairSpec == Spec /\ Fairness

(* "the mainchain node can stop at any time, and the node must connect to it *)
(* again": once the mainchain is quiet, the archive's mainchain tip becomes  *)
(* and stays the mainchain's, however often the stream closes.               *)
MainchainFollowed == <>[](mainchain_tip = enforcer_tip)
=============================================================================
