------------------------------- MODULE Peers --------------------------------
(***************************************************************************)
(* The connections of a node to its peers: the tables of active and known  *)
(* peers, dialing, redialing and reconnecting (lib/net/mod.rs,             *)
(* lib/node/net_task.rs), and the task of a connection with its mailbox,   *)
(* its queue of requests and what it does about the tip that the peer      *)
(* announces in its heartbeats (lib/net/peer).                             *)
(*                                                                         *)
(* There is one sidechain, the blocks 1, 2, ..., and block n is merge      *)
(* mined in mainchain block n: a peer state is the height of the peer's    *)
(* tip.  NodeSync has forks, and bodies that do not connect.               *)
(***************************************************************************)
EXTENDS Naturals, Sequences, SequencesExt, FiniteSets, FiniteSetsExt

CONSTANTS
    Addresses,
    None,
    Kind,               \* what is found at an address: see Kinds
    MaxBlockRequests,   \* MAX_BLOCK_REQUESTS
    MaxChannels,        \* MAX_CHANNELS of requests
    MaxHeight,          \* bound: the number of blocks
    Cases               \* bounds on a behaviour: see Case

(* A peer, a host that does not answer, one that accepts and never speaks,  *)
(* a node of another network, and an address that cannot be dialed.         *)
Kinds == {"peer", "silent", "mute", "foreign", "invalid"}

(* ResolvedSeedAddress: Static for an IP address, Domain for a host name.   *)
Resolved == [domain : BOOLEAN, addrs : Seq(Addresses) \ {<<>>}]

Static(a) == [domain |-> FALSE, addrs |-> <<a>>]

(* The peers known at the start, what the host names of the seeds resolve   *)
(* to, the last block, and how often each fault and each call of the        *)
(* operator may happen.                                                     *)
Case ==
    [known : SUBSET Addresses, names : SUBSET Resolved, height : 0..MaxHeight,
     dials : Nat, forgets : Nat, incoming : Nat, duplicates : Nat,
     closes : Nat, timeouts : Nat, refusals : Nat, discards : Nat]

ASSUME PeersAssumption ==
    /\ Kind \in [Addresses -> Kinds]
    /\ MaxBlockRequests \in Nat \ {0} /\ MaxChannels \in Nat \ {0}
    /\ Cases \subseteq Case
    /\ \A case \in Cases : IsFiniteSet(case.known) /\ IsFiniteSet(case.names)

VARIABLES
    net,        \* known_peers, active_peers, and the channels to the net task
    timers,     \* reconnect_peer_spawner: addresses to dial again
    redial,     \* no_peers_at_last_check of redial_known_peers
    archive,    \* what the node has of the chain, and its tip
    requests,   \* mainchain_task_request_sources
    waiting,    \* descendant_tips: pairs of a missing block and a tip
    peerTip,    \* the tips of the peers
    budget      \* what is left of the case

vars == <<net, timers, redial, archive, requests, waiting, peerTip, budget>>

Spend(bound) == budget[bound] > 0 /\ budget' = [budget EXCEPT ![bound] = @ - 1]

MaxOf(m, n) == IF m >= n THEN m ELSE n

(* A table with an entry more, or less.                                     *)
Put(table, key, entry) ==
    [k \in DOMAIN table \cup {key} |-> IF k = key THEN entry ELSE table[k]]
Drop(table, key) == Restrict(table, DOMAIN table \ {key})

-----------------------------------------------------------------------------
(* Connections.  The infos of a connection reach the net task in order, and *)
(* then the notice that its channel is closed, also after the connection    *)
(* was removed from active_peers.                                           *)

NewConnection(id, resolved, task) ==
    [id |-> id, resolved |-> resolved, task |-> task, received |-> FALSE,
     state |-> None, states |-> {}, inbox |-> <<>>, tasks |-> <<>>,
     asked |-> {}, queue |-> <<>>, open |-> {}, missed |-> {}]

Connections == DOMAIN net.active
Running(a) == a \in Connections /\ net.active[a].task = "running"

(* add_active_peer of an address that is not active.                        *)
AddActivePeer(n, a, resolved, task) ==
    LET id == CHOOSE i \in 1..(Cardinality(DOMAIN n.channels) + 1) : i \notin DOMAIN n.channels
    IN  [n EXCEPT
            !.active = Put(@, a, NewConnection(id, resolved, task)),
            !.channels = Put(@, id, [addr |-> a, infos |-> <<>>, open |-> TRUE])]

(* Deviation: dropping the handle lets the task go on.                      *)
RemoveActivePeerDetached(n, a) == [n EXCEPT !.active = Drop(@, a)]

(* Dropping the handle aborts the task of the connection, which drops its   *)
(* side of the channel.                                                     *)
RemoveActivePeer(n, a) ==
    IF a \notin DOMAIN n.active THEN n
    ELSE [n EXCEPT !.active = Drop(@, a),
                   !.channels[n.active[a].id].open = FALSE]

(* connect_peer: the first address that can be dialed.                      *)
ConnectPeer(n, resolved) ==
    LET addrs == resolved.addrs
        first == {i \in DOMAIN addrs :
                     /\ Kind[addrs[i]] # "invalid"
                     /\ \A j \in 1..(i - 1) : Kind[addrs[j]] = "invalid"}
        from  == CHOOSE i \in first : TRUE
        rest  == [resolved EXCEPT !.addrs = SubSeq(@, from, Len(@))]
        known == IF resolved.domain THEN {} ELSE {addrs[from]}
    IN  IF first = {} \/ \E i \in DOMAIN addrs : addrs[i] \in DOMAIN n.active THEN n
        ELSE [AddActivePeer(n, addrs[from], rest, "connecting") EXCEPT !.known = @ \cup known]

SendInfo(n, a, info) ==
    [n EXCEPT !.channels[n.active[a].id].infos = Append(@, info)]

(* The task of the connection ends with an error.                           *)
EndTask(n, a, error) ==
    LET told == SendInfo(n, a, [kind |-> error, resolved |-> n.active[a].resolved])
    IN  [told EXCEPT !.active[a].task = "ended",
                     !.channels[n.active[a].id].open = FALSE]

-----------------------------------------------------------------------------
(* The operator, the accept loop, reconnects and redials.                   *)

RpcConnectPeer(a) ==
    /\ Spend("dials")
    /\ net' = ConnectPeer(net, Static(a))
    /\ UNCHANGED <<timers, redial, archive, requests, waiting, peerTip>>

RpcForgetPeer(a) ==
    /\ Spend("forgets")
    /\ net' = [net EXCEPT !.known = @ \ {a}]
    /\ UNCHANGED <<timers, redial, archive, requests, waiting, peerTip>>

(* A duplicate is closed with "already connected".                          *)
AcceptIncoming(a) ==
    /\ Spend("incoming")
    /\ Kind[a] = "peer" /\ a \notin Connections
    /\ net' = [AddActivePeer(net, a, Static(a), "running") EXCEPT !.known = @ \cup {a}]
    /\ UNCHANGED <<timers, redial, archive, requests, waiting, peerTip>>

(* RECONNECT_DELAY is ten seconds, and the rounds of redial_known_peers are *)
(* a minute apart: by then the net task has heard of the connections that   *)
(* ended before.  Nothing keeps an incoming connection, or one that the     *)
(* operator asks for, from being faster.                                    *)
Quiet(addrs) ==
    \A id \in DOMAIN net.channels : net.channels[id].addr \in addrs => net.channels[id].open

ReconnectPeer(resolved) ==
    /\ Quiet(ToSet(resolved.addrs))
    /\ timers' = timers \ {resolved}
    /\ net' = ConnectPeer(net, resolved)
    /\ UNCHANGED <<redial, archive, requests, waiting, peerTip, budget>>

(* dial_known_peers: the addresses in the database, then the host names;    *)
(* dial_peer skips what is connected already.                               *)
DialKnownPeers(n, names) ==
    LET known == FoldSet(LAMBDA a, x : ConnectPeer(x, Static(a)), n, n.known)
    IN  FoldSet(LAMBDA r, x : ConnectPeer(x, r), known, names)

(* Deviation: the check never comes to the dial.                            *)
RedialNever ==
    /\ Quiet(Addresses)
    /\ redial' = (Connections = {})
    /\ UNCHANGED <<net, timers, archive, requests, waiting, peerTip, budget>>

(* One round of redial_known_peers.                                         *)
RedialKnownPeers ==
    /\ Quiet(Addresses)
    /\ redial' = (Connections = {})
    /\ net' = IF Connections = {} /\ redial THEN DialKnownPeers(net, budget.names) ELSE net
    /\ UNCHANGED <<timers, archive, requests, waiting, peerTip, budget>>

-----------------------------------------------------------------------------
(* The task of a connection.                                                *)

Unchanged == UNCHANGED <<timers, redial, archive, requests, waiting, peerTip>>

Handshake(a) ==
    /\ a \in Connections /\ net.active[a].task = "connecting"
    /\ net' = IF Kind[a] = "silent" THEN EndTask(net, a, "retry")
              ELSE [net EXCEPT !.active[a].task = "running"]
    /\ Unchanged /\ UNCHANGED budget

(* The peer has dialed this node at the same time, and closes this one.     *)
DuplicateConnection(a) ==
    /\ Running(a) /\ Kind[a] = "peer"
    /\ Spend("duplicates")
    /\ net' = EndTask(net, a, "retry")
    /\ Unchanged

PeerCloses(a) ==
    /\ Running(a)
    /\ Spend("closes")
    /\ net' = EndTask(net, a, "error")
    /\ Unchanged

BadMagic(a) ==
    /\ Running(a) /\ Kind[a] = "foreign"
    /\ net' = EndTask(net, a, "magic")
    /\ Unchanged /\ UNCHANGED budget

HeartbeatTimeout(a) ==
    /\ Running(a)
    /\ \/ Kind[a] = "mute" /\ UNCHANGED budget
       \/ Kind[a] = "peer" /\ Spend("timeouts")
    /\ net' = EndTask(net, a, "timeout")
    /\ Unchanged

(* A heartbeat of the peer: handle_peer_state is queued when its state is   *)
(* another one.                                                             *)
ReceiveHeartbeat(a) ==
    LET c   == net.active[a]
        new == peerTip[a]
    IN  /\ Running(a) /\ Kind[a] = "peer"
        /\ c.state # new
        /\ net' = [net EXCEPT !.active[a] =
                      [c EXCEPT !.received = TRUE, !.state = new, !.states = @ \cup {new},
                                !.tasks = Append(@, new)]]
        /\ Unchanged /\ UNCHANGED budget

(* An InternalMessage about a peer state: MissingPeerState, or the state is *)
(* looked at again.                                                         *)
HandleInternalMessage(a) ==
    LET state == Head(net.active[a].inbox)
        read  == [net EXCEPT !.active[a].inbox = Tail(@)]
    IN  /\ Running(a) /\ net.active[a].inbox # <<>>
        /\ net' = IF state \in net.active[a].states
                  THEN [read EXCEPT !.active[a].tasks = Append(@, state)]
                  ELSE EndTask(read, a, "error")
        /\ Unchanged /\ UNCHANGED budget

-----------------------------------------------------------------------------
(* Requests.  The state is not part of the hash by which a connection tells *)
(* duplicates.                                                              *)

GetHeaders(start, end) == [type |-> "headers", start |-> start, block |-> end, state |-> end]
GetBlock(block, ancestor, state) ==
    [type |-> "block", start |-> ancestor, block |-> block, state |-> state]

RequestHash(r) == IF r.type = "headers" THEN <<r.type, r.start, r.block>> ELSE <<r.type, r.block>>

(* Requests that differ, one after the other.                               *)
SendRequests(c, rs) ==
    LET new == SelectSeq(rs, LAMBDA r : \A q \in c.asked : RequestHash(q) # RequestHash(r))
    IN  [c EXCEPT !.asked = @ \cup ToSet(new), !.queue = @ \o new]

Missing(bodies, from, to) == (from..to) \ bodies

(* What a state may miss for good, besides refusals: the mainchain task is  *)
(* behind the peer's, or more bodies are missing than one batch takes and   *)
(* one of the batch was asked for in another state, which alone will hear   *)
(* of it.                                                                   *)
Overlooked(c, t, missing, batch) ==
    /\ t > archive.tip /\ archive.infos >= t
    /\ \/ t > archive.mainTip
       \/ /\ archive.headers >= t
          /\ Len(missing) > Len(batch)
          /\ \E i \in DOMAIN batch, r \in c.asked :
                r.type = "block" /\ r.block = batch[i] /\ r.state # t

(* handle_peer_state, on the head of blocking_task_queue.                   *)
HandlePeerState(a) ==
    LET c       == net.active[a]
        t       == Head(c.tasks)
        taken   == [net EXCEPT !.active[a].tasks = Tail(@)]
        missing == SetToSortSeq(Missing(archive.bodies, MaxOf(archive.tip, 1), t), <)
        batch   == SubSeq(missing, 1, Min({MaxBlockRequests, Len(missing)}))
        after   ==
            CASE t > archive.infos -> SendInfo(taken, a, [kind |-> "ancestors", state |-> t])
              [] archive.infos >= t /\ t > archive.mainTip -> taken
              [] archive.mainTip >= t /\ archive.tip >= t -> taken
              [] archive.mainTip >= t /\ t > archive.tip /\ t > archive.headers ->
                    [taken EXCEPT !.active[a] = SendRequests(@, <<GetHeaders(archive.tip, t)>>)]
              [] OTHER ->
                    IF missing = <<>> THEN SendInfo(taken, a, [kind |-> "ready", state |-> t])
                    ELSE [taken EXCEPT !.active[a] =
                             SendRequests(@, [i \in DOMAIN batch |->
                                                 GetBlock(batch[i], archive.tip, t)])]
    IN  /\ Running(a) /\ c.tasks # <<>>
        /\ net' = IF Overlooked(c, t, missing, batch)
                  THEN [after EXCEPT !.active[a].missed = @ \cup {t}] ELSE after
        /\ Unchanged /\ UNCHANGED budget

(* The channel pool of a connection, and its request queue.  A channel is   *)
(* free again once its request was answered, or timed out.                  *)
ChannelFree(c) == Cardinality(c.open) < MaxChannels

Opened(c, r) == [c EXCEPT !.open = @ \cup {r}]

SendQueued(a) ==
    LET c == net.active[a]
    IN  /\ Running(a) /\ c.queue # <<>> /\ ChannelFree(c)
        /\ net' = [net EXCEPT !.active[a] = Opened([c EXCEPT !.queue = Tail(@)], Head(c.queue))]
        /\ Unchanged /\ UNCHANGED budget

Close(a, r, info) ==
    LET c == net.active[a]
    IN  SendInfo([net EXCEPT !.active[a] = [c EXCEPT !.open = @ \ {r}, !.received = TRUE]],
                 a, info)

(* handle_get_block and handle_get_headers of the peer.                     *)
PeerAnswers(a, r) ==
    /\ Running(a) /\ Kind[a] = "peer"
    /\ net' = Close(a, r, [kind |-> "response", request |-> r])
    /\ Unchanged /\ UNCHANGED budget

(* NoBlock or NoHeader.                                                     *)
PeerRefuses(a, r) ==
    /\ Running(a) /\ Kind[a] = "peer"
    /\ Spend("refusals")
    /\ net' = [Close(a, r, [kind |-> "refused"]) EXCEPT
                  !.active[a].missed = @ \cup (r.block..budget.height)]
    /\ Unchanged

(* receive_response fails: an error of the connection, which goes on.       *)
ResponseTimeout(a, r) ==
    /\ Running(a)
    /\ Spend("timeouts")
    /\ net' = SendInfo([net EXCEPT !.active[a].open = @ \ {r}], a,
                       [kind |-> "error", resolved |-> net.active[a].resolved])
    /\ Unchanged

-----------------------------------------------------------------------------
(* The net task.                                                            *)

Delivered(c, state) ==
    IF c.task = "ended" THEN c ELSE [c EXCEPT !.inbox = Append(@, state)]

PushInternalMessage(n, a, state) ==
    IF a \in DOMAIN n.active THEN [n EXCEPT !.active[a] = Delivered(@, state)] ELSE n

(* pop_first_ip_addr: what is left to try.                                  *)
Others(resolved) ==
    IF Len(resolved.addrs) = 1 THEN {}
    ELSE {[resolved EXCEPT !.addrs = Tail(@)]}

(* The error of a connection to a: what to dial after RECONNECT_DELAY.      *)
ToRedial(n, a, info) ==
    CASE info.kind = "timeout" ->
            IF a \notin DOMAIN n.active THEN {}
            ELSE IF n.active[a].received THEN {info.resolved} ELSE Others(info.resolved)
      [] info.kind = "retry" -> {info.resolved}
      [] info.kind = "magic" -> {}
      [] info.kind = "error" -> Others(info.resolved)

HandleError(n, a, info) ==
    /\ net' = [RemoveActivePeer(n, a) EXCEPT
                  !.known = IF info.kind = "magic" THEN @ \ {a} ELSE @]
    /\ timers' = timers \cup ToRedial(n, a, info)
    /\ UNCHANGED <<archive, requests, waiting>>

(* Deviation: the connection hears of its bodies when the tip is complete.  *)
BodiesAvailableAtTip(n, a, r, bodies) ==
    IF Missing(bodies, r.start + 1, r.block) = {} /\ r.block = r.state
    THEN PushInternalMessage(n, a, r.state) ELSE n

BodiesAvailable(n, a, r, bodies) ==
    IF Missing(bodies, r.start + 1, r.block) = {} THEN PushInternalMessage(n, a, r.state) ELSE n

(* GetBlock answered: store the body, then connect what it completes.       *)
HandleBlock(n, a, r) ==
    LET bodies == archive.bodies \cup {r.block}
        gap    == Missing(bodies, r.start + 1, r.block)
        parked == waiting \cup (IF gap = {} THEN {} ELSE {<<Min(gap), r.state>>})
        woken  == {w[2] : w \in {x \in parked : x[1] = r.block}}
        left(d) == Missing(bodies, archive.tip + 1, d)
        next(d) == IF left(d) = {} THEN d ELSE Min(left(d)) - 1
        tips   == {next(d) : d \in woken}
                     \cup (IF r.block = archive.tip + 1 THEN {r.block} ELSE {})
    IN  /\ archive' = [archive EXCEPT !.bodies = bodies, !.tip = Max(tips \cup {@})]
        /\ waiting' = {w \in parked : w[1] # r.block}
                         \cup {<<Min(left(d)), d>> : d \in {x \in woken : left(x) # {}}}
        /\ net' = BodiesAvailable(n, a, r, bodies)
        /\ UNCHANGED <<timers, requests>>

(* GetHeaders answered.                                                     *)
HandleHeaders(n, a, r) ==
    /\ archive' = [archive EXCEPT !.headers = MaxOf(@, r.block)]
    /\ net' = PushInternalMessage(n, a, r.state)
    /\ UNCHANGED <<timers, requests, waiting>>

(* NewTipReady, and reorg_to_tip.                                           *)
HandleTipReady(n, state) ==
    /\ archive' = [archive EXCEPT
                      !.tip = IF Missing(archive.bodies, @ + 1, state) = {} THEN MaxOf(@, state)
                              ELSE @]
    /\ net' = n
    /\ UNCHANGED <<timers, requests, waiting>>

HandleInfo(id) ==
    LET channel == net.channels[id]
        info    == Head(channel.infos)
        a       == channel.addr
        n       == [net EXCEPT !.channels[id].infos = Tail(@)]
    IN  /\ id \in DOMAIN net.channels /\ channel.infos # <<>>
        /\ CASE info.kind \in {"timeout", "retry", "magic", "error"} -> HandleError(n, a, info)
             [] info.kind = "ancestors" ->
                   /\ requests' = requests \cup {<<a, info.state>>}
                   /\ net' = n
                   /\ UNCHANGED <<timers, archive, waiting>>
             [] info.kind = "ready" -> HandleTipReady(n, info.state)
             [] info.kind = "response" ->
                   IF info.request.type = "block" THEN HandleBlock(n, a, info.request)
                   ELSE HandleHeaders(n, a, info.request)
             [] OTHER -> net' = n /\ UNCHANGED <<timers, archive, requests, waiting>>
        /\ UNCHANGED <<redial, peerTip, budget>>

(* PeerInfo(addr, None).                                                    *)
ChannelClosed(id) ==
    /\ id \in DOMAIN net.channels
    /\ net.channels[id].infos = <<>> /\ ~net.channels[id].open
    /\ net' = [RemoveActivePeer(net, net.channels[id].addr) EXCEPT
                  !.channels = Drop(@, id)]
    /\ Unchanged /\ UNCHANGED budget

-----------------------------------------------------------------------------
(* The mainchain task, and the rest of the world.                           *)

(* handle_mainchain_task_response: every source of the request hears of it. *)
AncestorInfos(state) ==
    LET sources == {q \in requests : q[2] = state}
    IN  /\ sources # {}
        /\ requests' = requests \ sources
        /\ archive' = [archive EXCEPT !.infos = MaxOf(@, state)]
        /\ net' = [net EXCEPT !.active = [a \in DOMAIN @ |->
                      IF <<a, state>> \in sources THEN Delivered(@[a], state) ELSE @[a]]]
        /\ UNCHANGED <<timers, redial, waiting, peerTip, budget>>

Forgo(n, states) ==
    [n EXCEPT !.active =
        [a \in DOMAIN n.active |-> [n.active[a] EXCEPT !.missed = @ \cup states]]]

(* MainchainAncestorsError is only logged, and so is a request beyond       *)
(* MAX_PENDING_MAINCHAIN_REQUESTS.                                          *)
AncestorInfosFail(state) ==
    LET sources == {q \in requests : q[2] = state}
    IN  /\ sources # {}
        /\ Spend("refusals")
        /\ requests' = requests \ sources
        /\ net' = Forgo(net, {state})
        /\ UNCHANGED <<timers, redial, archive, waiting, peerTip>>

(* The mainchain task connects the next mainchain block.                    *)
MainchainBlock ==
    /\ archive.mainTip < budget.height
    /\ archive' = [archive EXCEPT !.mainTip = @ + 1, !.infos = MaxOf(@, archive.mainTip + 1)]
    /\ UNCHANGED <<net, timers, redial, requests, waiting, peerTip, budget>>

(* A body above the tip came from elsewhere, does not connect, and goes.    *)
DiscardBody(b) ==
    /\ Spend("discards")
    /\ b \in archive.bodies /\ b > archive.tip
    /\ archive' = [archive EXCEPT !.bodies = @ \ {b}]
    /\ net' = Forgo(net, b..budget.height)
    /\ UNCHANGED <<timers, redial, requests, waiting, peerTip>>

(* What a peer does while it is not connected shows when it is again.       *)
PeerAdvances(a) ==
    /\ Running(a) /\ Kind[a] = "peer"
    /\ peerTip[a] < budget.height
    /\ peerTip' = [peerTip EXCEPT ![a] = @ + 1]
    /\ UNCHANGED <<net, timers, redial, archive, requests, waiting, budget>>

-----------------------------------------------------------------------------
(* Net::new dials the known peers, and the host names.                      *)
Init ==
    /\ budget \in Cases
    /\ net = DialKnownPeers(
                [known |-> {a \in budget.known : Kind[a] # "invalid"},
                 active |-> [a \in {} |-> None],
                 channels |-> [i \in {} |-> None]], budget.names)
    /\ timers = {}
    /\ redial = FALSE
    /\ archive = [infos |-> 0, mainTip |-> 0, headers |-> 0, bodies |-> {}, tip |-> 0]
    /\ requests = {}
    /\ waiting = {}
    /\ peerTip = [a \in Addresses |-> 0]

Ids == 1..(2 * Cardinality(Addresses))

NetTask(id) == HandleInfo(id) \/ ChannelClosed(id)

ConnectionTask(a) ==
    \/ Handshake(a)
    \/ BadMagic(a)
    \/ HeartbeatTimeout(a)
    \/ ReceiveHeartbeat(a)
    \/ HandleInternalMessage(a)
    \/ HandlePeerState(a)
    \/ SendQueued(a)
    \/ Running(a) /\ \E r \in net.active[a].open : PeerAnswers(a, r)

Environment ==
    \/ \E a \in Addresses :
          \/ RpcConnectPeer(a)
          \/ RpcForgetPeer(a)
          \/ AcceptIncoming(a)
          \/ DuplicateConnection(a)
          \/ PeerCloses(a)
          \/ Running(a) /\ \E r \in net.active[a].open : PeerRefuses(a, r) \/ ResponseTimeout(a, r)
          \/ PeerAdvances(a)
    \/ \E state \in {q[2] : q \in requests} : AncestorInfosFail(state)
    \/ \E b \in archive.bodies : DiscardBody(b)
    \/ MainchainBlock

Next ==
    \/ Environment
    \/ \E a \in Addresses : ConnectionTask(a)
    \/ \E id \in Ids : NetTask(id)
    \/ \E state \in {q[2] : q \in requests} : AncestorInfos(state)
    \/ \E resolved \in timers : ReconnectPeer(resolved)
    \/ RedialKnownPeers

(* Tasks take the steps they can, peers answer, timers fire.  Faults, the   *)
(* operator and new blocks are not assumed.                                 *)
Fairness ==
    /\ \A a \in Addresses :
          /\ WF_vars(Handshake(a)) /\ WF_vars(BadMagic(a))
          /\ WF_vars(Kind[a] = "mute" /\ HeartbeatTimeout(a))
          /\ WF_vars(ReceiveHeartbeat(a)) /\ WF_vars(HandleInternalMessage(a))
          /\ WF_vars(HandlePeerState(a)) /\ WF_vars(SendQueued(a))
          /\ WF_vars(Running(a) /\ \E r \in net.active[a].open : PeerAnswers(a, r))
    /\ \A id \in Ids : WF_vars(NetTask(id))
    /\ WF_vars(\E state \in {q[2] : q \in requests} : AncestorInfos(state))
    /\ WF_vars(\E resolved \in timers : ReconnectPeer(resolved))
    /\ WF_vars(RedialKnownPeers)

Spec == Init /\ [][Next]_vars /\ Fairness

-----------------------------------------------------------------------------
(* Properties.                                                              *)

(* active_peers and the tasks of connections agree, through connections     *)
(* from both sides, errors and notices that come late and removals by       *)
(* address: a task that runs is the one of the entry at its address (an     *)
(* orphan would go on serving a peer that can be connected a second time),  *)
(* and an entry whose task has ended still has its channel to tell the net  *)
(* task (it would keep its address from being dialed).                      *)
EntriesMatchTasks ==
    /\ \A id \in DOMAIN net.channels :
          LET a == net.channels[id].addr
          IN  net.channels[id].open =>
                 a \in Connections /\ net.active[a].id = id /\ net.active[a].task # "ended"
    /\ \A a \in Connections :
          LET c == net.active[a]
          IN  /\ c.id \in DOMAIN net.channels /\ net.channels[c.id].addr = a
              /\ net.channels[c.id].open <=> c.task # "ended"

(* handle_peer_state: the tip a peer announces is reached as long as the    *)
(* connection lasts and the peer stays at it, through any order of answers, *)
(* batches of bodies and states of the same peer.  The exceptions are       *)
(* recorded in missed: the mainchain task was behind the peer's, it could   *)
(* not get the ancestors, the peer refused, a body was discarded, or one of *)
(* the bodies of a full batch had been asked for in another state.          *)
Fetching(a, t) ==
    /\ Running(a) /\ net.active[a].state = t
    /\ t > archive.tip
    /\ t \notin net.active[a].missed

AnnouncedFetched ==
    \A a \in Addresses, t \in 1..MaxHeight : []<>~Fetching(a, t)

(* "Dial the known peers again while no peer connection exists": a node     *)
(* that knows a peer does not stay alone.  A host that does not answer is   *)
(* dialed again for ever, and while it is the redial waits.                 *)
PeerKnown ==
    \/ \E a \in net.known : Kind[a] = "peer"
    \/ \E r \in budget.names : \E i \in DOMAIN r.addrs : Kind[r.addrs[i]] = "peer"

NotAlone == \E a \in Connections : Kind[a] = "peer" /\ Running(a)
KeepsTimingOut == \E a \in Connections : Kind[a] = "silent"

Reconnects == <>[]PeerKnown => []<>NotAlone \/ []<>KeepsTimingOut
=============================================================================
