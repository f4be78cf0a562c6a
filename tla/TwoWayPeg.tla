----------------------------- MODULE TwoWayPeg ------------------------------
(***************************************************************************)
(* The two-way peg of the sidechain state (lib/state/two_way_peg_data.rs): *)
(* deposits from the mainchain, and the life-cycle of withdrawal bundles   *)
(* (Pending, Submitted, Confirmed or Failed, resubmitted unexpectedly),    *)
(* applied when a block is connected and reverted when it is disconnected. *)
(*                                                                         *)
(* The databases are the fields of one record, db, that the handlers       *)
(* transform; `ok' becomes FALSE where the code returns an error, which    *)
(* aborts the surrounding LMDB transaction.  A bundle is identified by     *)
(* what its m6id commits to: the height it was collected at and the        *)
(* outputs it spends.                                                      *)
(***************************************************************************)
EXTENDS Integers, Sequences, FiniteSets, SequencesExt

CONSTANTS
    Withdrawals,    \* withdrawal outputs: integers, a higher one pays more fee
    Deposits,       \* deposit outputs
    UnknownBundles, \* m6ids this chain never produced
    BundleCap,      \* outputs that fit the weight limit of a bundle
    FailureGap,     \* WITHDRAWAL_BUNDLE_FAILURE_GAP (4)
    CrossFork,      \* the mainchain may report bundles that another branch proposed
    Scopes,         \* the bounds on a behaviour: see Scope
    None            \* no pending bundle

(* the height of the chain, mainchain events per block, disconnected        *)
(* blocks, and the deposits and unknown bundles that may occur              *)
Scope ==
    [height : Nat, events : Nat, disconnects : Nat,
     outside : SUBSET (Deposits \cup UnknownBundles)]

(* What the m6id of a bundle of this chain commits to, and all m6ids.       *)
OwnBundles == [height : Nat, spend : SUBSET Withdrawals]
Bundles == OwnBundles \cup UnknownBundles

ASSUME PegAssumption ==
    /\ Withdrawals \subseteq Nat
    /\ Withdrawals \cap Deposits = {}
    /\ UnknownBundles \cap OwnBundles = {}
    /\ None \notin Bundles
    /\ CrossFork \in BOOLEAN
    /\ {BundleCap, FailureGap} \subseteq Nat
    /\ Scopes \subseteq Scope

VARIABLES
    blocks,         \* connected blocks: created withdrawals, spent outputs, events
    db,             \* the databases
    before,         \* history variable: db before each connected block
    scope,          \* the bounds, with the number of disconnects left
    proposed        \* with CrossFork, the bundles that were pending on any branch

vars == <<blocks, db, before, scope, proposed>>

Outputs == Withdrawals \cup Deposits

NoBundles == [m \in {} |-> {}]

EmptyDb == [ok |-> TRUE, utxos |-> {}, stxos |-> {}, bundles |-> NoBundles,
            pending |-> None, latest_failed |-> <<>>,
            deposit_blocks |-> <<>>, bundle_blocks |-> <<>>]

-----------------------------------------------------------------------------
(* Roll-back stacks and small helpers.                                     *)

Stamped(value, height) == [value |-> value, height |-> height]

Latest(stack) == stack[Len(stack)]

Fail(d) == [d EXCEPT !.ok = FALSE]

PutBundle(d, m, info, status) ==
    LET record == [info |-> info, status |-> status]
    IN  [d EXCEPT !.bundles =
            [x \in DOMAIN d.bundles \cup {m} |-> IF x = m THEN record ELSE d.bundles[x]]]

DeleteBundle(d, m) ==
    [d EXCEPT !.bundles = [x \in DOMAIN d.bundles \ {m} |-> d.bundles[x]]]

(* A bundle with no status left is deleted.                                *)
PopStatus(d, m) ==
    IF Len(d.bundles[m].status) = 1 THEN DeleteBundle(d, m)
    ELSE PutBundle(d, m, d.bundles[m].info, Front(d.bundles[m].status))

(* Deviation: the outputs of a bundle are recorded as spent and stay.      *)
SpendKeepsUtxos(d, outs) == [d EXCEPT !.stxos = @ \cup outs]

Spend(d, outs) == [d EXCEPT !.utxos = @ \ outs, !.stxos = @ \cup outs]
Unspend(d, outs) == [d EXCEPT !.utxos = @ \cup outs, !.stxos = @ \ outs]

SubmittedKinds == {"Submitted", "SubmittedUnexpected"}

(* A bundle's record: Known with its outputs, Unknown, or UnknownConfirmed *)
(* with the outputs that were spent for it.                                *)
Known(spend)            == [kind |-> "Known", spend |-> spend]
Unknown                 == [kind |-> "Unknown", spend |-> {}]
UnknownConfirmed(spend) == [kind |-> "UnknownConfirmed", spend |-> spend]

-----------------------------------------------------------------------------
(* Connecting mainchain events.                                            *)

(* The pending bundle: its outputs are spent.  A failed bundle: it is in   *)
(* flight again, unexpectedly.  A bundle nobody here knows is recorded.    *)
(* Any other known bundle is an error.                                     *)
ConnectSubmitted(d, m, height) ==
    IF d.pending = m THEN
        LET b == d.bundles[m]
        IN  IF \/ b.info.kind # "Known"
               \/ ~(b.info.spend \subseteq d.utxos)
               \/ Latest(b.status).value # "Pending"
            THEN Fail(d)
            ELSE [PutBundle(Spend(d, b.info.spend), m, b.info,
                            Append(b.status, Stamped("Submitted", height)))
                    EXCEPT !.pending = None]
    ELSE IF m \in DOMAIN d.bundles THEN
        LET b == d.bundles[m]
        IN  IF Latest(b.status).value = "Failed" /\ b.info.kind # "UnknownConfirmed"
            THEN PutBundle(d, m, b.info,
                           Append(b.status, Stamped("SubmittedUnexpected", height)))
            ELSE Fail(d)
    ELSE PutBundle(d, m, Unknown, <<Stamped("Submitted", height)>>)

(* Deviation: a bundle is confirmed without its outputs being checked.     *)
ConnectConfirmedInsolvent(d, m, height) ==
    IF m \notin DOMAIN d.bundles \/ Latest(d.bundles[m].status).value \notin SubmittedKinds
    THEN Fail(d)
    ELSE PutBundle(Spend(d, d.bundles[m].info.spend), m, d.bundles[m].info,
                   Append(d.bundles[m].status, Stamped("Confirmed", height)))

(* An unknown bundle may only be confirmed in the genesis block, and then  *)
(* spends everything; an unexpected one spends its outputs now.            *)
ConnectConfirmed(d, m, height) ==
    IF m \notin DOMAIN d.bundles THEN Fail(d)
    ELSE LET b  == d.bundles[m]
             st == Append(b.status, Stamped("Confirmed", height))
             unexpected == Latest(b.status).value = "SubmittedUnexpected"
         IN  IF Latest(b.status).value = "Confirmed" THEN d
             ELSE IF Latest(b.status).value \notin SubmittedKinds THEN Fail(d)
             ELSE CASE b.info.kind = "UnknownConfirmed" -> Fail(d)
                    [] b.info.kind = "Unknown" ->
                         IF height # 0 THEN Fail(d)
                         ELSE PutBundle(Spend(d, d.utxos), m, UnknownConfirmed(d.utxos), st)
                    [] b.info.kind = "Known" ->
                         IF ~unexpected THEN PutBundle(d, m, b.info, st)
                         ELSE IF b.info.spend \subseteq d.utxos
                         THEN PutBundle(Spend(d, b.info.spend), m, b.info, st)
                         ELSE Fail(d)

(* A failed bundle gives its outputs back, unless it was unexpected (then  *)
(* it never spent them).                                                   *)
ConnectFailed(d, m, height) ==
    IF m \notin DOMAIN d.bundles THEN Fail(d)
    ELSE LET b  == d.bundles[m]
             st == Append(b.status, Stamped("Failed", height))
         IN  IF Latest(b.status).value = "Failed" THEN d
             ELSE IF Latest(b.status).value \notin SubmittedKinds THEN Fail(d)
             ELSE IF b.info.kind # "Known" \/ Latest(b.status).value = "SubmittedUnexpected"
             THEN PutBundle(d, m, b.info, st)
             ELSE [PutBundle(Unspend(d, b.info.spend), m, b.info, st)
                     EXCEPT !.latest_failed = Append(@, Stamped(m, height))]

ConnectEvent(d, event, height) ==
    CASE event.kind = "Deposit"   -> [d EXCEPT !.utxos = @ \cup {event.id}]
      [] event.kind = "Submitted" -> ConnectSubmitted(d, event.id, height)
      [] event.kind = "Confirmed" -> ConnectConfirmed(d, event.id, height)
      [] event.kind = "Failed"    -> ConnectFailed(d, event.id, height)

(* The height of the latest failure, 0 when no bundle has failed.          *)
LatestFailureHeight(d) ==
    IF d.latest_failed = <<>> THEN 0
    ELSE LET st == d.bundles[Latest(d.latest_failed).value].status
         IN  st[SelectLastInSeq(st, LAMBDA s : s.value = "Failed")].height

(* collect_withdrawal_bundle: the withdrawals that pay most, up to the cap.*)
Collect(utxos) ==
    {w \in utxos \cap Withdrawals :
        Cardinality({v \in utxos \cap Withdrawals : v > w}) < BundleCap}

CollectPending(d, height) ==
    LET spend  == Collect(d.utxos)
        m      == [height |-> height, spend |-> spend]
        status == IF m \in DOMAIN d.bundles THEN d.bundles[m].status ELSE <<>>
    IN  IF \/ height - LatestFailureHeight(d) < FailureGap
           \/ d.pending # None \/ spend = {}
        THEN d
        ELSE [PutBundle(d, m, Known(spend), Append(status, Stamped("Pending", height)))
                EXCEPT !.pending = m]

Kinds(events) == {events[i].kind : i \in DOMAIN events}

(* The last block of each kind of event is remembered, with the height.    *)
NoteEventBlocks(d, events, height) ==
    [d EXCEPT !.deposit_blocks = IF "Deposit" \in Kinds(events) THEN Append(@, height) ELSE @,
              !.bundle_blocks = IF Kinds(events) \ {"Deposit"} # {} THEN Append(@, height) ELSE @]

(* The events in turn, until one fails.                                    *)
ConnectEvents(d, events, height) ==
    LET after[i \in 0..Len(events)] ==
            IF i = 0 THEN d
            ELSE IF after[i-1].ok THEN ConnectEvent(after[i-1], events[i], height)
            ELSE after[i-1]
    IN  after[Len(events)]

ConnectPeg(d, events, height) ==
    LET applied == ConnectEvents(d, events, height)
    IN  IF applied.ok
        THEN CollectPending(NoteEventBlocks(applied, events, height), height)
        ELSE applied

-----------------------------------------------------------------------------
(* Disconnecting them, last first.                                         *)

DisconnectSubmitted(d, m, height) ==
    IF m \notin DOMAIN d.bundles THEN (IF d.pending = m THEN d ELSE Fail(d))
    ELSE LET b    == d.bundles[m]
             last == Latest(b.status)
         IN  IF last.value \notin SubmittedKinds \/ last.height # height THEN Fail(d)
             ELSE IF /\ b.info.kind = "Known"
                     /\ Len(b.status) > 1
                     /\ b.status[Len(b.status) - 1].value = "Pending"
             THEN IF b.info.spend \subseteq d.stxos
                  THEN [PopStatus(Unspend(d, b.info.spend), m) EXCEPT !.pending = m]
                  ELSE Fail(d)
             ELSE PopStatus(d, m)

DisconnectConfirmed(d, m, height) ==
    IF m \notin DOMAIN d.bundles THEN Fail(d)
    ELSE LET b    == d.bundles[m]
             last == Latest(b.status)
             prev == b.status[Len(b.status) - 1].value
         IN  IF last.value \in SubmittedKinds THEN d
             ELSE IF last.value # "Confirmed" \/ last.height # height \/ Len(b.status) = 1
                     \/ prev \notin SubmittedKinds
             THEN Fail(d)
             ELSE IF ~(b.info.spend \subseteq d.stxos) THEN Fail(d)
             ELSE CASE b.info.kind = "Known" /\ prev = "SubmittedUnexpected" ->
                         PopStatus(Unspend(d, b.info.spend), m)
                    [] b.info.kind = "UnknownConfirmed" ->
                         PutBundle(Unspend(d, b.info.spend), m, Unknown, Front(b.status))
                    [] OTHER -> PopStatus(d, m)

DisconnectFailed(d, m, height) ==
    IF m \notin DOMAIN d.bundles THEN Fail(d)
    ELSE LET b    == d.bundles[m]
             last == Latest(b.status)
             prev == b.status[Len(b.status) - 1].value
         IN  IF last.value = "Submitted" THEN d
             ELSE IF last.value # "Failed" \/ last.height # height \/ Len(b.status) = 1
                     \/ prev \notin SubmittedKinds
             THEN Fail(d)
             ELSE IF b.info.kind # "Known" \/ prev = "SubmittedUnexpected" THEN PopStatus(d, m)
             ELSE IF \/ ~(b.info.spend \subseteq d.utxos)
                     \/ d.latest_failed = <<>>
                     \/ Latest(d.latest_failed) # Stamped(m, height)
             THEN Fail(d)
             ELSE [PopStatus(Spend(d, b.info.spend), m) EXCEPT !.latest_failed = Front(@)]

DisconnectEvent(d, event, height) ==
    CASE event.kind = "Deposit" ->
            IF event.id \in d.utxos THEN [d EXCEPT !.utxos = @ \ {event.id}] ELSE Fail(d)
      [] event.kind = "Submitted" -> DisconnectSubmitted(d, event.id, height)
      [] event.kind = "Confirmed" -> DisconnectConfirmed(d, event.id, height)
      [] event.kind = "Failed"    -> DisconnectFailed(d, event.id, height)

(* The bundle collected by the block is dropped: the pending one, if its   *)
(* latest status is from this height.                                      *)
DropPending(d, height) ==
    IF \/ height - LatestFailureHeight(d) < FailureGap \/ d.pending = None THEN d
    ELSE IF d.pending \notin DOMAIN d.bundles THEN Fail(d)
    ELSE IF Latest(d.bundles[d.pending].status).height # height THEN d
    ELSE [PopStatus(d, d.pending) EXCEPT !.pending = None]

(* Deviation: the record of a bundle event is looked for in deposit_blocks.*)
ForgetEventBlocksWrongDb(d, events, height) ==
    [d EXCEPT !.deposit_blocks = IF @ # <<>> /\ Last(@) = height THEN Front(@) ELSE @]

ForgetEventBlocks(d, events, height) ==
    LET deposit == "Deposit" \in Kinds(events)
        bundle  == Kinds(events) \ {"Deposit"} # {}
    IN  IF \/ deposit /\ (d.deposit_blocks = <<>> \/ Last(d.deposit_blocks) # height)
           \/ bundle /\ (d.bundle_blocks = <<>> \/ Last(d.bundle_blocks) # height)
        THEN Fail(d)
        ELSE [d EXCEPT !.deposit_blocks = IF deposit THEN Front(@) ELSE @,
                       !.bundle_blocks = IF bundle THEN Front(@) ELSE @]

DisconnectEvents(d, events, height) ==
    LET n == Len(events)
        after[i \in 0..n] ==
            IF i = 0 THEN d
            ELSE IF after[i-1].ok THEN DisconnectEvent(after[i-1], events[n + 1 - i], height)
            ELSE after[i-1]
    IN  after[n]

DisconnectPeg(d, events, height) ==
    LET undone == DisconnectEvents(d, events, height)
    IN  IF undone.ok THEN DropPending(ForgetEventBlocks(undone, events, height), height)
        ELSE undone

-----------------------------------------------------------------------------
(* The mainchain: what it may report for a bundle after what it reported   *)
(* in the blocks so far.  It cannot report a bundle nobody proposed; with  *)
(* CrossFork it may report one that only a disconnected branch proposed.   *)

(* The last event about a bundle in a sequence of events.                  *)
LastReport(events, m) ==
    LET past == {i \in DOMAIN events : events[i].id = m}
    IN  IF past = {} THEN "None" ELSE events[Max(past)].kind

(* ... and in the blocks of a chain.                                       *)
ChainReport(chain, m) ==
    LET told == {i \in DOMAIN chain : LastReport(chain[i].events, m) # "None"}
    IN  IF told = {} THEN "None" ELSE LastReport(chain[Max(told)].events, m)

DepositsIn(events) ==
    {events[i].id : i \in {j \in DOMAIN events : events[j].kind = "Deposit"}}

(* The outputs that the blocks of a chain created.                         *)
Created(chain) ==
    UNION {chain[i].created \cup DepositsIn(chain[i].events) : i \in DOMAIN chain}

ReportedBundles ==
    (UnknownBundles \cap scope.outside)
        \cup (IF CrossFork THEN proposed ELSE DOMAIN db.bundles)

MainchainEvents ==
    [kind : {"Deposit"}, id : Deposits \cap scope.outside]
        \cup [kind : {"Submitted", "Confirmed", "Failed"}, id : ReportedBundles]

(* A deposit happens once.                                                 *)
MayReport(events, i) ==
    LET here == LastReport(SubSeq(events, 1, i - 1), events[i].id)
        last == IF here = "None" THEN ChainReport(blocks, events[i].id) ELSE here
    IN  CASE events[i].kind = "Deposit" ->
                /\ events[i].id \notin Created(blocks)
                /\ \A j \in 1..(i - 1) : events[j] # events[i]
          [] events[i].kind = "Submitted" -> last \in {"None", "Failed"}
          [] OTHER                        -> last = "Submitted"

MayReportAll(events) == \A i \in DOMAIN events : MayReport(events, i)

-----------------------------------------------------------------------------
Init ==
    /\ blocks = <<>>
    /\ db = EmptyDb
    /\ before = <<>>
    /\ scope \in Scopes
    /\ proposed = {}

(* The block's transactions: a withdrawal output can be created, and is    *)
(* then never spent by a transaction; other outputs can be spent.          *)
ConnectBody(d, created, spent) == Spend([d EXCEPT !.utxos = @ \cup created], spent)

DisconnectBody(d, created, spent) ==
    IF ~(created \subseteq d.utxos) \/ ~(spent \subseteq d.stxos) THEN Fail(d)
    ELSE LET back == Unspend(d, spent) IN [back EXCEPT !.utxos = @ \ created]

(* connect_tip_: the body, then the peg data; an error aborts it all.      *)
ConnectTip(created, spent, events) ==
    LET height == Len(blocks)
        after  == ConnectPeg(ConnectBody(db, created, spent), events, height)
    IN  /\ height =< scope.height
        /\ height = 0 => created = {}
        /\ MayReportAll(events)
        /\ after.ok
        /\ db' = after
        /\ blocks' = Append(blocks, [created |-> created, spent |-> spent, events |-> events])
        /\ before' = Append(before, db)
        /\ proposed' = IF CrossFork THEN proposed \cup ({after.pending} \ {None}) ELSE {}
        /\ UNCHANGED scope

(* What disconnect_tip_ computes: the peg data first, then the body.       *)
Disconnected ==
    LET block  == blocks[Len(blocks)]
        undone == DisconnectPeg(db, block.events, Len(blocks) - 1)
    IN  IF undone.ok THEN DisconnectBody(undone, block.created, block.spent) ELSE undone

DisconnectTip ==
    /\ blocks # <<>>
    /\ scope.disconnects > 0
    /\ Disconnected.ok
    /\ scope' = [scope EXCEPT !.disconnects = @ - 1]
    /\ db' = Disconnected
    /\ blocks' = Front(blocks)
    /\ before' = Front(before)
    /\ UNCHANGED proposed

Next ==
    \/ \E created \in SUBSET (Withdrawals \ (db.utxos \cup db.stxos)),
          spent \in SUBSET (db.utxos \cap Deposits),
          n \in 0..scope.events :
            \E events \in [1..n -> MainchainEvents] : ConnectTip(created, spent, events)
    \/ DisconnectTip

Spec == Init /\ [][Next]_vars

-----------------------------------------------------------------------------
(* Properties.                                                             *)

Statuses == {"Pending", "Submitted", "SubmittedUnexpected", "Confirmed", "Failed"}

(* Types of the databases.  No handler ever leaves an error in them.       *)
TypeOK ==
    /\ db.ok
    /\ db.utxos \subseteq Outputs /\ db.stxos \subseteq Outputs
    /\ DOMAIN db.bundles \subseteq Bundles
    /\ \A m \in DOMAIN db.bundles :
          /\ db.bundles[m].info.kind \in {"Known", "Unknown", "UnknownConfirmed"}
          /\ db.bundles[m].status # <<>>
          /\ \A i \in DOMAIN db.bundles[m].status :
                /\ db.bundles[m].status[i].value \in Statuses
                /\ db.bundles[m].status[i].height \in Nat
    /\ db.pending \in DOMAIN db.bundles \cup {None}
    /\ Len(before) = Len(blocks)
    /\ scope \in Scope

Status(m) == Latest(db.bundles[m].status).value

(* Conservation: every output that the chain created is in exactly one of  *)
(* utxos and stxos, however often bundles spent it and failed.             *)
Conservation ==
    /\ db.utxos \cup db.stxos = Created(blocks)
    /\ db.utxos \cap db.stxos = {}

(* A bundle holds its outputs when it was submitted as expected or paid.   *)
Holds(m) == db.bundles[m].info.kind = "Known" /\ Status(m) \in {"Submitted", "Confirmed"}

Holders(w) == {m \in DOMAIN db.bundles : Holds(m) /\ w \in db.bundles[m].info.spend}

(* A withdrawal that is spent is held by exactly one bundle and one that   *)
(* is not by none: no failure, resubmission or undo of either pays a       *)
(* withdrawal twice, strands it, or leaves it spendable while it is paid.  *)
HeldOnce ==
    /\ TypeOK
    /\ \A w \in Withdrawals :
          Cardinality(Holders(w)) = IF w \in db.stxos THEN 1 ELSE 0

(* RollBack::push refuses a height below that of the latest entry.  The    *)
(* handlers append without asking: no stack ever gets such an entry.       *)
Ordered(stack) == \A i \in 2..Len(stack) : stack[i-1].height =< stack[i].height

(* A chain that was connected can be disconnected: none of the consistency *)
(* checks of the undo handlers fails, nor that of push, so a reorg is      *)
(* never stuck, and the outputs, the pending bundle, the failures and the  *)
(* event blocks are again those that the block found.                      *)
DisconnectExact ==
    /\ Ordered(db.latest_failed)
    /\ \A m \in DOMAIN db.bundles : Ordered(db.bundles[m].status)
    /\ blocks # <<>> =>
        LET b == Last(before)
        IN  /\ Disconnected.ok
            /\ Disconnected.utxos = b.utxos /\ Disconnected.stxos = b.stxos
            /\ Disconnected.pending = b.pending
            /\ Disconnected.latest_failed = b.latest_failed
            /\ Disconnected.deposit_blocks = b.deposit_blocks
            /\ Disconnected.bundle_blocks = b.bundle_blocks

-----------------------------------------------------------------------------
(* What the source says of itself and does not keep: see README, 3.2.       *)

(* The withdrawal_bundles table has one Pending record at most, the one of *)
(* the pending slot: connect_withdrawal_bundle_submitted calls any other   *)
(* a database error.                                                       *)
NoLeftoverPending ==
    \A m \in DOMAIN db.bundles : Status(m) = "Pending" => m = db.pending
=============================================================================
