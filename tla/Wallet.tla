------------------------------- MODULE Wallet -------------------------------
(***************************************************************************)
(* The wallet and what keeps it up to date (lib/wallet.rs, app/app.rs):    *)
(* callers build transactions from the coins the wallet believes it has,   *)
(* submit them to the node, and update the wallet; a task updates it when  *)
(* the tip of the node changes.  An update reads the node and the wallet   *)
(* in several database transactions, between which both may change;        *)
(* updates exclude each other.                                             *)
(*                                                                         *)
(* The node is the part of it that the wallet sees: the outputs of the     *)
(* chain and the transactions of the mempool.  Address n is derived from   *)
(* index n of the seed; the wallet's addresses are 0 to next - 1.          *)
(***************************************************************************)
EXTENDS Integers, Sequences, FiniteSets, FiniteSetsExt, SequencesExt

CONSTANTS
    Clients,        \* concurrent callers of the wallet
    Kinds,          \* the transactions they build
    Spend,          \* sats paid by each kind, the fee not included
    Fee,            \* miner fee
    Minted,         \* sats of the output a block may pay to the wallet
    Coins,          \* sats of the outputs that address 0 has at first
    Bounds,         \* bounds on a behaviour: see Bound
    None

(* Blocks connected and disconnected, transactions built, transactions      *)
(* pushed to the node and removed from the mempool, restarts, the kinds of  *)
(* transactions and the callers that build them.                            *)
Bound == [blocks : Nat, disconnects : Nat, txs : Nat, pushes : Nat, removals : Nat,
          restarts : Nat, kinds : SUBSET Kinds, callers : SUBSET Clients]

AllKinds ==
    {"transfer", "withdrawal", "claim", "market", "trade", "amplify", "ballot", "reputation"}

ASSUME WalletAssumption ==
    /\ Kinds \subseteq AllKinds /\ Spend \in [Kinds -> Nat] /\ Fee \in Nat
    /\ Minted \subseteq Nat \ {0} /\ Coins \subseteq Nat /\ IsFiniteSet(Coins)
    /\ Bounds \subseteq Bound

VARIABLES
    node,           \* utxos, stxos, blocks and pool of the node
    wallet,         \* the databases of the wallet
    client,         \* what each caller is doing
    update,         \* the update that is running, with what it has read
    notified,       \* the tip changed since the task last looked
    built,          \* history variable: all transactions ever built
    unseen,         \* history variable: outpoints that transactions spend which
                    \* entered or left the pool, the wallet not being told, since
                    \* an update last read the pool
    bound

vars == <<node, wallet, client, update, notified, built, unseen, bound>>

Outside == -1       \* an address that is not the wallet's

Use(b) == bound[b] > 0 /\ bound' = [bound EXCEPT ![b] = @ - 1]

Coin(out, address, sats) ==
    [out |-> out, address |-> address, sats |-> sats, withdrawal |-> FALSE]

Sats(coins) == MapThenSumSet(LAMBDA c : c.sats, coins)

Outs(coins) == {c.out : c \in coins}

Spent(txs) == UNION {tx.ins : tx \in txs}

SpentInPool == Spent(node.pool)

-----------------------------------------------------------------------------
(* Addresses.                                                               *)

(* get_new_address: one past the last index.                                *)
NewAddress(w) == w.next

Derived(w, addresses) == [w EXCEPT !.next = Max({@} \cup {a + 1 : a \in addresses})]

(* voter_address: address 0, derived when it is first asked for.            *)
Voter == 0

AddressReceived(w, address) ==
    \E c \in w.utxos \cup w.unconfirmed \cup w.stxos : c.address = address

(* get_receive_address: the last address until it receives.                 *)
ReceiveAddress(w) ==
    IF w.next > 0 /\ ~AddressReceived(w, w.next - 1) THEN w.next - 1 ELSE w.next

-----------------------------------------------------------------------------
(* Building transactions.                                                   *)

Spendable(w) == {c \in w.utxos : ~c.withdrawal /\ c.sats > 0}

(* select_bitcoins: the largest coins until they suffice, at least one;     *)
(* coins of the same value come in any order.                               *)
Selections(coins, value) ==
    {S \in SUBSET coins :
        /\ S # {} /\ Sats(S) >= value
        /\ \A c \in S, d \in coins \ S : c.sats >= d.sats
        /\ Cardinality(S) = 1 \/ \A c \in S : Sats(S \ {c}) < value \/ \E d \in S : d.sats < c.sats}

(* Inputs and outputs of a transaction; `paid' is what its block will pay   *)
(* for it.                                                                  *)
Spending(id, kind, coins, outs, paid) ==
    [id |-> id, kind |-> kind, ins |-> Outs(coins), outs |-> outs, paid |-> paid]

Left(kind, coins) == Sats(coins) - Spend[kind] - Fee

(* push_bitcoin_change.                                                     *)
Change(id, kind, coins, to) ==
    IF Left(kind, coins) > 0 THEN {Coin(<<"tx", id, 2>>, to, Left(kind, coins))} ELSE {}

CreateTransfer(id, coins, address) ==
    LET dest == Coin(<<"tx", id, 1>>, Outside, Spend["transfer"])
    IN  Spending(id, "transfer", coins, {dest} \cup Change(id, "transfer", coins, address), {})

(* The withdrawal has an address of its own, and cannot be spent.           *)
CreateWithdrawal(id, coins, address) ==
    LET dest == [Coin(<<"tx", id, 1>>, address, Spend["withdrawal"]) EXCEPT !.withdrawal = TRUE]
    IN  Spending(id, "withdrawal", coins,
                 {dest} \cup Change(id, "withdrawal", coins, address + 1), {})

ClaimDecision(id, coins, address) ==
    Spending(id, "claim", coins, Change(id, "claim", coins, address), {})

(* The treasury of the market is nobody's address.                          *)
CreateMarket(id, coins, address) ==
    LET funds == Coin(<<"tx", id, 1>>, Outside, Spend["market"])
    IN  Spending(id, "market", coins, {funds} \cup Change(id, "market", coins, address), {})

(* Trades and amplifications list no outputs: their block pays the change.  *)
Trade(id, coins, address) ==
    Spending(id, "trade", coins, {}, Change(id, "trade", coins, Voter))

AmplifyBeta(id, coins, address) ==
    Spending(id, "amplify", coins, {}, Change(id, "amplify", coins, Voter))

SubmitBallot(id, coins, address) ==
    Spending(id, "ballot", coins, Change(id, "ballot", coins, address), {})

(* The fee comes from the voter's coins and the change goes back there.     *)
TransferReputation(id, coins, address) ==
    Spending(id, "reputation", coins, Change(id, "reputation", coins, Voter), {})

Transaction(id, kind, coins, address) ==
    CASE kind = "transfer"   -> CreateTransfer(id, coins, address)
      [] kind = "withdrawal" -> CreateWithdrawal(id, coins, address)
      [] kind = "claim"      -> ClaimDecision(id, coins, address)
      [] kind = "market"     -> CreateMarket(id, coins, address)
      [] kind = "trade"      -> Trade(id, coins, address)
      [] kind = "amplify"    -> AmplifyBeta(id, coins, address)
      [] kind = "ballot"     -> SubmitBallot(id, coins, address)
      [] kind = "reputation" -> TransferReputation(id, coins, address)

(* select_bitcoins_from_address for a transfer of reputation; amplify_beta  *)
(* needs the author among the owners of what was selected without regard to *)
(* the author.                                                              *)
Candidates(kind) ==
    LET coins == IF kind = "reputation" THEN {c \in Spendable(wallet) : c.address = Voter}
                 ELSE Spendable(wallet)
    IN  {S \in Selections(coins, Spend[kind] + Fee) :
            kind = "amplify" => \E c \in S : c.address = Voter}

Build(c, kind) ==
    /\ c \in bound.callers /\ client[c].phase = "idle"
    /\ Use("txs")
    /\ \E coins \in Candidates(kind) :
         LET address == NewAddress(wallet)
             tx == Transaction(Len(built) + 1, kind, coins, address)
         IN  /\ wallet' = Derived(wallet, {o.address : o \in tx.outs})
             /\ client' = [client EXCEPT ![c] = [phase |-> "built", tx |-> tx]]
             /\ built' = Append(built, tx)
    /\ UNCHANGED <<node, update, notified, unseen>>

(* sign_and_send: authorize needs the coins in the wallet, the node in the  *)
(* chain and not spent in its mempool.                                      *)
Acceptable(tx) ==
    /\ tx.ins \subseteq Outs(wallet.utxos)
    /\ tx.ins \subseteq Outs(node.utxos)
    /\ tx.ins \cap SpentInPool = {}

SubmitTransaction(c) ==
    /\ client[c].phase = "built"
    /\ Acceptable(client[c].tx)
    /\ node' = [node EXCEPT !.pool = @ \cup {client[c].tx}]
    /\ client' = [client EXCEPT ![c] = [phase |-> "submitted", tx |-> None]]
    /\ UNCHANGED <<wallet, update, notified, built, unseen, bound>>

(* push_tx: a signed transaction is given to the node, and no wallet is     *)
(* updated.  More blocks are to come.                                       *)
PushTx(c) ==
    LET tx == client[c].tx
    IN  /\ client[c].phase = "built"
        /\ tx.ins \subseteq Outs(node.utxos) /\ tx.ins \cap SpentInPool = {}
        /\ bound.blocks > 0
        /\ Use("pushes")
        /\ node' = [node EXCEPT !.pool = @ \cup {tx}]
        /\ client' = [client EXCEPT ![c] = [phase |-> "idle", tx |-> None]]
        /\ unseen' = unseen \cup tx.ins
        /\ UNCHANGED <<wallet, update, notified, built>>

SubmitFails(c) ==
    /\ client[c].phase = "built"
    /\ ~Acceptable(client[c].tx)
    /\ client' = [client EXCEPT ![c] = [phase |-> "idle", tx |-> None]]
    /\ UNCHANGED <<node, wallet, update, notified, built, unseen, bound>>

-----------------------------------------------------------------------------
(* The node.                                                                *)

(* Deviation: blocks that neither spend nor pay anything are not announced. *)
NotifiesOfCoins(txs, minted) == txs # {} \/ minted # {}

(* State::watch follows the tip.                                            *)
Notifies(txs, minted) == TRUE

(* MemPool::delete also deletes the waiting transactions that spend outputs *)
(* of a deleted one, and so on.                                             *)
Children(txs) ==
    {child \in node.pool : child.ins \cap Outs(UNION {tx.outs : tx \in txs}) # {}}

Deleted(txs) ==
    LET round[n \in Nat] == IF n = 0 THEN txs ELSE round[n - 1] \cup Children(round[n - 1])
    IN  round[Cardinality(node.pool)]

(* Transactions of the pool are confirmed, and an output to the wallet may  *)
(* be paid: a deposit or the coinbase.  Claims of others in the block evict *)
(* claims of the same decisions.                                            *)
ConnectBlock(txs, evicted, minted) ==
    LET to == ReceiveAddress(wallet)
        mint == {Coin(<<"minted", Len(node.blocks), bound.blocks>>, to, s) : s \in minted}
        spent == {c \in node.utxos : c.out \in Spent(txs)}
        made == mint \cup UNION {tx.outs \cup tx.paid : tx \in txs}
    IN  /\ Use("blocks")
        /\ \A tx \in txs : tx.ins \subseteq Outs(node.utxos)
        /\ node' = [utxos |-> (node.utxos \ spent) \cup made,
                    stxos |-> node.stxos \cup spent,
                    blocks |-> Append(node.blocks, [txs |-> txs, spent |-> spent, made |-> made]),
                    pool |-> node.pool \ (txs \cup Deleted(txs \cup evicted))]
        /\ wallet' = IF minted = {} THEN wallet ELSE Derived(wallet, {to})
        /\ notified' = (notified \/ Notifies(txs, minted))
        /\ UNCHANGED <<client, update, built, unseen>>

(* Transactions of the block go back to the pool.  (Putting one back that   *)
(* the pool has a competitor for is an error: see NodeSync.)                *)
DisconnectTip ==
    LET tip == Last(node.blocks)
    IN  /\ node.blocks # <<>>
        /\ tip.made \subseteq node.utxos
        /\ Spent(tip.txs) \cap SpentInPool = {}
        /\ Use("disconnects")
        /\ node' = [utxos |-> (node.utxos \ tip.made) \cup tip.spent,
                    stxos |-> node.stxos \ tip.spent,
                    blocks |-> Front(node.blocks),
                    pool |-> node.pool \cup tip.txs]
        /\ notified' = TRUE
        /\ UNCHANGED <<wallet, client, update, built, unseen>>

(* remove_from_mempool, or get_transactions dropping a transaction: no      *)
(* wallet is told.  More blocks are to come.                                *)
RemoveFromMempool(tx) ==
    /\ bound.blocks > 0
    /\ Use("removals")
    /\ node' = [node EXCEPT !.pool = @ \ Deleted({tx})]
    /\ unseen' = unseen \cup Spent(node.pool \cap Deleted({tx}))
    /\ UNCHANGED <<wallet, client, update, notified, built>>

-----------------------------------------------------------------------------
(* update_wallet, one step per database transaction that others can get     *)
(* between.                                                                 *)

NoUpdate == [step |-> "none"]

Own(coins, addresses) == {c \in coins : c.address \in addresses}

(* Spending a coin moves it to stxos, or to spent_unconfirmed_utxos if the  *)
(* wallet only has it as unconfirmed.                                       *)
SpendUtxos(w, outs) ==
    [w EXCEPT
        !.utxos = {c \in @ : c.out \notin outs},
        !.stxos = @ \cup {c \in w.utxos : c.out \in outs},
        !.unconfirmed = {c \in @ : c.out \notin outs \ Outs(w.utxos)},
        !.spentUnconfirmed = @ \cup {c \in w.unconfirmed : c.out \in outs \ Outs(w.utxos)}]

(* The lock on the coins that are shown is held to the end of an update.    *)
BeginUpdate(by) ==
    /\ update.step = "none"
    /\ update' = [step |-> "unconfirmed", by |-> by, addresses |-> 0..(wallet.next - 1)]
    /\ UNCHANGED <<node, wallet, built, unseen, bound>>

TaskBegins == notified /\ notified' = FALSE /\ BeginUpdate("task") /\ UNCHANGED client

ClientBegins(c) ==
    /\ client[c].phase = "submitted"
    /\ client' = [client EXCEPT ![c].phase = "updating"]
    /\ BeginUpdate(c)
    /\ UNCHANGED notified

ReadUnconfirmed ==
    /\ update.step = "unconfirmed"
    /\ update' = [step |-> "state", by |-> update.by, addresses |-> update.addresses,
                  unconfirmed |-> Own(UNION {tx.outs : tx \in node.pool}, update.addresses)]
    /\ UNCHANGED <<node, wallet, client, notified, built, unseen, bound>>

(* The coins of the state are read, and the ones of the wallet that are not *)
(* among them are spent by "redistribution".                                *)
ReadState ==
    LET state == Own(node.utxos, update.addresses)
    IN  /\ update.step = "state"
        /\ update' = [step |-> "spent", by |-> update.by, unconfirmed |-> update.unconfirmed,
                      state |-> state, had |-> Outs(wallet.utxos)]
        /\ wallet' = SpendUtxos(wallet, Outs(wallet.utxos) \ Outs(state))
        /\ UNCHANGED <<node, client, notified, built, unseen, bound>>

ReadSpent ==
    /\ update.step = "spent"
    /\ update' = [step |-> "pool", by |-> update.by, unconfirmed |-> update.unconfirmed,
                  state |-> update.state, spent |-> update.had \cap Outs(node.stxos)]
    /\ UNCHANGED <<node, wallet, client, notified, built, unseen, bound>>

(* Deviation: only coins that the wallet has are looked up in the pool.     *)
PoolSpendsOfWallet == SpentInPool \cap (Outs(wallet.utxos) \cup Outs(wallet.unconfirmed))

(* All coins of the state are looked up, those the wallet holds as spent    *)
(* too.                                                                     *)
PoolSpends == SpentInPool \cap (Outs(update.state) \cup Outs(wallet.unconfirmed))

ReadPool ==
    /\ update.step = "pool"
    /\ update' = [step |-> "put", by |-> update.by, unconfirmed |-> update.unconfirmed,
                  state |-> update.state, spent |-> update.spent \cup PoolSpends]
    /\ unseen' = {}
    /\ UNCHANGED <<node, wallet, client, notified, built, bound>>

PutUtxos ==
    /\ update.step = "put"
    /\ wallet' = [wallet EXCEPT !.utxos = @ \cup update.state,
                                !.unconfirmed = @ \cup update.unconfirmed]
    /\ update' = [step |-> "finish", by |-> update.by, spent |-> update.spent]
    /\ UNCHANGED <<node, client, notified, built, unseen, bound>>

FinishUpdate ==
    /\ update.step = "finish"
    /\ wallet' = SpendUtxos(wallet, update.spent)
    /\ update' = NoUpdate
    /\ client' = IF update.by = "task" THEN client
                 ELSE [client EXCEPT ![update.by] = [phase |-> "idle", tx |-> None]]
    /\ UNCHANGED <<node, notified, built, unseen, bound>>

UpdateStep == ReadUnconfirmed \/ ReadState \/ ReadSpent \/ ReadPool \/ PutUtxos \/ FinishUpdate

Idle == [c \in Clients |-> [phase |-> "idle", tx |-> None]]

(* A restart loses what callers and updates were doing; the task begins by  *)
(* looking at the tip.                                                      *)
Restart ==
    /\ Use("restarts")
    /\ client' = Idle
    /\ update' = NoUpdate
    /\ notified' = TRUE
    /\ UNCHANGED <<node, wallet, built, unseen>>

-----------------------------------------------------------------------------
Init ==
    /\ node = [utxos |-> {Coin(<<"coin", s, 0>>, Voter, s) : s \in Coins}, stxos |-> {},
               blocks |-> <<>>, pool |-> {}]
    /\ wallet = [next |-> 1, utxos |-> {}, unconfirmed |-> {}, stxos |-> {},
                 spentUnconfirmed |-> {}]
    /\ client = Idle
    /\ update = NoUpdate
    /\ notified = TRUE
    /\ built = <<>>
    /\ unseen = {}
    /\ bound \in Bounds

Next ==
    \/ \E c \in Clients :
         \/ \E kind \in bound.kinds : Build(c, kind)
         \/ SubmitTransaction(c) \/ PushTx(c) \/ SubmitFails(c) \/ ClientBegins(c)
    \/ \E txs \in SUBSET node.pool, minted \in {{}} \cup {{s} : s \in Minted} :
         \E evicted \in SUBSET {tx \in node.pool \ txs : tx.kind = "claim"} :
            ConnectBlock(txs, evicted, minted)
    \/ DisconnectTip
    \/ \E tx \in node.pool : RemoveFromMempool(tx)
    \/ TaskBegins \/ UpdateStep
    \/ Restart

(* The steps of an update do not block, locks are given up, and mainchain   *)
(* blocks keep coming.                                                      *)
Fairness ==
    /\ WF_vars(UpdateStep)
    /\ WF_vars(TaskBegins)
    /\ WF_vars(ConnectBlock({}, {}, {}))
    /\ \A c \in Clients : SF_vars(ClientBegins(c))

Spec == Init /\ [][Next]_vars /\ Fairness

-----------------------------------------------------------------------------
(* Properties.                                                              *)

TypeOK ==
    /\ wallet.next \in Nat
    /\ \A c \in wallet.utxos \cup wallet.unconfirmed \cup wallet.stxos :
          c.sats \in Nat /\ c.address \in Int
    /\ client \in [Clients -> [phase : {"idle", "built", "submitted", "updating"},
                               tx : {None} \cup {built[i] : i \in DOMAIN built}]]
    /\ update.step \in {"none", "unconfirmed", "state", "spent", "pool", "put", "finish"}
    /\ notified \in BOOLEAN /\ bound \in Bound
    /\ unseen \subseteq Spent({built[i] : i \in DOMAIN built})

(* The coins the wallet can spend: those of its addresses in the chain that *)
(* no waiting transaction spends.                                           *)
CanSpend == Outs(Own(node.utxos, 0..(wallet.next - 1))) \ SpentInPool

Exact == Outs(wallet.utxos) = CanSpend

Quiet ==
    /\ update.step = "none" /\ ~notified
    /\ \A c \in Clients : client[c].phase \notin {"submitted", "updating"}

(* Whatever happened while earlier updates ran, once no update is due the   *)
(* wallet offers exactly the coins it can spend, except that it cannot know *)
(* of the coins of transactions that were pushed to the node (push_tx) or   *)
(* dropped from the mempool behind its back since an update last read the   *)
(* pool.  Of all others none is offered twice and none is lost, by blocks,  *)
(* reorganizations, pushes, drops and restarts between the reads of an      *)
(* update.                                                                  *)
WalletExact == Quiet => Outs(wallet.utxos) \ unseen = CanSpend \ unseen

(* The addresses of outputs that get_new_address derived for a transaction. *)
NewAddresses(tx) ==
    IF tx.kind = "reputation" THEN {} ELSE {c.address : c \in tx.outs} \ {Outside}

PaidAddresses(tx) == {c.address : c \in tx.outs \cup tx.paid}

(* An address that get_new_address derived for a transaction is paid by no  *)
(* other transaction the wallet builds, however callers, updates, coinbases *)
(* and reorganizations interleave.  The comment of get_new_address says     *)
(* more, "two transactions never share a change address", which is not so:  *)
(* transfers of reputation, trades and amplifications all return their      *)
(* change to the voter's address.  What holds is that this address is not   *)
(* one of the new ones either.                                              *)
ChangeUnshared ==
    \A i, j \in DOMAIN built :
        i # j => NewAddresses(built[i]) \cap PaidAddresses(built[j]) = {}

(* The wallet on disk is sound.                                             *)
WalletSound == TypeOK /\ WalletExact /\ ChangeUnshared

(* The wallet catches up: it offers every coin it can spend from some point *)
(* on, also the inputs of a transaction that was dropped silently.          *)
EventuallyExact == <>[]Exact

=============================================================================
