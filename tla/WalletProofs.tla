---------------------------- MODULE WalletProofs ----------------------------
(***************************************************************************)
(* The wallet offers exactly the coins it can spend whenever no update is  *)
(* due, for any number of callers, transactions, blocks, reorganizations   *)
(* and restarts.                                                           *)
(*                                                                         *)
(* WalletExact speaks of quiet states only.  The inductive invariant says  *)
(* what an update has read at each of its steps, and that it is still true *)
(* of the node unless a flag is up that makes another update follow:       *)
(* notified for the chain, a caller in phase "submitted" for the pool.     *)
(* What it read of the pool is true but for the outpoints of transactions  *)
(* that were pushed or removed since (unseen).  It needs to know of the    *)
(* node that an output is either unspent or spent, which in turn needs     *)
(* every output to be made once.                                           *)
(***************************************************************************)
EXTENDS Wallet, FiniteSetTheorems, TLAPS

OutPoint == {"coin", "minted", "tx"} \X Nat \X Nat

CoinType == [out : OutPoint, address : Int, sats : Nat, withdrawal : BOOLEAN]

TxType == [id : Nat, kind : AllKinds, ins : SUBSET OutPoint,
           outs : SUBSET CoinType, paid : SUBSET CoinType]

BlockType == [txs : SUBSET TxType, spent : SUBSET CoinType, made : SUBSET CoinType]

NodeType == [utxos : SUBSET CoinType, stxos : SUBSET CoinType, blocks : Seq(BlockType),
             pool : SUBSET TxType]

WalletType == [next : Nat \ {0}, utxos : SUBSET CoinType, unconfirmed : SUBSET CoinType,
               stxos : SUBSET CoinType, spentUnconfirmed : SUBSET CoinType]

ClientType == [phase : {"idle", "built", "submitted", "updating"},
               tx : {None} \cup {built[i] : i \in DOMAIN built}]

AllSteps == {"none", "unconfirmed", "state", "spent", "pool", "put", "finish"}

Typed ==
    /\ node \in NodeType
    /\ wallet \in WalletType
    /\ client \in [Clients -> ClientType]
    /\ update.step \in AllSteps
    /\ update.step \in {"state", "spent", "pool", "put"} => update.unconfirmed \in SUBSET CoinType
    /\ update.step \in {"spent", "pool", "put"} => update.state \in SUBSET CoinType
    /\ notified \in BOOLEAN /\ bound \in Bound
    /\ unseen \subseteq Spent({built[i] : i \in DOMAIN built})
    /\ built \in Seq(TxType)

(* Everything is finite, so that sums of sats are numbers.                  *)
FiniteNode ==
    /\ IsFiniteSet(node.utxos) /\ IsFiniteSet(node.stxos) /\ IsFiniteSet(node.pool)
    /\ \A i \in DOMAIN node.blocks : IsFiniteSet(node.blocks[i].txs)

FiniteWallet ==
    /\ IsFiniteSet(wallet.utxos)
    /\ update.step \in {"spent", "pool", "put"} => IsFiniteSet(update.state)

Made(tx) == tx.outs \cup tx.paid

Mine(address, next) == address >= Outside /\ address < next

(* Transaction i makes outputs of its own, to addresses already derived.    *)
BuiltSound ==
    \A i \in DOMAIN built :
        /\ built[i].id = i
        /\ IsFiniteSet(Made(built[i]))
        /\ \A c \in Made(built[i]) :
              c.out[1] = "tx" /\ c.out[2] = i /\ Mine(c.address, wallet.next)
        /\ \A c, d \in Made(built[i]) : c.out = d.out => c = d

(* What waits or is in a block was built, and is not with its caller.       *)
Known(tx) == tx.id \in DOMAIN built /\ tx = built[tx.id]

Held(tx) == \E c \in Clients : client[c].phase = "built" /\ client[c].tx = tx

Placed ==
    /\ \A tx \in node.pool : Known(tx) /\ ~Held(tx)
    /\ \A i \in DOMAIN node.blocks : \A tx \in node.blocks[i].txs : Known(tx) /\ ~Held(tx)
    /\ \A i \in DOMAIN node.blocks : \A tx \in node.blocks[i].txs :
          Made(tx) \subseteq node.blocks[i].made
    /\ \A c \in Clients : client[c].phase = "built" => Known(client[c].tx)
    /\ \A c, d \in Clients :
          client[c].phase = "built" /\ client[d].phase = "built" /\ client[c].tx = client[d].tx
             => c = d

OnChain == node.utxos \cup node.stxos

(* An output is made once, and is unspent or spent.                         *)
CoinsSound ==
    /\ \A c, d \in OnChain : c.out = d.out => c = d
    /\ node.utxos \cap node.stxos = {}
    /\ \A i \in DOMAIN node.blocks : node.blocks[i].spent \subseteq node.stxos
    /\ \A i, j \in DOMAIN node.blocks :
          i # j => node.blocks[i].spent \cap node.blocks[j].spent = {}
    /\ \A c \in OnChain : Mine(c.address, wallet.next)
    /\ \A c \in OnChain : c.out[1] = "minted" => c.out[3] > bound.blocks
    /\ \A c \in OnChain : c.out[1] = "tx" =>
          /\ c.out[2] \in DOMAIN built /\ c \in Made(built[c.out[2]])
          /\ built[c.out[2]] \notin node.pool /\ ~Held(built[c.out[2]])

Owned == {c \in node.utxos : c.address # Outside}

(* No flag is up for a change of the pool, or of the chain.                 *)
Still == ~notified /\ \A c \in Clients : client[c].phase # "submitted"

(* What the update that runs has read, if it is still true.                 *)
UpdateFollows ==
    /\ update.step \in {"unconfirmed", "state"} /\ ~notified
          => Own(node.utxos, update.addresses) = Owned
    /\ update.step \in {"spent", "pool", "put"}
          => Outs(wallet.utxos) \subseteq Outs(update.state)
    /\ update.step \in {"spent", "pool", "put"} /\ ~notified => update.state = Owned
    /\ update.step = "pool" /\ ~notified => update.spent \cap Outs(Owned) = {}
    /\ update.step \in {"put", "finish"} /\ Still
          => (update.spent \cap Outs(Owned)) \ unseen = (SpentInPool \cap Outs(Owned)) \ unseen
    /\ update.step = "finish" /\ ~notified => Outs(wallet.utxos) = Outs(Owned)
    /\ update.step = "none" /\ Still
          => Outs(wallet.utxos) \ unseen = (Outs(Owned) \ SpentInPool) \ unseen

(* A caller waits for the update it began.                                  *)
CallerWaits ==
    update.step # "none" /\ update.by # "task"
       => update.by \in Clients /\ client[update.by].phase = "updating"

(* The new addresses of the transactions built are below the next one, and  *)
(* none is the voter's.                                                     *)
ChangeFollows ==
    /\ ChangeUnshared
    /\ \A i \in DOMAIN built : \A a \in NewAddresses(built[i]) : a > Voter /\ a < wallet.next

(* The node and what was built for it.                                      *)
NodeInv == FiniteNode /\ BuiltSound /\ Placed /\ CoinsSound /\ ChangeFollows

IInv == Typed /\ NodeInv /\ FiniteWallet /\ UpdateFollows /\ CallerWaits

(* The sum of the sats of a set of coins.                                   *)
AddSats(sum, c) == c.sats + sum

IsAmount(sum) == sum \in Nat

Sums == INSTANCE LoopTheorems WITH op <- AddSats, Good <- IsAmount

-----------------------------------------------------------------------------
(* The transactions that are built.                                         *)

LEMMA SatsType ==
    ASSUME NEW coins \in SUBSET CoinType, IsFiniteSet(coins)
    PROVE  Sats(coins) \in Nat
<1>1. Sats(coins) = Sums!FoldOver(0, coins)
  BY Zenon DEF Sats, MapThenSumSet, MapThenFoldSet, Sums!FoldOver, AddSats
<1>2. IsAmount(0)
  BY DEF IsAmount
<1>3. \A v : \A x \in coins : IsAmount(v) => IsAmount(AddSats(v, x))
  BY DEF IsAmount, AddSats, CoinType
<1>4. IsAmount(Sums!FoldOver(0, coins))
  BY <1>2, <1>3, Sums!FoldOverKeeps DEF IsFiniteSet, Sums!IsFiniteSet
<1> QED
  BY <1>1, <1>4 DEF IsAmount

LEMMA CoinFacts ==
    ASSUME NEW out \in OutPoint, NEW address \in Int, NEW sats \in Nat
    PROVE  /\ Coin(out, address, sats) \in CoinType
           /\ Coin(out, address, sats).out = out /\ Coin(out, address, sats).address = address
  BY DEF Coin, CoinType

LEMMA TxOutPoint ==
    ASSUME NEW id \in Nat
    PROVE  /\ <<"tx", id, 1>> \in OutPoint /\ <<"tx", id, 2>> \in OutPoint
           /\ <<"tx", id, 1>> # <<"tx", id, 2>>
  BY DEF OutPoint

(* The change, if there is any.                                             *)
LEMMA ChangeFacts ==
    ASSUME NEW id \in Nat, NEW kind \in Kinds, NEW coins \in SUBSET CoinType,
           IsFiniteSet(coins), NEW to \in Int
    PROVE  /\ Change(id, kind, coins, to) \in SUBSET CoinType
           /\ IsFiniteSet(Change(id, kind, coins, to))
           /\ \A c \in Change(id, kind, coins, to) : c.out = <<"tx", id, 2>> /\ c.address = to
           /\ \A c, d \in Change(id, kind, coins, to) : c = d
<1> DEFINE left == Left(kind, coins)
           out == <<"tx", id, 2>>
           coin == Coin(out, to, left)
<1>1. left \in Int
  BY SatsType, WalletAssumption DEF Left
<1>2. Change(id, kind, coins, to) = IF left > 0 THEN {coin} ELSE {}
  BY DEF Change
<1>3. left > 0 => coin \in CoinType /\ coin.out = out /\ coin.address = to
  <2>1. out \in OutPoint
    BY TxOutPoint
  <2> HIDE DEF left, out
  <2> QED
    BY <1>1, <2>1, CoinFacts
<1>4. IsFiniteSet({coin}) /\ IsFiniteSet({})
  BY FS_Singleton, FS_EmptySet
<1> HIDE DEF left, coin
<1> QED
  BY <1>2, <1>3, <1>4

(* What every transaction has, built when `next' was the next address.      *)
TxSound(tx, id, kind, next) ==
    /\ tx \in TxType /\ tx.id = id /\ tx.kind = kind /\ tx.ins \subseteq OutPoint
    /\ IsFiniteSet(tx.outs) /\ IsFiniteSet(tx.paid)
    /\ \A c \in Made(tx) : c.out \in {<<"tx", id, 1>>, <<"tx", id, 2>>}
    /\ \A c, d \in Made(tx) : c.out = d.out => c = d
    /\ \A c \in tx.paid : c.address = Voter
    /\ \A c \in tx.outs : \/ c.address = Outside
                          \/ c.address \in Nat /\ c.address >= next
                          \/ kind = "reputation" /\ c.address = Voter

(* One that has an output of its own, and the change.                       *)
LEMMA WithDest ==
    ASSUME NEW id \in Nat, NEW kind \in Kinds, NEW coins \in SUBSET CoinType,
           IsFiniteSet(coins), NEW to \in Nat, NEW next \in Nat, to >= next,
           NEW dest \in CoinType, dest.out = <<"tx", id, 1>>,
           dest.address = Outside \/ (dest.address \in Nat /\ dest.address >= next),
           NEW tx, tx = Spending(id, kind, coins, {dest} \cup Change(id, kind, coins, to), {})
    PROVE  TxSound(tx, id, kind, next)
<1> DEFINE change == Change(id, kind, coins, to)
<1>1. /\ change \in SUBSET CoinType /\ IsFiniteSet(change)
      /\ \A c \in change : c.out = <<"tx", id, 2>> /\ c.address = to
      /\ \A c, d \in change : c = d
  BY ChangeFacts
<1>2. IsFiniteSet({dest} \cup change) /\ IsFiniteSet({})
  BY <1>1, FS_Singleton, FS_Union, FS_EmptySet
<1>3. kind \in AllKinds /\ Outs(coins) \in SUBSET OutPoint
  BY WalletAssumption DEF Outs, CoinType
<1> HIDE DEF change
<1>4. /\ tx.outs = {dest} \cup change /\ tx.paid = {} /\ tx.id = id /\ tx.kind = kind
      /\ tx.ins = Outs(coins) /\ tx \in TxType
  BY <1>1, <1>3 DEF Spending, TxType, change
<1>5. <<"tx", id, 1>> # <<"tx", id, 2>>
  BY TxOutPoint
<1>6. Made(tx) = {dest} \cup change
  BY <1>4 DEF Made
<1> QED
  BY <1>1, <1>2, <1>3, <1>4, <1>5, <1>6 DEF TxSound

(* One that has only the change among its outputs.                          *)
LEMMA OnlyChange ==
    ASSUME NEW id \in Nat, NEW kind \in Kinds, NEW coins \in SUBSET CoinType,
           IsFiniteSet(coins), NEW to \in Nat, NEW next \in Nat,
           to >= next \/ (kind = "reputation" /\ to = Voter),
           NEW tx, tx = Spending(id, kind, coins, Change(id, kind, coins, to), {})
    PROVE  TxSound(tx, id, kind, next)
<1> DEFINE change == Change(id, kind, coins, to)
<1>1. /\ change \in SUBSET CoinType /\ IsFiniteSet(change)
      /\ \A c \in change : c.out = <<"tx", id, 2>> /\ c.address = to
      /\ \A c, d \in change : c = d
  BY ChangeFacts
<1>2. IsFiniteSet({})
  BY FS_EmptySet
<1>3. kind \in AllKinds /\ Outs(coins) \in SUBSET OutPoint
  BY WalletAssumption DEF Outs, CoinType
<1> HIDE DEF change
<1>4. /\ tx.outs = change /\ tx.paid = {} /\ tx.id = id /\ tx.kind = kind
      /\ tx.ins = Outs(coins) /\ tx \in TxType
  BY <1>1, <1>3 DEF Spending, TxType, change
<1>6. Made(tx) = change
  BY <1>4 DEF Made
<1> QED
  BY <1>1, <1>2, <1>3, <1>4, <1>6 DEF TxSound

(* One whose block pays the change.                                         *)
LEMMA OnlyPaid ==
    ASSUME NEW id \in Nat, NEW kind \in Kinds, NEW coins \in SUBSET CoinType,
           IsFiniteSet(coins), NEW next \in Nat,
           NEW tx, tx = Spending(id, kind, coins, {}, Change(id, kind, coins, Voter))
    PROVE  TxSound(tx, id, kind, next)
<1> DEFINE change == Change(id, kind, coins, Voter)
<1>0. Voter \in Int
  BY DEF Voter
<1>1. /\ change \in SUBSET CoinType /\ IsFiniteSet(change)
      /\ \A c \in change : c.out = <<"tx", id, 2>> /\ c.address = Voter
      /\ \A c, d \in change : c = d
  BY <1>0, ChangeFacts
<1>2. IsFiniteSet({})
  BY FS_EmptySet
<1>3. kind \in AllKinds /\ Outs(coins) \in SUBSET OutPoint
  BY WalletAssumption DEF Outs, CoinType
<1> HIDE DEF change
<1>4. /\ tx.outs = {} /\ tx.paid = change /\ tx.id = id /\ tx.kind = kind
      /\ tx.ins = Outs(coins) /\ tx \in TxType
  BY <1>1, <1>3 DEF Spending, TxType, change
<1>6. Made(tx) = change
  BY <1>4 DEF Made
<1> QED
  BY <1>1, <1>2, <1>3, <1>4, <1>6 DEF TxSound

LEMMA TransactionSound ==
    ASSUME NEW id \in Nat, NEW kind \in Kinds, NEW coins \in SUBSET CoinType,
           IsFiniteSet(coins), NEW address \in Nat,
           NEW tx, tx = Transaction(id, kind, coins, address)
    PROVE  TxSound(tx, id, kind, address)
<1>1. kind \in AllKinds /\ Spend[kind] \in Nat
  BY WalletAssumption
<1>2. /\ Outside \in Int /\ Voter \in Nat /\ address + 1 \in Nat
      /\ address >= address /\ address + 1 >= address
  BY DEF Outside, Voter
<1> DEFINE out == <<"tx", id, 1>>
<1>3. out \in OutPoint
  BY TxOutPoint
<1> HIDE DEF out
<1>4. CASE kind = "transfer"
  <2> DEFINE dest == Coin(out, Outside, Spend[kind])
  <2>1. dest \in CoinType /\ dest.out = out /\ dest.address = Outside
    BY <1>1, <1>2, <1>3, CoinFacts
  <2>2. tx = Spending(id, kind, coins, {dest} \cup Change(id, kind, coins, address), {})
    BY <1>4 DEF Transaction, CreateTransfer, out
  <2> HIDE DEF dest
  <2> QED
    BY <1>2, <2>1, <2>2, WithDest DEF out
<1>5. CASE kind = "withdrawal"
  <2> DEFINE coin == Coin(out, address, Spend[kind])
             dest == [coin EXCEPT !.withdrawal = TRUE]
  <2>1. dest \in CoinType /\ dest.out = out /\ dest.address = address
    <3>1. coin \in CoinType /\ coin.out = out /\ coin.address = address
      BY <1>1, <1>3, CoinFacts
    <3> HIDE DEF coin
    <3> QED
      BY <3>1 DEF CoinType
  <2>2. tx = Spending(id, kind, coins, {dest} \cup Change(id, kind, coins, address + 1), {})
    BY <1>5 DEF Transaction, CreateWithdrawal, out
  <2> HIDE DEF dest
  <2> QED
    BY <1>2, <2>1, <2>2, WithDest DEF out
<1>6. CASE kind = "claim"
  BY <1>2, <1>6, OnlyChange DEF Transaction, ClaimDecision
<1>7. CASE kind = "market"
  <2> DEFINE dest == Coin(out, Outside, Spend[kind])
  <2>1. dest \in CoinType /\ dest.out = out /\ dest.address = Outside
    BY <1>1, <1>2, <1>3, CoinFacts
  <2>2. tx = Spending(id, kind, coins, {dest} \cup Change(id, kind, coins, address), {})
    BY <1>7 DEF Transaction, CreateMarket, out
  <2> HIDE DEF dest
  <2> QED
    BY <1>2, <2>1, <2>2, WithDest DEF out
<1>8. CASE kind = "trade"
  BY <1>2, <1>8, OnlyPaid DEF Transaction, Trade
<1>9. CASE kind = "amplify"
  BY <1>2, <1>9, OnlyPaid DEF Transaction, AmplifyBeta
<1>10. CASE kind = "ballot"
  BY <1>2, <1>10, OnlyChange DEF Transaction, SubmitBallot
<1>11. CASE kind = "reputation"
  BY <1>2, <1>11, OnlyChange DEF Transaction, TransferReputation
<1> QED
  BY <1>1, <1>4, <1>5, <1>6, <1>7, <1>8, <1>9, <1>10, <1>11 DEF AllKinds

(* A finite set of integers has a greatest one.                             *)
LEMMA MaxOfFinite ==
    ASSUME NEW S \in SUBSET Int, IsFiniteSet(S), NEW e \in S
    PROVE  Max(S) \in S /\ \A y \in S : Max(S) >= y
<1> DEFINE above(x) == {y \in S : y > x}
           sizes == {Cardinality(above(x)) : x \in S}
<1>1. \A x \in S : IsFiniteSet(above(x)) /\ Cardinality(above(x)) \in Nat
  <2> TAKE x \in S
  <2>1. above(x) \subseteq S
    OBVIOUS
  <2> HIDE DEF above
  <2> QED
    BY <2>1, FS_Subset, FS_CardinalityType
<1>2. PICK n \in sizes : \A k \in sizes : n <= k
  <2>1. sizes \subseteq Nat /\ sizes # {}
    BY <1>1
  <2> HIDE DEF sizes
  <2> QED
    BY <2>1, Sums!LeastNat
<1>3. PICK x \in S : n = Cardinality(above(x))
  BY <1>2
<1>4. ASSUME NEW y \in S, y > x PROVE FALSE
  <2>1. y \in above(x) /\ y \notin above(y)
    BY <1>4
  <2>2. above(y) \subseteq above(x)
    <3>1. \A z \in S : z > y => z > x
      BY <1>4
    <3> QED
      BY <3>1
  <2>3. Cardinality(above(x)) <= Cardinality(above(y)) /\ IsFiniteSet(above(x))
    BY <1>1, <1>2, <1>3
  <2> HIDE DEF above, sizes
  <2>4. Cardinality(above(y)) < Cardinality(above(x))
    BY <1>1, <2>1, <2>2, <2>3, FS_Subset
  <2> QED
    BY <1>1, <2>3, <2>4
<1>5. \A y \in S : x >= y
  BY <1>4
<1> QED
  BY <1>5 DEF Max

-----------------------------------------------------------------------------
(* The node.                                                                *)

LEMMA MineGrows ==
    ASSUME NEW a \in Int, NEW m \in Nat, NEW n \in Nat, m <= n, Mine(a, m)
    PROVE  Mine(a, n)
  BY DEF Mine, Outside

(* The steps that leave the node and what was built alone.                  *)
LEMMA NodeKept ==
    ASSUME Typed, Typed', NodeInv, node' = node, built' = built,
           wallet.next <= wallet'.next, bound'.blocks <= bound.blocks,
           \A c \in Clients : client'[c].phase = "built" => client'[c] = client[c]
    PROVE  NodeInv'
<1> USE DEF NodeInv
<1>0. /\ wallet.next \in Nat /\ wallet'.next \in Nat
      /\ bound.blocks \in Nat /\ bound'.blocks \in Nat
  BY DEF Typed, WalletType, Bound
<1>1. \A tx : Held(tx)' => Held(tx)
  BY DEF Held
<1>2. /\ node.utxos \in SUBSET CoinType /\ node.stxos \in SUBSET CoinType
      /\ built \in Seq(TxType)
  BY DEF Typed, NodeType
<1>3. \A i \in DOMAIN built : Made(built[i]) \in SUBSET CoinType
  <2>1. \A tx \in TxType : Made(tx) \in SUBSET CoinType
    BY DEF Made, TxType
  <2> QED
    BY <1>2, <2>1
<1>4. FiniteNode'
  BY DEF FiniteNode
<1>5. BuiltSound'
  <2> SUFFICES ASSUME NEW i \in DOMAIN built
               PROVE  \A c \in Made(built[i]) : Mine(c.address, wallet'.next)
    BY DEF BuiltSound
  <2> TAKE c \in Made(built[i])
  <2>1. c.address \in Int /\ Mine(c.address, wallet.next)
    BY <1>3 DEF BuiltSound, CoinType
  <2> QED
    BY <1>0, <2>1, MineGrows
<1>6. Placed'
  BY <1>1 DEF Placed, Known, Made
<1>7. CoinsSound'
  <2>1. \A c \in OnChain : c.address \in Int /\ c.out[3] \in Int
    BY <1>2 DEF OnChain, CoinType, OutPoint
  <2>2. \A c \in OnChain : Mine(c.address, wallet'.next)
    BY <1>0, <2>1, MineGrows DEF CoinsSound
  <2>3. \A c \in OnChain : c.out[1] = "minted" => c.out[3] > bound'.blocks
    BY <1>0, <2>1 DEF CoinsSound
  <2> QED
    BY <1>1, <2>2, <2>3 DEF CoinsSound, OnChain, Made
<1>8. ChangeFollows'
  <2>1. \A i \in DOMAIN built : \A a \in NewAddresses(built[i]) : a \in Int
    BY <1>3 DEF NewAddresses, CoinType, Made
  <2>2. \A i \in DOMAIN built : \A a \in NewAddresses(built[i]) : a < wallet'.next
    BY <1>0, <2>1 DEF ChangeFollows
  <2> QED
    BY <2>2 DEF ChangeFollows, ChangeUnshared
<1> QED
  BY <1>4, <1>5, <1>6, <1>7, <1>8

(* Addresses that are derived.                                              *)
LEMMA DerivedNext ==
    ASSUME NEW w \in WalletType, NEW A \in SUBSET Int, IsFiniteSet(A)
    PROVE  /\ Derived(w, A) = [w EXCEPT !.next = Derived(w, A).next]
           /\ Derived(w, A) \in WalletType
           /\ w.next <= Derived(w, A).next
           /\ \A a \in A : a < Derived(w, A).next
<1> DEFINE S == {w.next} \cup {a + 1 : a \in A}
<1>1. w.next \in Nat \ {0} /\ S \in SUBSET Int
  <2>1. w.next \in Nat \ {0}
    BY DEF WalletType
  <2>2. \A a \in A : a + 1 \in Int
    OBVIOUS
  <2> QED
    BY <2>1, <2>2
<1>2. IsFiniteSet(S)
  <2>1. IsFiniteSet({a + 1 : a \in A})
    <3> DEFINE T == {a + 1 : a \in A}
               f == [a \in A |-> a + 1]
    <3>1. f \in Surjection(A, T)
      BY DEF Surjection
    <3> HIDE DEF f, T
    <3>2. IsFiniteSet(T)
      BY <3>1, FS_Surjection
    <3> QED
      BY <3>2 DEF T
  <2>2. IsFiniteSet({w.next})
    BY FS_Singleton
  <2> QED
    BY <2>1, <2>2, FS_Union
<1>3. Max(S) \in S /\ \A y \in S : Max(S) >= y
  <2>1. w.next \in S
    OBVIOUS
  <2> HIDE DEF S
  <2> QED
    BY <1>1, <1>2, <2>1, MaxOfFinite
<1>4. Max(S) \in Nat \ {0} /\ w.next <= Max(S)
  BY <1>1, <1>3
<1>5. \A a \in A : a < Max(S)
  <2> TAKE a \in A
  <2>1. a + 1 \in S /\ a \in Int
    OBVIOUS
  <2> HIDE DEF S
  <2> QED
    BY <1>3, <1>4, <2>1
<1>6. Derived(w, A) = [w EXCEPT !.next = Max(S)]
  BY DEF Derived
<1> HIDE DEF S
<1>7. Derived(w, A).next = Max(S)
  BY <1>6 DEF WalletType
<1> QED
  BY <1>4, <1>5, <1>6, <1>7 DEF WalletType

-----------------------------------------------------------------------------
(* The update that is running.                                              *)

(* The steps of others: one that changes the unspent outputs raises         *)
(* notified, and one that changes what the pool spends makes it no longer   *)
(* Still, or what it changes is unseen.                                     *)
LEMMA UpdateKept ==
    ASSUME UpdateFollows, FiniteWallet, update' = update, wallet'.utxos = wallet.utxos,
           notified' \/ (~notified /\ node'.utxos = node.utxos),
           Still' => /\ Still /\ unseen \subseteq unseen'
                     /\ SpentInPool' \ unseen' = SpentInPool \ unseen'
    PROVE  UpdateFollows' /\ FiniteWallet'
<1>1. FiniteWallet'
  BY DEF FiniteWallet
<1>2. CASE notified'
  BY <1>1, <1>2 DEF UpdateFollows, Still
<1>3. CASE ~notified /\ node'.utxos = node.utxos
  <2>1. Owned' = Owned
    BY <1>3 DEF Owned
  <2> QED
    BY <1>1, <1>3, <2>1 DEF UpdateFollows
<1> QED
  BY <1>1, <1>2, <1>3

(* All coins are paid to addresses of the wallet or to the outside.         *)
LEMMA OwnedByRange ==
    ASSUME Typed, NodeInv
    PROVE  Own(node.utxos, 0..(wallet.next - 1)) = Owned
<1>1. node.utxos \in SUBSET CoinType /\ wallet.next \in Nat
  BY DEF Typed, NodeType, WalletType
<1>2. ASSUME NEW c \in node.utxos
      PROVE  c.address \in 0..(wallet.next - 1) <=> c.address # Outside
  <2>1. c.address \in Int /\ Mine(c.address, wallet.next)
    BY <1>1, <1>2 DEF CoinType, NodeInv, CoinsSound, OnChain
  <2> QED
    BY <1>1, <2>1 DEF Mine, Outside
<1> QED
  BY <1>2 DEF Own, Owned

LEMMA BeginFollows ==
    ASSUME IInv, NEW by, BeginUpdate(by)
    PROVE  FiniteWallet' /\ UpdateFollows' /\ node' = node /\ wallet' = wallet
<1>1. /\ update' = [step |-> "unconfirmed", by |-> by, addresses |-> 0..(wallet.next - 1)]
      /\ node' = node /\ wallet' = wallet
  BY DEF BeginUpdate
<1>2. update'.step = "unconfirmed" /\ update'.addresses = 0..(wallet.next - 1)
  BY <1>1
<1>3. Own(node.utxos, update'.addresses) = Owned
  BY <1>2, OwnedByRange DEF IInv
<1>4. FiniteWallet'
  BY <1>1, <1>2 DEF FiniteWallet, IInv
<1>5. UpdateFollows'
  BY <1>1, <1>2, <1>3 DEF UpdateFollows, Own, Owned
<1> QED
  BY <1>1, <1>4, <1>5

LEMMA ClientTypeStep ==
    ASSUME Typed, NEW c \in Clients, NEW x \in ClientType, built' = built,
           client' = [client EXCEPT ![c] = x]
    PROVE  client' \in [Clients -> ClientType'] /\ client'[c] = x
           /\ \A d \in Clients : d # c => client'[d] = client[d]
<1>1. client \in [Clients -> ClientType]
  BY DEF Typed
<1>2. ClientType' = ClientType
  BY DEF ClientType
<1> HIDE DEF ClientType
<1> QED
  BY <1>1, <1>2

LEMMA SubmitFailsKeeps ==
    ASSUME IInv, NEW c \in Clients, SubmitFails(c)
    PROVE  IInv'
<1> USE DEF IInv, SubmitFails
<1> DEFINE x == [phase |-> "idle", tx |-> None]
<1>1. x \in ClientType /\ x.phase = "idle"
  BY DEF ClientType
<1>2. /\ client' \in [Clients -> ClientType'] /\ client'[c] = x
      /\ \A d \in Clients : d # c => client'[d] = client[d]
  <2> HIDE DEF x
  <2> QED
    BY <1>1, ClientTypeStep DEF x
<1>3. Typed'
  BY <1>2 DEF Typed
<1>4. NodeInv'
  <2>1. \A d \in Clients : client'[d].phase = "built" => client'[d] = client[d]
    BY <1>1, <1>2
  <2>2. wallet.next <= wallet'.next /\ bound'.blocks <= bound.blocks
    BY DEF Typed, WalletType, Bound
  <2> QED
    BY <1>3, <2>1, <2>2, NodeKept
<1>5. (Still' => Still) /\ SpentInPool' = SpentInPool
  BY <1>2 DEF Still, SpentInPool
<1>6. UpdateFollows' /\ FiniteWallet'
  BY <1>5, UpdateKept DEF Typed
<1>7. CallerWaits'
  BY <1>2 DEF CallerWaits
<1> QED
  BY <1>3, <1>4, <1>6, <1>7

LEMMA ClientBeginsKeeps ==
    ASSUME IInv, NEW c \in Clients, ClientBegins(c)
    PROVE  IInv'
<1> USE DEF IInv
<1> DEFINE x == [client[c] EXCEPT !.phase = "updating"]
<1>0. /\ client' = [client EXCEPT ![c] = x] /\ BeginUpdate(c) /\ notified' = notified
      /\ built' = built /\ bound' = bound /\ unseen' = unseen
  BY DEF ClientBegins, BeginUpdate
<1>1. x \in ClientType /\ x.phase = "updating"
  BY DEF Typed, ClientType
<1>2. /\ client' \in [Clients -> ClientType'] /\ client'[c] = x
      /\ \A d \in Clients : d # c => client'[d] = client[d]
  <2> HIDE DEF x
  <2> QED
    BY <1>0, <1>1, ClientTypeStep DEF x
<1>3. FiniteWallet' /\ UpdateFollows' /\ node' = node /\ wallet' = wallet
  BY <1>0, BeginFollows
<1>4. update'.step = "unconfirmed"
  BY <1>0 DEF BeginUpdate
<1>5. Typed'
  <2> HIDE DEF x
  <2> QED
    BY <1>0, <1>2, <1>3, <1>4 DEF Typed, AllSteps
<1>6. NodeInv'
  <2>1. \A d \in Clients : client'[d].phase = "built" => client'[d] = client[d]
    BY <1>1, <1>2
  <2>2. wallet.next <= wallet'.next /\ bound'.blocks <= bound.blocks
    BY <1>0, <1>3 DEF Typed, WalletType, Bound
  <2> QED
    BY <1>0, <1>3, <1>5, <2>1, <2>2, NodeKept
<1>7. CallerWaits'
  <2>1. update'.by = c
    BY <1>0 DEF BeginUpdate
  <2> HIDE DEF x
  <2> QED
    BY <1>1, <1>2, <2>1 DEF CallerWaits
<1> QED
  BY <1>3, <1>5, <1>6, <1>7

(* Where the callers, the node and the addresses stay as they are.          *)
LEMMA SameNode ==
    ASSUME Typed, Typed', NodeInv, node' = node, built' = built, client' = client,
           wallet'.next = wallet.next, bound' = bound
    PROVE  NodeInv'
<1>1. wallet.next <= wallet'.next /\ bound'.blocks <= bound.blocks
  BY DEF Typed, WalletType, Bound
<1> QED
  BY <1>1, NodeKept

LEMMA SameClients ==
    ASSUME Typed, built' = built, client' = client
    PROVE  client' \in [Clients -> ClientType']
<1>1. ClientType' = ClientType
  BY DEF ClientType
<1> QED
  BY <1>1 DEF Typed

LEMMA TaskBeginsKeeps ==
    ASSUME IInv, TaskBegins
    PROVE  IInv'
<1> USE DEF IInv
<1>0. /\ client' = client /\ BeginUpdate("task") /\ notified' = FALSE
      /\ built' = built /\ bound' = bound /\ unseen' = unseen
  BY DEF TaskBegins, BeginUpdate
<1>3. FiniteWallet' /\ UpdateFollows' /\ node' = node /\ wallet' = wallet
  BY <1>0, BeginFollows
<1>4. update'.step = "unconfirmed"
  BY <1>0 DEF BeginUpdate
<1>5. Typed'
  BY <1>0, <1>3, <1>4, SameClients DEF Typed, AllSteps
<1>6. NodeInv'
  BY <1>0, <1>3, <1>5, SameNode
<1>7. CallerWaits'
  BY <1>0 DEF CallerWaits, BeginUpdate
<1> QED
  BY <1>3, <1>5, <1>6, <1>7

(* What a step of an update changes besides the update and the coins of the *)
(* wallet.                                                                  *)
OnlyUpdate ==
    /\ node' = node /\ notified' = notified /\ built' = built /\ unseen' = unseen
    /\ bound' = bound /\ wallet'.next = wallet.next

LEMMA ReadUnconfirmedKeeps ==
    ASSUME IInv, ReadUnconfirmed
    PROVE  IInv'
<1> USE DEF IInv
<1>1. /\ update.step = "unconfirmed" /\ wallet' = wallet /\ client' = client
      /\ OnlyUpdate
  BY DEF ReadUnconfirmed, OnlyUpdate
<1>2. /\ update'.step = "state" /\ update'.by = update.by
      /\ update'.addresses = update.addresses
      /\ update'.unconfirmed = Own(UNION {tx.outs : tx \in node.pool}, update.addresses)
  BY DEF ReadUnconfirmed
<1>3. update'.unconfirmed \in SUBSET CoinType
  <2>1. \A tx \in node.pool : tx.outs \in SUBSET CoinType
    BY DEF Typed, NodeType, TxType
  <2> QED
    BY <1>2, <2>1 DEF Own
<1>4. Typed'
  BY <1>1, <1>2, <1>3, SameClients DEF Typed, AllSteps, OnlyUpdate
<1>5. NodeInv'
  BY <1>1, <1>4, SameNode DEF OnlyUpdate
<1>6. FiniteWallet'
  BY <1>1, <1>2 DEF FiniteWallet
<1>7. UpdateFollows'
  BY <1>1, <1>2 DEF UpdateFollows, OnlyUpdate, Owned
<1>8. CallerWaits'
  BY <1>1, <1>2 DEF CallerWaits
<1> QED
  BY <1>4, <1>5, <1>6, <1>7, <1>8

LEMMA SpendUtxosFacts ==
    ASSUME NEW w \in WalletType, NEW outs
    PROVE  /\ SpendUtxos(w, outs) \in WalletType
           /\ SpendUtxos(w, outs).next = w.next
           /\ SpendUtxos(w, outs).utxos = {c \in w.utxos : c.out \notin outs}
           /\ Outs(SpendUtxos(w, outs).utxos) = Outs(w.utxos) \ outs
<1> DEFINE a == [w EXCEPT !.utxos = {c \in @ : c.out \notin outs}]
           b == [a EXCEPT !.stxos = @ \cup {c \in w.utxos : c.out \in outs}]
           d == [b EXCEPT !.unconfirmed = {c \in @ : c.out \notin outs \ Outs(w.utxos)}]
           e == [d EXCEPT !.spentUnconfirmed =
                            @ \cup {c \in w.unconfirmed : c.out \in outs \ Outs(w.utxos)}]
<1>1. SpendUtxos(w, outs) = e
  BY DEF SpendUtxos
<1>2. a \in WalletType /\ a.next = w.next /\ a.utxos = {c \in w.utxos : c.out \notin outs}
  BY DEF WalletType
<1>3. b \in WalletType /\ b.next = a.next /\ b.utxos = a.utxos
  <2> HIDE DEF a
  <2>1. {c \in w.utxos : c.out \in outs} \in SUBSET CoinType
    BY DEF WalletType
  <2> QED
    BY <1>2, <2>1 DEF WalletType
<1>4. d \in WalletType /\ d.next = b.next /\ d.utxos = b.utxos
  <2> HIDE DEF b
  <2> QED
    BY <1>3 DEF WalletType
<1>5. e \in WalletType /\ e.next = d.next /\ e.utxos = d.utxos
  <2> HIDE DEF d
  <2>1. {c \in w.unconfirmed : c.out \in outs \ Outs(w.utxos)} \in SUBSET CoinType
    BY DEF WalletType
  <2> QED
    BY <1>4, <2>1 DEF WalletType
<1> HIDE DEF a, b, d, e
<1> QED
  BY <1>1, <1>2, <1>3, <1>4, <1>5 DEF Outs

LEMMA ReadStateKeeps ==
    ASSUME IInv, ReadState
    PROVE  IInv'
<1> USE DEF IInv
<1> DEFINE state == Own(node.utxos, update.addresses)
<1>0. wallet \in WalletType /\ node.utxos \in SUBSET CoinType /\ IsFiniteSet(node.utxos)
  BY DEF Typed, NodeType, NodeInv, FiniteNode
<1>1. /\ update.step = "state" /\ client' = client /\ node' = node
      /\ wallet' = SpendUtxos(wallet, Outs(wallet.utxos) \ Outs(state))
      /\ UNCHANGED <<node, client, notified, built, unseen, bound>>
  BY DEF ReadState
<1>2. /\ update'.step = "spent" /\ update'.by = update.by
      /\ update'.unconfirmed = update.unconfirmed
      /\ update'.state = state
  BY DEF ReadState
<1>3. state \in SUBSET CoinType /\ IsFiniteSet(state)
  <2>1. state \in SUBSET node.utxos
    BY DEF Own
  <2> HIDE DEF state
  <2> QED
    BY <1>0, <2>1, FS_Subset
<1> HIDE DEF state
<1>4. /\ wallet' \in WalletType /\ wallet'.next = wallet.next
      /\ wallet'.utxos \in SUBSET wallet.utxos
      /\ Outs(wallet'.utxos) = Outs(wallet.utxos) \ (Outs(wallet.utxos) \ Outs(state))
  BY <1>0, <1>1, SpendUtxosFacts
<1>5. OnlyUpdate
  BY <1>1, <1>4 DEF OnlyUpdate
<1>6. Typed'
  BY <1>1, <1>2, <1>3, <1>4, SameClients DEF Typed, AllSteps
<1>7. NodeInv'
  BY <1>1, <1>4, <1>6, SameNode
<1>8. FiniteWallet'
  BY <1>2, <1>3, <1>4, FS_Subset DEF FiniteWallet
<1>9. UpdateFollows'
  <2>1. ~notified => state = Owned
    BY <1>1 DEF UpdateFollows, state
  <2>2. Outs(wallet'.utxos) \subseteq Outs(update'.state)
    BY <1>2, <1>4
  <2> QED
    BY <1>1, <1>2, <2>1, <2>2 DEF UpdateFollows, Owned
<1>10. CallerWaits'
  BY <1>1, <1>2 DEF CallerWaits
<1> QED
  BY <1>6, <1>7, <1>8, <1>9, <1>10

(* A spent output is not unspent.                                           *)
LEMMA SpentNotOwned ==
    ASSUME Typed, NodeInv
    PROVE  Outs(node.stxos) \cap Outs(Owned) = {}
<1>1. \A c, d \in OnChain : c.out = d.out => c = d
  BY DEF NodeInv, CoinsSound
<1>2. node.utxos \cap node.stxos = {}
  BY DEF NodeInv, CoinsSound
<1>3. Owned \subseteq node.utxos
  BY DEF Owned
<1> QED
  BY <1>1, <1>2, <1>3 DEF Outs, OnChain

LEMMA ReadSpentKeeps ==
    ASSUME IInv, ReadSpent
    PROVE  IInv'
<1> USE DEF IInv
<1>1. /\ update.step = "spent" /\ client' = client /\ wallet' = wallet
      /\ UNCHANGED <<node, client, notified, built, unseen, bound>>
  BY DEF ReadSpent
<1>2. /\ update'.step = "pool" /\ update'.by = update.by
      /\ update'.unconfirmed = update.unconfirmed
      /\ update'.state = update.state /\ update'.spent = update.had \cap Outs(node.stxos)
  BY DEF ReadSpent
<1>6. Typed'
  BY <1>1, <1>2, SameClients DEF Typed, AllSteps
<1>7. NodeInv'
  BY <1>1, <1>6, SameNode
<1>8. FiniteWallet'
  BY <1>1, <1>2 DEF FiniteWallet
<1>9. UpdateFollows'
  <2>1. update'.spent \cap Outs(Owned) = {}
    BY <1>2, SpentNotOwned
  <2> QED
    BY <1>1, <1>2, <2>1 DEF UpdateFollows, Owned
<1>10. CallerWaits'
  BY <1>1, <1>2 DEF CallerWaits
<1> QED
  BY <1>6, <1>7, <1>8, <1>9, <1>10

LEMMA ReadPoolKeeps ==
    ASSUME IInv, ReadPool
    PROVE  IInv'
<1> USE DEF IInv
<1>1. /\ update.step = "pool" /\ client' = client /\ wallet' = wallet
      /\ unseen' = {} /\ UNCHANGED <<node, client, notified, built, bound>>
  BY DEF ReadPool
<1>2. /\ update'.step = "put" /\ update'.by = update.by
      /\ update'.unconfirmed = update.unconfirmed
      /\ update'.state = update.state /\ update'.spent = update.spent \cup PoolSpends
  BY DEF ReadPool
<1>6. Typed'
  BY <1>1, <1>2, SameClients DEF Typed, AllSteps
<1>7. NodeInv'
  BY <1>1, <1>6, SameNode
<1>8. FiniteWallet'
  BY <1>1, <1>2 DEF FiniteWallet
<1>9. UpdateFollows'
  <2>1. ~notified => update.state = Owned /\ update.spent \cap Outs(Owned) = {}
    BY <1>1 DEF UpdateFollows
  <2>2. ~notified => update'.spent \cap Outs(Owned) = SpentInPool \cap Outs(Owned)
    BY <1>2, <2>1 DEF PoolSpends
  <2>3. Still' => ~notified
    BY <1>1 DEF Still
  <2>4. Outs(wallet.utxos) \subseteq Outs(update.state)
    BY <1>1 DEF UpdateFollows
  <2>5. Owned' = Owned /\ SpentInPool' = SpentInPool
    BY <1>1 DEF Owned, SpentInPool
  <2> QED
    BY <1>1, <1>2, <2>1, <2>2, <2>3, <2>4, <2>5 DEF UpdateFollows
<1>10. CallerWaits'
  BY <1>1, <1>2 DEF CallerWaits
<1> QED
  BY <1>6, <1>7, <1>8, <1>9, <1>10

LEMMA PutUtxosKeeps ==
    ASSUME IInv, PutUtxos
    PROVE  IInv'
<1> USE DEF IInv
<1>0. wallet \in WalletType /\ update.step = "put"
  BY DEF Typed, PutUtxos
<1>1. /\ client' = client /\ UNCHANGED <<node, client, notified, built, unseen, bound>>
      /\ wallet' = [wallet EXCEPT !.utxos = @ \cup update.state,
                                  !.unconfirmed = @ \cup update.unconfirmed]
  BY DEF PutUtxos
<1>2. update'.step = "finish" /\ update'.by = update.by /\ update'.spent = update.spent
  BY DEF PutUtxos
<1>3. /\ update.state \in SUBSET CoinType /\ update.unconfirmed \in SUBSET CoinType
      /\ IsFiniteSet(update.state) /\ IsFiniteSet(wallet.utxos)
  BY <1>0 DEF Typed, FiniteWallet
<1>4. /\ wallet' \in WalletType /\ wallet'.next = wallet.next
      /\ wallet'.utxos = wallet.utxos \cup update.state
  <2> DEFINE w == [wallet EXCEPT !.utxos = @ \cup update.state]
  <2>1. w \in WalletType /\ w.next = wallet.next /\ w.utxos = wallet.utxos \cup update.state
        /\ w.unconfirmed = wallet.unconfirmed
    BY <1>0, <1>3 DEF WalletType
  <2>2. wallet' = [w EXCEPT !.unconfirmed = @ \cup update.unconfirmed]
    BY <1>1
  <2> HIDE DEF w
  <2> QED
    BY <1>3, <2>1, <2>2 DEF WalletType
<1>6. Typed'
  BY <1>1, <1>2, <1>4, SameClients DEF Typed, AllSteps
<1>7. NodeInv'
  BY <1>1, <1>4, <1>6, SameNode
<1>8. FiniteWallet'
  <2>1. IsFiniteSet(wallet'.utxos)
    BY <1>3, <1>4, FS_Union
  <2> QED
    BY <1>2, <2>1 DEF FiniteWallet
<1>9. UpdateFollows'
  <2>1. /\ Outs(wallet.utxos) \subseteq Outs(update.state)
        /\ ~notified => update.state = Owned
        /\ Still => (update.spent \cap Outs(Owned)) \ unseen
                       = (SpentInPool \cap Outs(Owned)) \ unseen
    BY <1>0 DEF UpdateFollows
  <2>2. Outs(wallet'.utxos) = Outs(update.state)
    BY <1>4, <2>1 DEF Outs
  <2>3. Still' = Still
    BY <1>1 DEF Still
  <2>5. Owned' = Owned /\ SpentInPool' = SpentInPool
    BY <1>1 DEF Owned, SpentInPool
  <2> QED
    BY <1>1, <1>2, <2>1, <2>2, <2>3, <2>5 DEF UpdateFollows
<1>10. CallerWaits'
  BY <1>0, <1>1, <1>2 DEF CallerWaits
<1> QED
  BY <1>6, <1>7, <1>8, <1>9, <1>10

LEMMA FinishUpdateKeeps ==
    ASSUME IInv, FinishUpdate
    PROVE  IInv'
<1> USE DEF IInv
<1> DEFINE idle == [phase |-> "idle", tx |-> None]
<1>0. /\ wallet \in WalletType /\ update.step = "finish"
      /\ UNCHANGED <<node, notified, built, unseen, bound>>
      /\ wallet' = SpendUtxos(wallet, update.spent)
      /\ update' = NoUpdate
  BY DEF Typed, FinishUpdate
<1>1. /\ client' \in [Clients -> ClientType']
      /\ \A d \in Clients : client'[d].phase = "built" => client'[d] = client[d]
      /\ \A d \in Clients : client[d].phase = "submitted" => client'[d].phase = "submitted"
  <2>1. CASE update.by = "task"
    <3>1. client' = client
      BY <2>1 DEF FinishUpdate
    <3> QED
      BY <1>0, <3>1, SameClients
  <2>2. CASE update.by # "task"
    <3>1. update.by \in Clients /\ client[update.by].phase = "updating"
      BY <1>0, <2>2 DEF CallerWaits
    <3>2. client' = [client EXCEPT ![update.by] = idle]
      BY <2>2 DEF FinishUpdate
    <3>3. idle \in ClientType /\ idle.phase = "idle"
      BY DEF ClientType
    <3> HIDE DEF idle
    <3>4. /\ client' \in [Clients -> ClientType'] /\ client'[update.by] = idle
          /\ \A d \in Clients : d # update.by => client'[d] = client[d]
      BY <1>0, <3>1, <3>2, <3>3, ClientTypeStep
    <3> QED
      BY <3>1, <3>3, <3>4
  <2> QED
    BY <2>1, <2>2
<1>2. update'.step = "none"
  BY <1>0 DEF NoUpdate
<1>3. /\ wallet' \in WalletType /\ wallet'.next = wallet.next
      /\ wallet'.utxos \in SUBSET wallet.utxos
      /\ Outs(wallet'.utxos) = Outs(wallet.utxos) \ update.spent
  BY <1>0, SpendUtxosFacts
<1>6. Typed'
  BY <1>0, <1>1, <1>2, <1>3 DEF Typed, AllSteps
<1>7. NodeInv'
  <2>1. wallet.next <= wallet'.next /\ bound'.blocks <= bound.blocks
    BY <1>0, <1>3 DEF Typed, WalletType, Bound
  <2> QED
    BY <1>0, <1>1, <1>6, <2>1, NodeKept
<1>8. FiniteWallet'
  BY <1>2, <1>3, FS_Subset DEF FiniteWallet
<1>9. UpdateFollows'
  <2>1. Still' => Still /\ ~notified
    BY <1>0, <1>1 DEF Still
  <2>2. /\ ~notified => Outs(wallet.utxos) = Outs(Owned)
        /\ Still => (update.spent \cap Outs(Owned)) \ unseen
                       = (SpentInPool \cap Outs(Owned)) \ unseen
    BY <1>0 DEF UpdateFollows
  <2>3. Still' => Outs(wallet'.utxos) \ unseen = (Outs(Owned) \ SpentInPool) \ unseen
    BY <1>3, <2>1, <2>2
  <2>5. Owned' = Owned /\ SpentInPool' = SpentInPool
    BY <1>0 DEF Owned, SpentInPool
  <2> QED
    BY <1>0, <1>2, <2>3, <2>5 DEF UpdateFollows
<1>10. CallerWaits'
  BY <1>2 DEF CallerWaits
<1> QED
  BY <1>6, <1>7, <1>8, <1>9, <1>10

(* A bound that is used up by one.                                          *)
LEMMA UseFacts ==
    ASSUME bound \in Bound,
           NEW b \in {"blocks", "disconnects", "txs", "pushes", "removals", "restarts"},
           Use(b)
    PROVE  /\ bound' \in Bound /\ bound'.blocks <= bound.blocks
           /\ b = "blocks" => bound'.blocks < bound.blocks
           /\ b # "blocks" => bound'.blocks = bound.blocks
  BY DEF Bound, Use

LEMMA RestartKeeps ==
    ASSUME IInv, Restart
    PROVE  IInv'
<1> USE DEF IInv
<1>0. /\ UNCHANGED <<node, wallet, built, unseen>>
      /\ update' = NoUpdate /\ client' = Idle /\ notified' = TRUE
  BY DEF Restart
<1>1. bound' \in Bound /\ bound'.blocks <= bound.blocks
  BY UseFacts DEF Restart, Typed
<1>2. /\ client' \in [Clients -> ClientType']
      /\ \A d \in Clients : client'[d].phase = "idle"
  BY <1>0 DEF Idle, ClientType
<1>3. update'.step = "none"
  BY <1>0 DEF NoUpdate
<1>6. Typed'
  BY <1>0, <1>1, <1>2, <1>3 DEF Typed, AllSteps
<1>7. NodeInv'
  <2>1. wallet.next <= wallet'.next
    BY <1>0 DEF Typed, WalletType
  <2> QED
    BY <1>0, <1>1, <1>2, <1>6, <2>1, NodeKept
<1>8. FiniteWallet'
  BY <1>0, <1>3 DEF FiniteWallet
<1>9. UpdateFollows'
  BY <1>0, <1>3 DEF UpdateFollows, Still
<1>10. CallerWaits'
  BY <1>3 DEF CallerWaits
<1> QED
  BY <1>6, <1>7, <1>8, <1>9, <1>10

-----------------------------------------------------------------------------
(* The pool.                                                                *)

LEMMA NodeFields ==
    ASSUME Typed
    PROVE  /\ node.utxos \in SUBSET CoinType /\ node.stxos \in SUBSET CoinType
           /\ node.blocks \in Seq(BlockType) /\ node.pool \in SUBSET TxType
           /\ node = [utxos |-> node.utxos, stxos |-> node.stxos, blocks |-> node.blocks,
                      pool |-> node.pool]
  BY DEF Typed, NodeType

(* The outputs on the chain stay while transactions enter or leave the      *)
(* pool.                                                                    *)
LEMMA PoolStep ==
    ASSUME Typed, NodeInv, NEW pool \in SUBSET TxType, IsFiniteSet(pool),
           node' = [node EXCEPT !.pool = pool], built' = built, wallet' = wallet,
           bound'.blocks = bound.blocks,
           \A tx \in pool : Known(tx) /\ ~Held(tx)',
           \A tx \in pool : tx \in node.pool \/ Held(tx),
           \A c \in Clients : client'[c].phase = "built" => client'[c] = client[c]
    PROVE  NodeInv' /\ node' \in NodeType
<1> USE DEF NodeInv
<1>1. /\ node'.utxos = node.utxos /\ node'.stxos = node.stxos /\ node'.blocks = node.blocks
      /\ node'.pool = pool /\ node' \in NodeType
  BY NodeFields DEF NodeType
<1>2. \A tx : Held(tx)' => Held(tx)
  BY DEF Held
<1>3. FiniteNode'
  BY <1>1 DEF FiniteNode
<1>4. BuiltSound'
  BY DEF BuiltSound, Made
<1>5. Placed'
  BY <1>1, <1>2 DEF Placed, Known, Made
<1>6. CoinsSound'
  BY <1>1, <1>2 DEF CoinsSound, OnChain, Made
<1>7. ChangeFollows'
  BY DEF ChangeFollows, ChangeUnshared, NewAddresses, PaidAddresses
<1> QED
  BY <1>1, <1>3, <1>4, <1>5, <1>6, <1>7

(* What transactions that were built spend.                                 *)
LEMMA SpentKnown ==
    ASSUME NEW txs, \A tx \in txs : Known(tx)
    PROVE  Spent(txs) \subseteq Spent({built[i] : i \in DOMAIN built})
  BY DEF Spent, Known

(* A caller's transaction enters the pool: an update by the caller is due,  *)
(* or its inputs are unseen.                                                *)
LEMMA EnterPool ==
    ASSUME IInv, NEW c \in Clients, client[c].phase = "built", NEW t, t = client[c].tx,
           NEW x \in ClientType, x.phase \in {"submitted", "idle"},
           client' = [client EXCEPT ![c] = x],
           node' = [node EXCEPT !.pool = @ \cup {t}],
           UNCHANGED <<wallet, update, notified, built>>,
           bound' \in Bound, bound'.blocks = bound.blocks,
           unseen \subseteq unseen', unseen' \subseteq unseen \cup t.ins,
           x.phase = "submitted" \/ t.ins \subseteq unseen'
    PROVE  IInv'
<1> USE DEF IInv
<1> DEFINE pool == node.pool \cup {t}
<1>0. node' = [node EXCEPT !.pool = pool]
  OBVIOUS
<1>2. /\ client' \in [Clients -> ClientType'] /\ client'[c] = x
      /\ \A d \in Clients : d # c => client'[d] = client[d]
  BY ClientTypeStep
<1>3. Known(t) /\ Held(t)
  BY DEF NodeInv, Placed, Held
<1>4. t \in TxType
  <2>1. built \in Seq(TxType)
    BY DEF Typed
  <2> QED
    BY <1>3, <2>1 DEF Known
<1>5. pool \in SUBSET TxType /\ IsFiniteSet(pool)
  <2>1. IsFiniteSet(node.pool) /\ node.pool \in SUBSET TxType
    BY NodeFields DEF NodeInv, FiniteNode
  <2> QED
    BY <1>4, <2>1, FS_AddElement
<1>6. ~Held(t)'
  <2>1. \A d \in Clients : client[d].phase = "built" /\ client[d].tx = t => d = c
    BY DEF NodeInv, Placed
  <2> QED
    BY <1>2, <2>1 DEF Held
<1>7. \A d \in Clients : client'[d].phase = "built" => client'[d] = client[d]
  BY <1>2
<1>8. \A tx \in node.pool : Known(tx) /\ ~Held(tx) /\ ~Held(tx)'
  BY <1>7 DEF NodeInv, Placed, Held
<1>9. NodeInv' /\ node' \in NodeType
  <2>1. \A tx \in pool : (Known(tx) /\ ~Held(tx)') /\ (tx \in node.pool \/ Held(tx))
    BY <1>3, <1>6, <1>8
  <2> HIDE DEF pool
  <2> QED
    BY <1>0, <1>5, <1>7, <2>1, PoolStep
<1>10. Typed'
  <2>1. Spent({t}) = t.ins
    BY DEF Spent
  <2>2. unseen' \subseteq Spent({built[i] : i \in DOMAIN built})
    <3>1. Spent({t}) \subseteq Spent({built[i] : i \in DOMAIN built})
      BY <1>3, SpentKnown
    <3>2. unseen \subseteq Spent({built[i] : i \in DOMAIN built})
      BY DEF Typed
    <3> QED
      BY <2>1, <3>1, <3>2
  <2> QED
    BY <1>2, <1>9, <2>2 DEF Typed
<1>12. node'.utxos = node.utxos /\ node'.pool = pool
  BY NodeFields
<1>13. UpdateFollows' /\ FiniteWallet'
  <2>1. notified' \/ (~notified /\ node'.utxos = node.utxos)
    BY <1>12 DEF Typed
  <2>2. SpentInPool' = SpentInPool \cup t.ins
    BY <1>12 DEF SpentInPool, Spent
  <2>3. Still' => Still /\ x.phase # "submitted"
    BY <1>2 DEF Still
  <2> QED
    BY <2>1, <2>2, <2>3, UpdateKept
<1>14. CallerWaits'
  BY <1>2 DEF CallerWaits
<1> QED
  BY <1>9, <1>10, <1>13, <1>14

LEMMA SubmitKeeps ==
    ASSUME IInv, NEW c \in Clients, SubmitTransaction(c)
    PROVE  IInv'
<1> DEFINE x == [phase |-> "submitted", tx |-> None]
<1>1. x \in ClientType /\ x.phase = "submitted"
  BY DEF ClientType
<1>2. PICK t : t = client[c].tx
  OBVIOUS
<1>3. /\ client[c].phase = "built" /\ client' = [client EXCEPT ![c] = x]
      /\ node' = [node EXCEPT !.pool = @ \cup {t}]
      /\ UNCHANGED <<wallet, update, notified, built, unseen, bound>>
  BY <1>2 DEF SubmitTransaction
<1>4. bound' \in Bound /\ bound'.blocks = bound.blocks
  BY <1>3 DEF IInv, Typed
<1> HIDE DEF x
<1> QED
  BY <1>1, <1>2, <1>3, <1>4, EnterPool

LEMMA PushKeeps ==
    ASSUME IInv, NEW c \in Clients, PushTx(c)
    PROVE  IInv'
<1> DEFINE x == [phase |-> "idle", tx |-> None]
<1>1. x \in ClientType /\ x.phase = "idle"
  BY DEF ClientType
<1>2. PICK t : t = client[c].tx
  OBVIOUS
<1>3. /\ client[c].phase = "built" /\ client' = [client EXCEPT ![c] = x]
      /\ node' = [node EXCEPT !.pool = @ \cup {t}] /\ unseen' = unseen \cup t.ins
      /\ UNCHANGED <<wallet, update, notified, built>>
  BY <1>2 DEF PushTx
<1>4. bound' \in Bound /\ bound'.blocks = bound.blocks
  BY UseFacts DEF PushTx, IInv, Typed
<1> HIDE DEF x
<1> QED
  BY <1>1, <1>2, <1>3, <1>4, EnterPool

LEMMA RemoveKeeps ==
    ASSUME IInv, NEW tx \in node.pool, RemoveFromMempool(tx)
    PROVE  IInv'
<1> USE DEF IInv
<1>a. PICK gone : gone = node.pool \cap Deleted({tx})
  OBVIOUS
<1> DEFINE pool == node.pool \ gone
<1>0. /\ node' = [node EXCEPT !.pool = pool] /\ unseen' = unseen \cup Spent(gone)
      /\ UNCHANGED <<wallet, client, update, notified, built>>
  <2>1. node.pool \ Deleted({tx}) = pool
    BY <1>a
  <2> QED
    BY <1>a, <2>1 DEF RemoveFromMempool
<1>1. bound' \in Bound /\ bound'.blocks = bound.blocks
  BY UseFacts DEF RemoveFromMempool, Typed
<1>5. /\ pool \in SUBSET TxType /\ IsFiniteSet(pool) /\ pool \in SUBSET node.pool
      /\ gone \subseteq node.pool
  <2>1. IsFiniteSet(node.pool) /\ node.pool \in SUBSET TxType
    BY NodeFields DEF NodeInv, FiniteNode
  <2> QED
    BY <1>a, <2>1, FS_Subset
<1>8. \A ux \in node.pool : Known(ux) /\ ~Held(ux)'
  BY <1>0 DEF NodeInv, Placed, Held
<1>9. NodeInv' /\ node' \in NodeType
  <2>1. \A ux \in pool : (Known(ux) /\ ~Held(ux)') /\ (ux \in node.pool \/ Held(ux))
    BY <1>8
  <2> HIDE DEF pool
  <2> QED
    BY <1>0, <1>1, <1>5, <2>1, PoolStep
<1>10. Typed'
  <2>1. Spent(gone) \subseteq Spent({built[i] : i \in DOMAIN built})
    BY <1>5, <1>8, SpentKnown
  <2>2. unseen' \subseteq Spent({built[i] : i \in DOMAIN built})
    BY <1>0, <2>1 DEF Typed
  <2> QED
    BY <1>0, <1>1, <1>9, <2>2, SameClients DEF Typed
<1>12. node'.utxos = node.utxos /\ node'.pool = pool
  BY <1>0, NodeFields
<1>13. UpdateFollows' /\ FiniteWallet'
  <2>1. notified' \/ (~notified /\ node'.utxos = node.utxos)
    BY <1>0, <1>12 DEF Typed
  <2>2. SpentInPool = SpentInPool' \cup Spent(gone)
    BY <1>5, <1>12 DEF SpentInPool, Spent
  <2>3. Still' => Still
    BY <1>0 DEF Still
  <2> QED
    BY <1>0, <2>1, <2>2, <2>3, UpdateKept
<1>14. CallerWaits'
  BY <1>0 DEF CallerWaits
<1> QED
  BY <1>9, <1>10, <1>13, <1>14

-----------------------------------------------------------------------------
(* A transaction is built.                                                  *)

LEMMA AddressesOf ==
    ASSUME NEW coins \in SUBSET CoinType, IsFiniteSet(coins),
           NEW A, A = {c.address : c \in coins}
    PROVE  A \in SUBSET Int /\ IsFiniteSet(A)
<1>1. \A c \in coins : c.address \in Int
  BY DEF CoinType
<1> DEFINE f == [c \in coins |-> c.address]
<1>2. f \in Surjection(coins, A)
  BY DEF Surjection
<1> HIDE DEF f
<1>3. IsFiniteSet(A)
  BY <1>2, FS_Surjection
<1> QED
  BY <1>1, <1>3

LEMMA BuildKeeps ==
    ASSUME IInv, NEW c \in Clients, NEW kind \in bound.kinds, Build(c, kind)
    PROVE  IInv'
<1> USE DEF IInv
<1>1. PICK coins \in Candidates(kind) :
        LET tx == Transaction(Len(built) + 1, kind, coins, NewAddress(wallet))
        IN  /\ wallet' = Derived(wallet, {o.address : o \in tx.outs})
            /\ client' = [client EXCEPT ![c] = [phase |-> "built", tx |-> tx]]
            /\ built' = Append(built, tx)
  BY DEF Build
<1>2. PICK id, next, tx : /\ id = Len(built) + 1 /\ next = wallet.next
                          /\ tx = Transaction(id, kind, coins, next)
  OBVIOUS
<1> DEFINE A == {o.address : o \in tx.outs}
           x == [phase |-> "built", tx |-> tx]
<1>3. /\ client[c].phase = "idle" /\ wallet' = Derived(wallet, A)
      /\ client' = [client EXCEPT ![c] = x] /\ built' = Append(built, tx)
      /\ UNCHANGED <<node, update, notified, unseen>>
  BY <1>1, <1>2 DEF Build, NewAddress
<1>4. bound' \in Bound /\ bound'.blocks = bound.blocks
  BY UseFacts DEF Build, Typed
<1>5. /\ wallet \in WalletType /\ next \in Nat \ {0} /\ built \in Seq(TxType)
      /\ id \in Nat \ {0} /\ kind \in Kinds
  BY <1>2 DEF Typed, WalletType, Bound
<1>6. coins \in SUBSET CoinType /\ IsFiniteSet(coins)
  <2>1. coins \in SUBSET wallet.utxos
    BY DEF Candidates, Selections, Spendable
  <2>2. wallet.utxos \in SUBSET CoinType /\ IsFiniteSet(wallet.utxos)
    BY DEF Typed, WalletType, FiniteWallet
  <2> QED
    BY <2>1, <2>2, FS_Subset
<1>7. TxSound(tx, id, kind, next)
  BY <1>2, <1>5, <1>6, TransactionSound
<1>8. /\ tx \in TxType /\ tx.id = id /\ tx.kind = kind /\ IsFiniteSet(tx.outs)
      /\ tx.outs \in SUBSET CoinType /\ tx.paid \in SUBSET CoinType
      /\ IsFiniteSet(Made(tx)) /\ Made(tx) \in SUBSET CoinType
  <2>1. /\ tx \in TxType /\ tx.id = id /\ tx.kind = kind
        /\ IsFiniteSet(tx.outs) /\ IsFiniteSet(tx.paid)
    BY <1>7 DEF TxSound
  <2>2. IsFiniteSet(tx.outs \cup tx.paid)
    BY <2>1, FS_Union
  <2> QED
    BY <2>1, <2>2 DEF Made, TxType
<1>9. A \in SUBSET Int /\ IsFiniteSet(A)
  <2> HIDE DEF A
  <2> QED
    BY <1>8, AddressesOf DEF A
<1>10. /\ wallet' = [wallet EXCEPT !.next = wallet'.next] /\ wallet' \in WalletType
       /\ next <= wallet'.next /\ \A a \in A : a < wallet'.next
  <2> HIDE DEF A
  <2> QED
    BY <1>2, <1>3, <1>5, <1>9, DerivedNext
<1>11. wallet'.utxos = wallet.utxos
  BY <1>5, <1>10 DEF WalletType
<1>12. /\ built' \in Seq(TxType) /\ Len(built') = id /\ built'[id] = tx
       /\ \A i \in 1..Len(built) : built'[i] = built[i]
       /\ DOMAIN built' = DOMAIN built \cup {id} /\ DOMAIN built = 1..Len(built)
       /\ id \notin DOMAIN built
  <2>1. /\ built' \in Seq(TxType) /\ Len(built') = Len(built) + 1
        /\ \A i \in 1..Len(built) : built'[i] = built[i] /\ built'[Len(built) + 1] = tx
    BY <1>3, <1>5, <1>8, Sums!AppendFacts
  <2>2. built'[id] = tx
    BY <1>2, <1>3, <1>5, <1>8, Sums!AppendFacts
  <2>3. Len(built) \in Nat /\ DOMAIN built = 1..Len(built) /\ DOMAIN built' = 1..Len(built')
    BY <1>5, <2>1
  <2> QED
    BY <1>2, <2>1, <2>2, <2>3
<1>13. /\ client' \in [Clients -> ClientType'] /\ client'[c] = x /\ x.phase = "built"
       /\ x.tx = tx /\ \A d \in Clients : d # c => client'[d] = client[d]
  <2>1. client \in [Clients -> ClientType]
    BY DEF Typed
  <2>2. ClientType \subseteq ClientType'
    BY <1>12 DEF ClientType
  <2>3. x \in ClientType' /\ x.phase = "built" /\ x.tx = tx
    BY <1>12 DEF ClientType
  <2> HIDE DEF x
  <2>4. \A d \in Clients : client[d] \in ClientType'
    <3> HIDE DEF ClientType
    <3> QED
      BY <2>1, <2>2
  <2> QED
    BY <1>3, <2>1, <2>3, <2>4
<1> HIDE DEF x, A
<1>14. Typed'
  <2>1. unseen' \subseteq Spent({built'[i] : i \in DOMAIN built'})
    BY <1>3, <1>12 DEF Typed, Spent
  <2> QED
    BY <1>3, <1>4, <1>10, <1>12, <1>13, <2>1 DEF Typed
<1>15. ~(\E i \in DOMAIN built : built[i] = tx)
  BY <1>8, <1>12 DEF NodeInv, BuiltSound
<1>16. \A tt : Held(tt)' => Held(tt) \/ tt = tx
  BY <1>13 DEF Held
<1>17. \A i \in DOMAIN built : Held(built[i])' => Held(built[i])
  <2> SUFFICES ASSUME NEW i \in DOMAIN built, NEW t, t = built[i], Held(t)' PROVE Held(t)
    BY <1>12
  <2> QED
    BY <1>15, <1>16
<1>18. NodeInv'
  <2> USE DEF NodeInv
  <2>1. FiniteNode'
    BY <1>3 DEF FiniteNode
  <2>2. \A i \in DOMAIN built : Made(built[i]) \in SUBSET CoinType
    <3>1. \A t \in TxType : Made(t) \in SUBSET CoinType
      BY DEF Made, TxType
    <3> QED
      BY <1>5, <3>1
  <2>3. /\ next \in Nat /\ wallet'.next \in Nat /\ wallet.next = next
    BY <1>2, <1>5, <1>10 DEF WalletType
  <2>4. BuiltSound'
    <3>1. ASSUME NEW i \in DOMAIN built
          PROVE  \A d \in Made(built[i]) : Mine(d.address, wallet'.next)
      <4> TAKE d \in Made(built[i])
      <4>1. d.address \in Int /\ Mine(d.address, wallet.next)
        BY <2>2 DEF BuiltSound, CoinType
      <4> QED
        BY <1>10, <2>3, <4>1, MineGrows
    <3>2. ASSUME NEW d \in Made(tx)
          PROVE  d.out[1] = "tx" /\ d.out[2] = id /\ Mine(d.address, wallet'.next)
      <4>1. d.out \in {<<"tx", id, 1>>, <<"tx", id, 2>>} /\ d.address \in Int
        BY <1>7, <1>8 DEF TxSound, CoinType
      <4>2. CASE d \in tx.paid
        <5>1. d.address = 0
          BY <1>7, <4>2 DEF TxSound, Voter
        <5> QED
          BY <1>5, <1>10, <2>3, <4>1, <5>1 DEF Mine, Outside
      <4>3. CASE d \in tx.outs
        <5>1. d.address < wallet'.next
          BY <1>10, <4>3 DEF A
        <5>2. d.address >= Outside
          BY <1>5, <1>7, <4>1, <4>3 DEF TxSound, Outside, Voter
        <5> QED
          BY <4>1, <5>1, <5>2 DEF Mine
      <4> QED
        BY <4>2, <4>3 DEF Made
    <3>3. \A d, e \in Made(tx) : d.out = e.out => d = e
      BY <1>7 DEF TxSound
    <3>4. ASSUME NEW i \in DOMAIN built'
          PROVE  /\ built'[i].id = i
                 /\ IsFiniteSet(Made(built'[i]))
                 /\ \A d \in Made(built'[i]) :
                       d.out[1] = "tx" /\ d.out[2] = i /\ Mine(d.address, wallet'.next)
                 /\ \A d, e \in Made(built'[i]) : d.out = e.out => d = e
      <4>1. CASE i = id
        BY <1>8, <1>12, <3>2, <3>3, <4>1
      <4>2. CASE i \in DOMAIN built
        BY <1>12, <3>1, <4>2 DEF BuiltSound
      <4> QED
        BY <1>12, <4>1, <4>2
    <3> QED
      BY <3>4 DEF BuiltSound, Made
  <2>5. \A t : Known(t) => Known(t)' /\ (Held(t)' => Held(t))
    <3> SUFFICES ASSUME NEW t, Known(t) PROVE Known(t)' /\ (Held(t)' => Held(t))
      OBVIOUS
    <3>1. t.id \in DOMAIN built /\ t = built[t.id]
      BY DEF Known
    <3>2. t # tx
      BY <1>15, <3>1
    <3> QED
      BY <1>12, <1>16, <3>1, <3>2 DEF Known
  <2>6. Known(tx)'
    BY <1>8, <1>12 DEF Known
  <2>7. Placed'
    <3>1. \A t \in node.pool : Known(t)' /\ ~Held(t)'
      BY <2>5 DEF Placed
    <3>2. \A i \in DOMAIN node.blocks : \A t \in node.blocks[i].txs : Known(t)' /\ ~Held(t)'
      BY <2>5 DEF Placed
    <3>3. \A d \in Clients : client'[d].phase = "built" => Known(client[d].tx)'
      <4> SUFFICES ASSUME NEW d \in Clients, client'[d].phase = "built",
                          NEW t, t = client'[d].tx PROVE Known(t)'
        BY DEF Known
      <4>1. CASE d = c
        BY <1>13, <2>6, <4>1
      <4>2. CASE d # c
        BY <1>13, <2>5, <4>2 DEF Placed
      <4> QED
        BY <4>1, <4>2
    <3>4. ASSUME NEW d \in Clients, NEW e \in Clients, client'[d].phase = "built",
                 client'[e].phase = "built", client'[d].tx = client'[e].tx
          PROVE  d = e
      <4>1. \A f \in Clients : f # c /\ client'[f].phase = "built" => client'[f].tx # tx
        BY <1>13, <1>15 DEF Placed, Known
      <4> QED
        BY <1>13, <3>4, <4>1 DEF Placed
    <3> QED
      BY <1>3, <3>1, <3>2, <3>3, <3>4 DEF Placed, Made
  <2>8. CoinsSound'
    <3>0. OnChain' = OnChain
      BY <1>3 DEF OnChain
    <3>1. \A d \in OnChain : d.address \in Int
      BY NodeFields DEF OnChain, CoinType
    <3>2. \A d \in OnChain : Mine(d.address, wallet'.next)
      BY <1>10, <2>3, <3>1, MineGrows DEF CoinsSound
    <3>3. ASSUME NEW d \in OnChain, d.out[1] = "tx"
          PROVE  (/\ d.out[2] \in DOMAIN built /\ d \in Made(built[d.out[2]])
                  /\ built[d.out[2]] \notin node.pool /\ ~Held(built[d.out[2]]))'
      <4>1. PICK i : i = d.out[2]
        OBVIOUS
      <4>2. /\ i \in DOMAIN built /\ d \in Made(built[i])
            /\ built[i] \notin node.pool /\ ~Held(built[i])
        BY <3>3, <4>1 DEF CoinsSound
      <4>3. PICK t : t = built[i]
        OBVIOUS
      <4>4. ~Held(t) /\ t # tx /\ built'[i] = t /\ i \in DOMAIN built'
        BY <1>12, <1>15, <4>2, <4>3
      <4>5. ~Held(t)'
        BY <1>16, <4>4
      <4>6. ~Held(built[i])'
        BY <4>4, <4>5 DEF Held
      <4> QED
        BY <1>3, <4>1, <4>2, <4>3, <4>4, <4>6 DEF Made
    <3> QED
      BY <1>3, <1>4, <3>0, <3>2, <3>3 DEF CoinsSound, Made
  <2>9. ChangeFollows'
    <3>1. \A i \in DOMAIN built : \A a \in NewAddresses(built[i]) :
             a \in Int /\ a > Voter /\ a < next
      BY <2>2, <2>3 DEF ChangeFollows, NewAddresses, CoinType, Made
    <3>2. \A a \in NewAddresses(tx) : a \in Int /\ a >= next /\ a > Voter /\ a < wallet'.next
      <4> SUFFICES ASSUME NEW a \in NewAddresses(tx)
                   PROVE  a \in Int /\ a >= next /\ a > Voter /\ a < wallet'.next
        OBVIOUS
      <4>1. /\ kind # "reputation" /\ a # Outside
            /\ \E o \in tx.outs : o.address = a
        BY <1>8 DEF NewAddresses
      <4>2. PICK o \in tx.outs : o.address = a
        BY <4>1
      <4>3. a \in Nat /\ a >= next
        BY <1>7, <4>1, <4>2 DEF TxSound
      <4>4. a < wallet'.next
        BY <1>10, <4>2 DEF A
      <4> QED
        BY <1>5, <4>3, <4>4 DEF Voter
    <3>3. \A i \in DOMAIN built' : \A a \in NewAddresses(built'[i]) :
             a > Voter /\ a < wallet'.next
      BY <1>10, <1>12, <2>3, <3>1, <3>2
    <3>4. ASSUME NEW i \in DOMAIN built
          PROVE  /\ NewAddresses(built[i]) \cap PaidAddresses(tx) = {}
                 /\ NewAddresses(tx) \cap PaidAddresses(built[i]) = {}
      <4>1. \A a \in PaidAddresses(built[i]) : a \in Int /\ a < next
        <5> SUFFICES ASSUME NEW o \in Made(built[i])
                     PROVE  o.address \in Int /\ o.address < next
          BY DEF PaidAddresses, Made
        <5>1. Mine(o.address, next) /\ o \in CoinType
          BY <2>2, <2>3 DEF BuiltSound
        <5> QED
          BY <5>1 DEF Mine, CoinType
      <4>2. ASSUME NEW a \in PaidAddresses(tx)
            PROVE  a = Voter \/ a = Outside \/ (a \in Nat /\ a >= next)
        <5>1. PICK o \in tx.outs \cup tx.paid : o.address = a
          BY DEF PaidAddresses
        <5> QED
          BY <1>7, <5>1 DEF TxSound
      <4>3. \A a \in NewAddresses(built[i]) : a \in Int /\ a > Voter /\ a < next
        BY <3>1
      <4>4. NewAddresses(built[i]) \cap PaidAddresses(tx) = {}
        <5> SUFFICES ASSUME NEW a \in NewAddresses(built[i]), a \in PaidAddresses(tx)
                     PROVE  FALSE
          OBVIOUS
        <5> QED
          BY <2>3, <4>2, <4>3 DEF Voter, Outside
      <4>5. NewAddresses(tx) \cap PaidAddresses(built[i]) = {}
        <5> SUFFICES ASSUME NEW a \in NewAddresses(tx), a \in PaidAddresses(built[i])
                     PROVE  FALSE
          OBVIOUS
        <5> QED
          BY <2>3, <3>2, <4>1
      <4> QED
        BY <4>4, <4>5
    <3>5. ASSUME NEW i \in DOMAIN built', NEW j \in DOMAIN built', i # j
          PROVE  NewAddresses(built'[i]) \cap PaidAddresses(built'[j]) = {}
      <4>1. CASE i \in DOMAIN built /\ j \in DOMAIN built
        BY <1>12, <3>5, <4>1 DEF ChangeFollows, ChangeUnshared
      <4>2. CASE i = id \/ j = id
        BY <1>12, <3>4, <3>5, <4>2
      <4> QED
        BY <1>12, <4>1, <4>2
    <3> QED
      BY <3>3, <3>5 DEF ChangeFollows, ChangeUnshared
  <2> QED
    BY <2>1, <2>4, <2>7, <2>8, <2>9
<1>19. UpdateFollows' /\ FiniteWallet'
  <2>1. (Still' => Still) /\ SpentInPool' = SpentInPool
    BY <1>3, <1>13 DEF Still, SpentInPool
  <2>2. notified' \/ (~notified /\ node'.utxos = node.utxos)
    BY <1>3 DEF Typed
  <2> QED
    BY <1>3, <1>11, <2>1, <2>2, UpdateKept
<1>20. CallerWaits'
  BY <1>3, <1>13 DEF CallerWaits
<1> QED
  BY <1>14, <1>18, <1>19, <1>20

-----------------------------------------------------------------------------
(* Blocks.                                                                  *)

LEMMA ReceiveAddressType ==
    ASSUME NEW w \in WalletType
    PROVE  ReceiveAddress(w) \in Nat
<1>1. w.next \in Nat \ {0}
  BY DEF WalletType
<1> QED
  BY <1>1 DEF ReceiveAddress

(* What transactions of the pool make.                                      *)
MadeBy(txs) == UNION {Made(tx) : tx \in txs}

LEMMA MadeByPool ==
    ASSUME Typed, NodeInv, NEW txs \in SUBSET node.pool, NEW T, T = MadeBy(txs)
    PROVE  /\ T \in SUBSET CoinType /\ IsFiniteSet(T)
           /\ \A c \in T : /\ c.out[1] = "tx" /\ c.out[2] \in DOMAIN built
                           /\ c \in Made(built[c.out[2]]) /\ built[c.out[2]] \in txs
                           /\ Mine(c.address, wallet.next)
           /\ \A c, d \in T : c.out = d.out => c = d
<1>0. node.pool \in SUBSET TxType /\ IsFiniteSet(node.pool) /\ built \in Seq(TxType)
  BY NodeFields DEF NodeInv, FiniteNode, Typed
<1>1. \A tx \in TxType : Made(tx) \in SUBSET CoinType
  BY DEF Made, TxType
<1>2. T \in SUBSET CoinType
  BY <1>0, <1>1 DEF MadeBy
<1>3. \A tx \in txs : tx.id \in DOMAIN built /\ tx = built[tx.id]
  BY DEF NodeInv, Placed, Known
<1>4. IsFiniteSet(T)
  <2> DEFINE sets == {Made(tx) : tx \in txs}
             f == [tx \in txs |-> Made(tx)]
  <2>1. IsFiniteSet(txs)
    BY <1>0, FS_Subset
  <2>2. f \in Surjection(txs, sets)
    BY DEF Surjection
  <2>3. \A s \in sets : IsFiniteSet(s)
    BY <1>3 DEF NodeInv, BuiltSound
  <2> HIDE DEF f, sets
  <2>4. IsFiniteSet(sets)
    BY <2>1, <2>2, FS_Surjection
  <2>5. IsFiniteSet(UNION sets)
    BY <2>3, <2>4, FS_UNION
  <2> QED
    BY <2>5 DEF sets, MadeBy
<1>5. ASSUME NEW c \in T
      PROVE  /\ c.out[1] = "tx" /\ c.out[2] \in DOMAIN built
             /\ c \in Made(built[c.out[2]]) /\ built[c.out[2]] \in txs
             /\ Mine(c.address, wallet.next)
  <2>1. PICK tx \in txs : c \in Made(tx)
    BY DEF MadeBy
  <2>2. tx.id \in DOMAIN built /\ tx = built[tx.id]
    BY <1>3
  <2>3. c.out[1] = "tx" /\ c.out[2] = tx.id /\ Mine(c.address, wallet.next)
    BY <2>1, <2>2 DEF NodeInv, BuiltSound
  <2> QED
    BY <2>1, <2>2, <2>3
<1>6. ASSUME NEW c \in T, NEW d \in T, c.out = d.out PROVE c = d
  <2>1. c \in Made(built[c.out[2]]) /\ d \in Made(built[c.out[2]]) /\ c.out[2] \in DOMAIN built
    BY <1>5, <1>6
  <2> QED
    BY <1>6, <2>1 DEF NodeInv, BuiltSound
<1> QED
  BY <1>2, <1>4, <1>5, <1>6

(* The output that a block pays to the wallet.                              *)
Mint(to, minted) ==
    {Coin(<<"minted", Len(node.blocks), bound.blocks>>, to, s) : s \in minted}

LEMMA MintFacts ==
    ASSUME Typed, NEW to \in Nat, NEW minted \in {{}} \cup {{s} : s \in Minted},
           NEW mint, mint = Mint(to, minted)
    PROVE  /\ mint \in SUBSET CoinType /\ IsFiniteSet(mint)
           /\ \A c \in mint : c.out[1] = "minted" /\ c.out[3] = bound.blocks
           /\ \A c \in mint : c.address = to /\ minted # {}
           /\ \A c, d \in mint : c = d
<1> DEFINE out == <<"minted", Len(node.blocks), bound.blocks>>
<1>1. out \in OutPoint /\ out[1] = "minted" /\ out[3] = bound.blocks
  BY NodeFields DEF OutPoint, Typed, Bound
<1> HIDE DEF out
<1>2. mint = {Coin(out, to, s) : s \in minted}
  BY DEF out, Mint
<1>3. CASE minted = {}
  <2>1. mint = {}
    BY <1>2, <1>3
  <2> QED
    BY <2>1, FS_EmptySet
<1>4. ASSUME NEW s \in Minted, minted = {s}
      PROVE  /\ mint \in SUBSET CoinType /\ IsFiniteSet(mint)
             /\ \A c \in mint : c.out[1] = "minted" /\ c.out[3] = bound.blocks
             /\ \A c \in mint : c.address = to /\ minted # {}
             /\ \A c, d \in mint : c = d
  <2>1. mint = {Coin(out, to, s)}
    BY <1>2, <1>4
  <2>2. s \in Nat
    BY WalletAssumption
  <2>3. /\ Coin(out, to, s) \in CoinType /\ Coin(out, to, s).out = out
        /\ Coin(out, to, s).address = to
    BY <1>1, <2>2, CoinFacts
  <2>4. PICK k : k = Coin(out, to, s)
    OBVIOUS
  <2>5. mint = {k} /\ k \in CoinType /\ k.out = out /\ k.address = to
    BY <2>1, <2>3, <2>4
  <2>6. IsFiniteSet(mint)
    BY <2>5, FS_Singleton
  <2>7. \A c \in mint : c = k
    BY <2>5
  <2>8. minted # {} /\ mint \in SUBSET CoinType
    BY <1>4, <2>5
  <2> QED
    BY <1>1, <2>5, <2>6, <2>7, <2>8
<1> QED
  BY <1>3, <1>4

LEMMA ConnectBlockKeeps ==
    ASSUME IInv, NEW txs \in SUBSET node.pool,
           NEW minted \in {{}} \cup {{s} : s \in Minted}, NEW evicted,
           ConnectBlock(txs, evicted, minted)
    PROVE  IInv'
<1> USE DEF IInv
<1>1. PICK to, mint, spent, T, made, gone :
        /\ to = ReceiveAddress(wallet) /\ mint = Mint(to, minted) /\ T = MadeBy(txs)
        /\ spent = {c \in node.utxos : c.out \in Spent(txs)}
        /\ made = mint \cup T /\ gone = txs \cup Deleted(txs \cup evicted)
  OBVIOUS
<1>2. /\ node' = [utxos |-> (node.utxos \ spent) \cup made,
                  stxos |-> node.stxos \cup spent,
                  blocks |-> Append(node.blocks, [txs |-> txs, spent |-> spent, made |-> made]),
                  pool |-> node.pool \ gone]
      /\ wallet' = (IF minted = {} THEN wallet ELSE Derived(wallet, {to}))
      /\ notified' = TRUE
      /\ UNCHANGED <<client, update, built, unseen>>
  BY <1>1 DEF ConnectBlock, Notifies, Made, Mint, MadeBy
<1>3. bound' \in Bound /\ bound'.blocks < bound.blocks
  BY UseFacts DEF ConnectBlock, Typed
<1>4. wallet \in WalletType /\ to \in Nat
  BY <1>1, ReceiveAddressType DEF Typed
<1>5. /\ mint \in SUBSET CoinType /\ IsFiniteSet(mint)
      /\ \A c \in mint : c.out[1] = "minted" /\ c.out[3] = bound.blocks
      /\ \A c \in mint : c.address = to /\ minted # {}
      /\ \A c, d \in mint : c = d
  BY <1>1, <1>4, MintFacts
<1>6. /\ T \in SUBSET CoinType /\ IsFiniteSet(T)
      /\ \A c \in T : /\ c.out[1] = "tx" /\ c.out[2] \in DOMAIN built
                      /\ c \in Made(built[c.out[2]]) /\ built[c.out[2]] \in txs
                      /\ Mine(c.address, wallet.next)
      /\ \A c, d \in T : c.out = d.out => c = d
  BY <1>1, MadeByPool
<1>7. spent \in SUBSET node.utxos /\ made = mint \cup T
  BY <1>1
<1>8. /\ node'.utxos = (node.utxos \ spent) \cup made /\ node'.stxos = node.stxos \cup spent
      /\ node'.blocks = Append(node.blocks, [txs |-> txs, spent |-> spent, made |-> made])
      /\ node'.pool = node.pool \ gone /\ txs \subseteq gone
  BY <1>1, <1>2
<1> DEFINE block == [txs |-> txs, spent |-> spent, made |-> made]
           n == Len(node.blocks)
<1>9. /\ node.utxos \in SUBSET CoinType /\ node.stxos \in SUBSET CoinType
      /\ node.blocks \in Seq(BlockType) /\ node.pool \in SUBSET TxType
  BY NodeFields
<1>10. made \in SUBSET CoinType /\ block \in BlockType
  BY <1>5, <1>6, <1>7, <1>9 DEF BlockType
<1>11. block.txs = txs /\ block.spent = spent /\ block.made = made
  OBVIOUS
<1> HIDE DEF block
<1>12. /\ node'.blocks \in Seq(BlockType) /\ n \in Nat
       /\ DOMAIN node'.blocks = DOMAIN node.blocks \cup {n + 1} /\ n + 1 \notin DOMAIN node.blocks
       /\ \A i \in DOMAIN node.blocks : node'.blocks[i] = node.blocks[i]
       /\ node'.blocks[n + 1] = block
  <2>1. node'.blocks = Append(node.blocks, block)
    BY <1>8 DEF block
  <2>2. /\ node'.blocks \in Seq(BlockType) /\ Len(node'.blocks) = n + 1
        /\ \A i \in 1..n : node'.blocks[i] = node.blocks[i]
    BY <1>9, <1>10, <2>1, Sums!AppendFacts
  <2>3. node'.blocks[n + 1] = block
    BY <1>9, <1>10, <2>1, Sums!AppendFacts
  <2>4. n \in Nat /\ DOMAIN node.blocks = 1..n /\ DOMAIN node'.blocks = 1..(n + 1)
    BY <1>9, <2>2
  <2> HIDE DEF n
  <2> QED
    BY <2>2, <2>3, <2>4
<1>13. node' \in NodeType
  <2>1. /\ (node.utxos \ spent) \cup made \in SUBSET CoinType
        /\ node.stxos \cup spent \in SUBSET CoinType /\ node.pool \ gone \in SUBSET TxType
    BY <1>7, <1>9, <1>10
  <2> QED
    BY <1>2, <1>8, <1>12, <2>1 DEF NodeType
<1>14. /\ wallet' \in WalletType /\ wallet'.utxos = wallet.utxos /\ wallet.next <= wallet'.next
       /\ minted # {} => to < wallet'.next
  <2>1. CASE minted = {}
    BY <1>2, <1>4, <2>1 DEF WalletType
  <2>2. CASE minted # {}
    <3>1. {to} \in SUBSET Int /\ IsFiniteSet({to}) /\ wallet' = Derived(wallet, {to})
      <4>1. IsFiniteSet({to})
        BY FS_Singleton
      <4>2. wallet' = Derived(wallet, {to})
        BY <1>2, <2>2
      <4>3. {to} \in SUBSET Int
        BY <1>4
      <4> QED
        BY <4>1, <4>2, <4>3
    <3>2. /\ wallet' = [wallet EXCEPT !.next = wallet'.next] /\ wallet' \in WalletType
          /\ wallet.next <= wallet'.next /\ \A a \in {to} : a < wallet'.next
      BY <1>4, <3>1, DerivedNext
    <3> QED
      BY <1>4, <3>2 DEF WalletType
  <2> QED
    BY <2>1, <2>2
<1>15. Typed'
  BY <1>2, <1>3, <1>13, <1>14, SameClients DEF Typed
<1>16. wallet.next \in Nat /\ wallet'.next \in Nat /\ bound.blocks \in Nat /\ bound'.blocks \in Nat
  BY <1>3, <1>4, <1>14 DEF Typed, WalletType, Bound
<1>17. OnChain' = OnChain \cup made
  BY <1>7, <1>8 DEF OnChain
<1>18. \A c \in OnChain : c \in CoinType
  BY <1>9 DEF OnChain
<1>19. ASSUME NEW c \in made, NEW d \in OnChain, c.out = d.out PROVE FALSE
  <2>1. CASE c \in mint
    BY <1>5, <1>16, <1>19, <2>1 DEF NodeInv, CoinsSound
  <2>2. CASE c \in T
    BY <1>6, <1>19, <2>2 DEF NodeInv, CoinsSound
  <2> QED
    BY <1>7, <2>1, <2>2
<1>20. ASSUME NEW c \in made, NEW d \in made, c.out = d.out PROVE c = d
  BY <1>5, <1>6, <1>7, <1>20
<1>21. \A tx : Held(tx)' = Held(tx)
  BY <1>2 DEF Held
<1>22. \A tx \in txs : Known(tx) /\ ~Held(tx)
  BY DEF NodeInv, Placed
<1>23. NodeInv'
  <2> USE DEF NodeInv
  <2>1. FiniteNode'
    <3>1. IsFiniteSet(made)
      BY <1>5, <1>6, <1>7, FS_Union
    <3>2. IsFiniteSet(node.utxos \ spent) /\ IsFiniteSet(spent) /\ IsFiniteSet(node.pool \ gone)
          /\ IsFiniteSet(txs) /\ IsFiniteSet(node.stxos)
      BY <1>7, FS_Subset DEF FiniteNode
    <3>3. IsFiniteSet(node'.utxos) /\ IsFiniteSet(node'.stxos) /\ IsFiniteSet(node'.pool)
      <4>1. IsFiniteSet((node.utxos \ spent) \cup made)
        BY <3>1, <3>2, FS_Union
      <4>2. IsFiniteSet(node.stxos \cup spent)
        BY <3>2, FS_Union
      <4> QED
        BY <1>8, <3>2, <4>1, <4>2
    <3> QED
      BY <1>11, <1>12, <3>2, <3>3 DEF FiniteNode
  <2>2. BuiltSound'
    <3>1. ASSUME NEW i \in DOMAIN built, NEW d \in Made(built[i])
          PROVE  Mine(d.address, wallet'.next)
      <4>1. built[i] \in TxType
        BY DEF Typed
      <4>2. d.address \in Int
        BY <4>1 DEF Made, TxType, CoinType
      <4>3. Mine(d.address, wallet.next)
        BY DEF BuiltSound
      <4> QED
        BY <1>14, <1>16, <4>2, <4>3, MineGrows
    <3>2. built' = built
      BY <1>2
    <3> QED
      BY <3>1, <3>2 DEF BuiltSound, Made
  <2>3. Placed'
    <3>1. \A tx \in node'.pool : Known(tx)' /\ ~Held(tx)'
      BY <1>2, <1>8, <1>21 DEF Placed, Known
    <3>2. \A i \in DOMAIN node'.blocks : \A tx \in node'.blocks[i].txs :
             Known(tx)' /\ ~Held(tx)' /\ Made(tx) \subseteq node'.blocks[i].made
      <4> SUFFICES ASSUME NEW i \in DOMAIN node'.blocks, NEW tx \in node'.blocks[i].txs
                   PROVE  Known(tx) /\ ~Held(tx) /\ Made(tx) \subseteq node'.blocks[i].made
        BY <1>2, <1>21 DEF Known
      <4>1. CASE i = n + 1
        <5>1. Made(tx) \subseteq T
          BY <1>1, <1>11, <1>12, <4>1 DEF MadeBy
        <5> QED
          BY <1>7, <1>11, <1>12, <1>22, <4>1, <5>1
      <4>2. CASE i \in DOMAIN node.blocks
        BY <1>12, <4>2 DEF Placed
      <4> QED
        BY <1>12, <4>1, <4>2
    <3>3. \A c \in Clients : client'[c].phase = "built" => Known(client[c].tx)'
      BY <1>2 DEF Placed, Known
    <3> QED
      BY <1>2, <3>1, <3>2, <3>3 DEF Placed, Made
  <2>4. CoinsSound'
    <3>1. \A c, d \in OnChain' : c.out = d.out => c = d
      BY <1>17, <1>19, <1>20 DEF CoinsSound
    <3>2. node'.utxos \cap node'.stxos = {}
      <4>1. made \cap OnChain = {}
        BY <1>19
      <4> QED
        BY <1>7, <1>8, <4>1 DEF CoinsSound, OnChain
    <3>3. \A i \in DOMAIN node'.blocks : node'.blocks[i].spent \subseteq node'.stxos
      BY <1>8, <1>11, <1>12 DEF CoinsSound
    <3>4. ASSUME NEW i \in DOMAIN node'.blocks, NEW j \in DOMAIN node'.blocks, i # j
          PROVE  node'.blocks[i].spent \cap node'.blocks[j].spent = {}
      <4>1. \A k \in DOMAIN node.blocks : node.blocks[k].spent \cap spent = {}
        BY <1>7 DEF CoinsSound
      <4> QED
        BY <1>11, <1>12, <3>4, <4>1 DEF CoinsSound
    <3>5. ASSUME NEW c \in OnChain' PROVE Mine(c.address, wallet'.next)
      <4>1. CASE c \in mint
        BY <1>4, <1>5, <1>14, <1>16, <4>1 DEF Mine, Outside
      <4>2. CASE c \notin mint
        <5>1. c \in OnChain \/ c \in T
          BY <1>7, <1>17, <3>5, <4>2
        <5>2. c.address \in Int /\ Mine(c.address, wallet.next)
          BY <1>6, <1>18, <5>1 DEF CoinsSound, CoinType
        <5> QED
          BY <1>14, <1>16, <5>2, MineGrows
      <4> QED
        BY <4>1, <4>2
    <3>6. ASSUME NEW c \in OnChain', c.out[1] = "minted" PROVE c.out[3] > bound'.blocks
      <4>1. CASE c \in OnChain
        <5>1. c.out[3] \in Nat /\ c.out[3] > bound.blocks
          BY <1>18, <3>6, <4>1 DEF CoinsSound, CoinType, OutPoint
        <5> QED
          BY <1>3, <1>16, <5>1
      <4>2. CASE c \in made
        BY <1>3, <1>5, <1>6, <1>7, <1>16, <3>6, <4>2
      <4> QED
        BY <1>17, <4>1, <4>2
    <3>7. ASSUME NEW c \in OnChain', c.out[1] = "tx"
          PROVE  /\ c.out[2] \in DOMAIN built /\ c \in Made(built[c.out[2]])
                 /\ built[c.out[2]] \notin node'.pool /\ ~Held(built[c.out[2]])
      <4>1. CASE c \in OnChain
        BY <1>8, <3>7, <4>1 DEF CoinsSound
      <4>2. CASE c \in made
        <5>1. c \in T
          BY <1>5, <1>7, <3>7, <4>2
        <5> QED
          BY <1>6, <1>8, <1>22, <5>1
      <4> QED
        BY <1>17, <4>1, <4>2
    <3>8. \A c \in OnChain' : c.out[1] = "tx" =>
             (/\ c.out[2] \in DOMAIN built /\ c \in Made(built[c.out[2]])
              /\ built[c.out[2]] \notin node.pool /\ ~Held(built[c.out[2]]))'
      BY <1>2, <3>7 DEF Made, Held
    <3> QED
      BY <3>1, <3>2, <3>3, <3>4, <3>5, <3>6, <3>8 DEF CoinsSound
  <2>5. ChangeFollows'
    <3>1. ASSUME NEW i \in DOMAIN built, NEW a \in NewAddresses(built[i])
          PROVE  a < wallet'.next
      <4>1. built[i] \in TxType
        BY DEF Typed
      <4>2. a \in Int
        BY <4>1 DEF NewAddresses, TxType, CoinType
      <4>3. a < wallet.next
        BY DEF ChangeFollows
      <4> QED
        BY <1>14, <1>16, <4>2, <4>3
    <3> QED
      BY <1>2, <3>1 DEF ChangeFollows, ChangeUnshared, NewAddresses, PaidAddresses
  <2> QED
    BY <2>1, <2>2, <2>3, <2>4, <2>5
<1>24. UpdateFollows' /\ FiniteWallet'
  <2>1. ~Still'
    BY <1>2 DEF Still
  <2> QED
    BY <1>2, <1>14, <2>1, UpdateKept
<1>25. CallerWaits'
  BY <1>2 DEF CallerWaits
<1> QED
  BY <1>15, <1>23, <1>24, <1>25

LEMMA DisconnectTipKeeps ==
    ASSUME IInv, DisconnectTip
    PROVE  IInv'
<1> USE DEF IInv
<1> DEFINE n == Len(node.blocks)
<1>1. /\ node.utxos \in SUBSET CoinType /\ node.stxos \in SUBSET CoinType
      /\ node.blocks \in Seq(BlockType) /\ node.pool \in SUBSET TxType
  BY NodeFields
<1>2. n \in Nat \ {0} /\ DOMAIN node.blocks = 1..n /\ n \in DOMAIN node.blocks
  BY <1>1 DEF DisconnectTip
<1>3. PICK tip \in BlockType : tip = node.blocks[n] /\ tip = Last(node.blocks)
  BY <1>1, <1>2 DEF Last
<1>4. /\ tip.txs \in SUBSET TxType /\ tip.spent \in SUBSET CoinType
  BY DEF BlockType
<1>5. /\ tip.made \subseteq node.utxos
      /\ node' = [utxos |-> (node.utxos \ tip.made) \cup tip.spent,
                  stxos |-> node.stxos \ tip.spent, blocks |-> Front(node.blocks),
                  pool |-> node.pool \cup tip.txs]
      /\ notified' = TRUE /\ wallet' = wallet /\ client' = client /\ update' = update
      /\ built' = built /\ unseen' = unseen
  BY <1>3 DEF DisconnectTip
<1>6. bound' \in Bound /\ bound'.blocks = bound.blocks
  BY UseFacts DEF DisconnectTip, Typed
<1>7. /\ node'.utxos = (node.utxos \ tip.made) \cup tip.spent
      /\ node'.stxos = node.stxos \ tip.spent
      /\ node'.blocks = Front(node.blocks) /\ node'.pool = node.pool \cup tip.txs
  BY <1>5
<1>8. /\ node'.blocks \in Seq(BlockType) /\ DOMAIN node'.blocks = 1..(n - 1)
      /\ \A i \in 1..(n - 1) : node'.blocks[i] = node.blocks[i]
  <2>1. node'.blocks = SubSeq(node.blocks, 1, n - 1) /\ n - 1 \in 0..n
    BY <1>2, <1>7 DEF Front
  <2>2. /\ node'.blocks \in Seq(BlockType) /\ Len(node'.blocks) = n - 1
        /\ \A i \in 1..(n - 1) : node'.blocks[i] = node.blocks[i]
    BY <1>1, <2>1, Sums!PrefixFacts
  <2> QED
    BY <2>2
<1> HIDE DEF n
<1>9. 1..(n - 1) \subseteq DOMAIN node.blocks /\ n \notin 1..(n - 1)
  BY <1>2
<1>10. Typed'
  <2>1. /\ (node.utxos \ tip.made) \cup tip.spent \in SUBSET CoinType
        /\ node.stxos \ tip.spent \in SUBSET CoinType /\ node.pool \cup tip.txs \in SUBSET TxType
    BY <1>1, <1>4
  <2>2. node' \in NodeType
    BY <1>5, <1>7, <1>8, <2>1 DEF NodeType
  <2> QED
    BY <1>5, <1>6, <2>2, SameClients DEF Typed
<1>11. tip.spent \subseteq node.stxos
  BY <1>2, <1>3 DEF NodeInv, CoinsSound
<1>12. OnChain' \subseteq OnChain /\ OnChain' \cap tip.made = {}
  <2>1. node.utxos \cap node.stxos = {}
    BY DEF NodeInv, CoinsSound
  <2> QED
    BY <1>5, <1>7, <1>11, <2>1 DEF OnChain
<1>13. \A tx : Held(tx)' = Held(tx) /\ Known(tx)' = Known(tx)
  BY <1>5 DEF Held, Known
<1>14. \A tx \in tip.txs : Known(tx) /\ ~Held(tx) /\ Made(tx) \subseteq tip.made
  BY <1>2, <1>3 DEF NodeInv, Placed
<1>15. NodeInv'
  <2> USE DEF NodeInv
  <2>1. FiniteNode'
    <3>1. IsFiniteSet(node.utxos \ tip.made) /\ IsFiniteSet(node.stxos \ tip.spent)
      BY FS_Subset DEF FiniteNode
    <3>2. IsFiniteSet(tip.spent) /\ IsFiniteSet(tip.txs)
      BY <1>2, <1>3, <1>11, FS_Subset DEF FiniteNode
    <3>3. IsFiniteSet((node.utxos \ tip.made) \cup tip.spent)
      BY <3>1, <3>2, FS_Union
    <3>4. IsFiniteSet(node.pool \cup tip.txs)
      BY <3>2, FS_Union DEF FiniteNode
    <3>5. \A i \in DOMAIN node'.blocks : IsFiniteSet(node'.blocks[i].txs)
      BY <1>8, <1>9 DEF FiniteNode
    <3> QED
      BY <1>7, <3>1, <3>3, <3>4, <3>5 DEF FiniteNode
  <2>2. BuiltSound'
    BY <1>5 DEF BuiltSound, Made
  <2>3. Placed'
    <3>1. \A tx \in node'.pool : Known(tx)' /\ ~Held(tx)'
      BY <1>7, <1>13, <1>14 DEF Placed
    <3>2. \A i \in DOMAIN node'.blocks : \A tx \in node'.blocks[i].txs :
             Known(tx)' /\ ~Held(tx)' /\ Made(tx) \subseteq node'.blocks[i].made
      BY <1>8, <1>9, <1>13 DEF Placed
    <3>3. \A c \in Clients : client'[c].phase = "built" => Known(client[c].tx)'
      BY <1>5, <1>13 DEF Placed
    <3> QED
      BY <1>5, <3>1, <3>2, <3>3 DEF Placed, Made
  <2>4. CoinsSound'
    <3>1. \A c, d \in OnChain' : c.out = d.out => c = d
      BY <1>12 DEF CoinsSound
    <3>2. node'.utxos \cap node'.stxos = {}
      BY <1>7 DEF CoinsSound
    <3>3. ASSUME NEW i \in DOMAIN node'.blocks
          PROVE  node'.blocks[i].spent \subseteq node'.stxos
      <4>1. node.blocks[i].spent \cap tip.spent = {} /\ node.blocks[i].spent \subseteq node.stxos
        BY <1>2, <1>3, <1>8, <1>9 DEF CoinsSound
      <4> QED
        BY <1>7, <1>8, <4>1
    <3>4. \A i, j \in DOMAIN node'.blocks :
             i # j => node'.blocks[i].spent \cap node'.blocks[j].spent = {}
      BY <1>8, <1>9 DEF CoinsSound
    <3>5. \A c \in OnChain' : /\ Mine(c.address, wallet'.next)
                              /\ c.out[1] = "minted" => c.out[3] > bound'.blocks
      BY <1>5, <1>6, <1>12 DEF CoinsSound
    <3>6. ASSUME NEW c \in OnChain', c.out[1] = "tx"
          PROVE  /\ c.out[2] \in DOMAIN built /\ c \in Made(built[c.out[2]])
                 /\ built[c.out[2]] \notin node'.pool /\ ~Held(built[c.out[2]])
      <4>1. /\ c.out[2] \in DOMAIN built /\ c \in Made(built[c.out[2]])
            /\ built[c.out[2]] \notin node.pool /\ ~Held(built[c.out[2]])
        BY <1>12, <3>6 DEF CoinsSound
      <4>2. built[c.out[2]] \notin tip.txs
        BY <1>12, <1>14, <4>1
      <4> QED
        BY <1>7, <4>1, <4>2
    <3>7. \A c \in OnChain' : c.out[1] = "tx" =>
             (/\ c.out[2] \in DOMAIN built /\ c \in Made(built[c.out[2]])
              /\ built[c.out[2]] \notin node.pool /\ ~Held(built[c.out[2]]))'
      BY <1>5, <3>6 DEF Made, Held
    <3> QED
      BY <3>1, <3>2, <3>3, <3>4, <3>5, <3>7 DEF CoinsSound
  <2>5. ChangeFollows'
    BY <1>5 DEF ChangeFollows, ChangeUnshared, NewAddresses, PaidAddresses
  <2> QED
    BY <2>1, <2>2, <2>3, <2>4, <2>5
<1>16. UpdateFollows' /\ FiniteWallet'
  <2>1. ~Still'
    BY <1>5 DEF Still
  <2> QED
    BY <1>5, <2>1, UpdateKept
<1>17. CallerWaits'
  BY <1>5 DEF CallerWaits
<1> QED
  BY <1>10, <1>15, <1>16, <1>17

-----------------------------------------------------------------------------
(* The invariant holds, and what it says of quiet states.                   *)

LEMMA InitIInv == Init => IInv
<1> SUFFICES ASSUME Init PROVE IInv
  OBVIOUS
<1> DEFINE coins == {Coin(<<"coin", s, 0>>, Voter, s) : s \in Coins}
<1>1. ASSUME NEW s \in Coins
      PROVE  /\ Coin(<<"coin", s, 0>>, Voter, s) \in CoinType
             /\ Coin(<<"coin", s, 0>>, Voter, s).out = <<"coin", s, 0>>
             /\ Coin(<<"coin", s, 0>>, Voter, s).address = 0
             /\ Coin(<<"coin", s, 0>>, Voter, s).sats = s
  <2> DEFINE out == <<"coin", s, 0>>
  <2>1. out \in OutPoint /\ s \in Nat
    BY WalletAssumption DEF OutPoint
  <2> HIDE DEF out
  <2>2. Coin(out, Voter, s) \in CoinType /\ Coin(out, Voter, s).out = out
        /\ Coin(out, Voter, s).address = 0 /\ Coin(out, Voter, s).sats = s
    BY <2>1 DEF Coin, CoinType, Voter
  <2> QED
    BY <2>2 DEF out
<1>2. coins \in SUBSET CoinType
  BY <1>1
<1>3. IsFiniteSet(coins)
  <2> DEFINE f == [s \in Coins |-> Coin(<<"coin", s, 0>>, Voter, s)]
  <2>1. f \in Surjection(Coins, coins)
    BY DEF Surjection
  <2>2. IsFiniteSet(Coins)
    BY WalletAssumption
  <2> HIDE DEF f, coins
  <2> QED
    BY <2>1, <2>2, FS_Surjection
<1>4. ASSUME NEW c \in coins
      PROVE  /\ c.out[1] = "coin" /\ c.address = 0 /\ c.out[2] \in Coins
             /\ c = Coin(<<"coin", c.out[2], 0>>, Voter, c.out[2])
  <2>1. PICK s \in Coins : c = Coin(<<"coin", s, 0>>, Voter, s)
    OBVIOUS
  <2>2. c.out = <<"coin", s, 0>> /\ c.address = 0
    BY <1>1, <2>1
  <2> QED
    BY <2>1, <2>2
<1>5. node.utxos = coins /\ node.stxos = {} /\ node.blocks = <<>> /\ node.pool = {}
  BY DEF Init
<1>6. node = [utxos |-> coins, stxos |-> {}, blocks |-> <<>>, pool |-> {}]
  BY DEF Init
<1>7. /\ wallet = [next |-> 1, utxos |-> {}, unconfirmed |-> {}, stxos |-> {},
                   spentUnconfirmed |-> {}]
      /\ client = Idle /\ update = NoUpdate /\ notified = TRUE /\ built = <<>> /\ unseen = {}
      /\ bound \in Bound
  BY WalletAssumption DEF Init
<1> HIDE DEF coins
<1>8. wallet.next = 1 /\ wallet.utxos = {} /\ update.step = "none"
  BY <1>7 DEF NoUpdate
<1>9. \A c \in Clients : client[c] = [phase |-> "idle", tx |-> None]
  BY <1>7 DEF Idle
<1>10. Typed
  <2>1. node \in NodeType
    BY <1>2, <1>6 DEF NodeType
  <2>2. wallet \in WalletType
    BY <1>7 DEF WalletType
  <2>3. client \in [Clients -> ClientType]
    BY <1>7 DEF Idle, ClientType
  <2>4. built \in Seq(TxType)
    BY <1>7
  <2>5. notified \in BOOLEAN /\ unseen = {} /\ bound \in Bound
    BY <1>7
  <2> QED
    BY <1>8, <2>1, <2>2, <2>3, <2>4, <2>5 DEF Typed, AllSteps
<1>11. FiniteNode
  BY <1>3, <1>5, FS_EmptySet DEF FiniteNode
<1>12. BuiltSound /\ ChangeFollows
  BY <1>7 DEF BuiltSound, ChangeFollows, ChangeUnshared
<1>13. Placed
  BY <1>5, <1>9 DEF Placed
<1>14. CoinsSound
  <2>1. OnChain = coins
    BY <1>5 DEF OnChain
  <2>2. ASSUME NEW c \in coins, NEW d \in coins, c.out = d.out PROVE c = d
    <3>1. c.out[2] = d.out[2]
      BY <2>2
    <3> QED
      BY <1>4, <3>1
  <2>3. ASSUME NEW c \in coins PROVE Mine(c.address, 1)
    <3>1. c.address = 0
      BY <1>4
    <3> QED
      BY <3>1 DEF Mine, Outside
  <2>4. \A c \in coins : c.out[1] # "minted" /\ c.out[1] # "tx"
    BY <1>4
  <2> QED
    BY <1>5, <1>8, <2>1, <2>2, <2>3, <2>4 DEF CoinsSound
<1>15. FiniteWallet /\ UpdateFollows /\ CallerWaits
  BY <1>7, <1>8, FS_EmptySet DEF FiniteWallet, UpdateFollows, CallerWaits, Still
<1> QED
  BY <1>10, <1>11, <1>12, <1>13, <1>14, <1>15 DEF IInv, NodeInv

LEMMA StutterKeeps ==
    ASSUME IInv, UNCHANGED vars
    PROVE  IInv'
<1> USE DEF IInv, vars
<1>1. Typed'
  BY SameClients DEF Typed
<1>2. NodeInv'
  BY <1>1, SameNode
<1>3. UpdateFollows' /\ FiniteWallet' /\ CallerWaits'
  BY DEF UpdateFollows, FiniteWallet, CallerWaits, Owned, Own, Outs, Still, SpentInPool, Spent
<1> QED
  BY <1>1, <1>2, <1>3

LEMMA NextKeeps ==
    ASSUME IInv, [Next]_vars
    PROVE  IInv'
<1>1. ASSUME NEW c \in Clients, NEW kind \in bound.kinds, Build(c, kind) PROVE IInv'
  BY <1>1, BuildKeeps
<1>2. ASSUME NEW c \in Clients, SubmitTransaction(c) PROVE IInv'
  BY <1>2, SubmitKeeps
<1>3. ASSUME NEW c \in Clients, SubmitFails(c) PROVE IInv'
  BY <1>3, SubmitFailsKeeps
<1>4. ASSUME NEW c \in Clients, ClientBegins(c) PROVE IInv'
  BY <1>4, ClientBeginsKeeps
<1>5. ASSUME NEW txs \in SUBSET node.pool, NEW minted \in {{}} \cup {{s} : s \in Minted},
             NEW evicted, ConnectBlock(txs, evicted, minted)
      PROVE  IInv'
  BY <1>5, ConnectBlockKeeps
<1>6. CASE DisconnectTip
  BY <1>6, DisconnectTipKeeps
<1>7. ASSUME NEW tx \in node.pool, RemoveFromMempool(tx) PROVE IInv'
  BY <1>7, RemoveKeeps
<1>8. CASE TaskBegins
  BY <1>8, TaskBeginsKeeps
<1>9. CASE UpdateStep
  <2>1. CASE ReadUnconfirmed
    BY <2>1, ReadUnconfirmedKeeps
  <2>2. CASE ReadState
    BY <2>2, ReadStateKeeps
  <2>3. CASE ReadSpent
    BY <2>3, ReadSpentKeeps
  <2>4. CASE ReadPool
    BY <2>4, ReadPoolKeeps
  <2>5. CASE PutUtxos
    BY <2>5, PutUtxosKeeps
  <2>6. CASE FinishUpdate
    BY <2>6, FinishUpdateKeeps
  <2> QED
    BY <1>9, <2>1, <2>2, <2>3, <2>4, <2>5, <2>6 DEF UpdateStep
<1>10. CASE Restart
  BY <1>10, RestartKeeps
<1>11. CASE UNCHANGED vars
  BY <1>11, StutterKeeps
<1>12. ASSUME NEW c \in Clients, PushTx(c) PROVE IInv'
  BY <1>12, PushKeeps
<1> QED
  BY <1>1, <1>2, <1>3, <1>4, <1>5, <1>6, <1>7, <1>8, <1>9, <1>10, <1>11, <1>12 DEF Next

(* In a quiet state no flag is up, and the update that ran last was right.  *)
LEMMA IInvSound == IInv => WalletSound
<1> SUFFICES ASSUME IInv PROVE WalletSound
  OBVIOUS
<1> USE DEF IInv
<1>1. TypeOK
  <2>1. wallet.next \in Nat
    BY DEF Typed, WalletType
  <2>2. \A c \in wallet.utxos \cup wallet.unconfirmed \cup wallet.stxos : c \in CoinType
    BY DEF Typed, WalletType
  <2>3. \A c \in wallet.utxos \cup wallet.unconfirmed \cup wallet.stxos :
           c.sats \in Nat /\ c.address \in Int
    BY <2>2 DEF CoinType
  <2> QED
    BY <2>1, <2>3 DEF TypeOK, Typed, ClientType, AllSteps
<1>2. WalletExact
  <2> SUFFICES ASSUME Quiet PROVE Outs(wallet.utxos) \ unseen = CanSpend \ unseen
    BY DEF WalletExact
  <2>1. update.step = "none" /\ Still
    BY DEF Quiet, Still
  <2>2. Outs(wallet.utxos) \ unseen = (Outs(Owned) \ SpentInPool) \ unseen
    BY <2>1 DEF UpdateFollows
  <2>3. Own(node.utxos, 0..(wallet.next - 1)) = Owned
    BY OwnedByRange
  <2> QED
    BY <2>2, <2>3 DEF CanSpend
<1>3. ChangeUnshared
  BY DEF NodeInv, ChangeFollows
<1> QED
  BY <1>1, <1>2, <1>3 DEF WalletSound

(* Once no update is due the wallet offers exactly the coins it can spend,  *)
(* but for those of transactions that were pushed to the node or dropped    *)
(* from its mempool since an update last read the pool; and an address that *)
(* get_new_address derived for a transaction is paid by no other one:       *)
(* however the reads of an update (update_wallet) interleave with callers,  *)
(* push_tx, blocks, reorganizations, removals from the mempool and          *)
(* restarts.                                                                *)
THEOREM WalletSoundAlways == Spec => []WalletSound
<1>1. Init => IInv
  BY InitIInv
<1>2. IInv /\ [Next]_vars => IInv'
  BY NextKeeps
<1>3. IInv => WalletSound
  BY IInvSound
<1> QED
  BY <1>1, <1>2, <1>3, PTL DEF Spec

=============================================================================
