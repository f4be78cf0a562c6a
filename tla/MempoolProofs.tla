--------------------------- MODULE MempoolProofs ----------------------------
(***************************************************************************)
(* The databases of the mempool agree after every operation, however many  *)
(* transactions there are and whatever markets and blocks they come from.  *)
(***************************************************************************)
EXTENDS Mempool, FiniteSetTheorems, TLAPS

(* The facts about numbers, sequences and loops on an interval hold for any *)
(* operation.                                                               *)
Loop == INSTANCE LoopTheorems WITH op <- LAMBDA x, e : x, Good <- LAMBDA x : TRUE

(* A pool has these databases and no other.                                *)
Shaped(p) ==
    p = [ok |-> p.ok, txs |-> p.txs, spent |-> p.spent, claims |-> p.claims,
         index |-> p.index, order |-> p.order, counter |-> p.counter]

(* It is finite, and the order holds the counters that were given out.     *)
Counted(p) ==
    /\ IsFiniteSet(p.txs)
    /\ p.counter \in Nat
    /\ DOMAIN p.order \subseteq 1..p.counter

(* What IndexesExact says, of any pool.                                    *)
ByInput(p) == p.spent = {<<tx.input, tx>> : tx \in p.txs}
ByClaim(p) == p.claims = UNION {{<<m, tx>> : m \in ClaimedDecisions(tx)} : tx \in p.txs}
ByAddress(p) == p.index = {<<tx.who, tx>> : tx \in p.txs}
ByOrder(p) ==
    /\ {p.order[n] : n \in DOMAIN p.order} = {tx \in p.txs : IsTrade(tx)}
    /\ \A k, n \in DOMAIN p.order : p.order[k] = p.order[n] => k = n
Exclusive(p) ==
    \A t, u \in p.txs :
        t # u => t.input # u.input /\ ClaimedDecisions(t) \cap ClaimedDecisions(u) = {}

Sound(p) ==
    /\ Shaped(p) /\ p.ok = TRUE /\ Counted(p)
    /\ ByInput(p) /\ ByClaim(p) /\ ByAddress(p) /\ ByOrder(p) /\ Exclusive(p)

(* The databases of an empty pool agree.                                   *)
LEMMA EmptySound == Sound(EmptyPool)
<1>1. /\ EmptyPool.txs = {} /\ EmptyPool.spent = {} /\ EmptyPool.claims = {}
      /\ EmptyPool.index = {} /\ EmptyPool.counter = 0 /\ EmptyPool.ok = TRUE
      /\ DOMAIN EmptyPool.order = {}
  BY DEF EmptyPool
<1>2. Shaped(EmptyPool)
  BY DEF EmptyPool, Shaped
<1>3. Counted(EmptyPool)
  BY <1>1, FS_EmptySet DEF Counted
<1> QED
  BY <1>1, <1>2, <1>3 DEF Sound, ByInput, ByClaim, ByAddress, ByOrder, Exclusive

(* What put writes, if nothing stands against it.                          *)
PutIn(p, tx, q) ==
    /\ Shaped(q)
    /\ q.txs = p.txs \cup {tx}
    /\ q.spent = p.spent \cup {<<tx.input, tx>>}
    /\ q.claims = p.claims \cup {<<m, tx>> : m \in ClaimedDecisions(tx)}
    /\ q.index = p.index \cup {<<tx.who, tx>>}
    /\ q.order = (IF IsTrade(tx) THEN PutKey(p.order, p.counter + 1, tx) ELSE p.order)
    /\ q.counter = (IF IsTrade(tx) THEN p.counter + 1 ELSE p.counter)
    /\ ~ClaimConflict(p, tx)
    /\ ~\E s \in p.spent : s[1] = tx.input

(* put writes that or fails.                                               *)
LEMMA PutFields ==
    ASSUME NEW p, NEW tx, Shaped(p), NEW q, q = Put(p, tx), q.ok = TRUE
    PROVE  PutIn(p, tx, q)
<1>1. Fail(p).ok = FALSE
  BY DEF Fail, Shaped
<1>2. /\ ~ClaimConflict(p, tx)
      /\ ~\E s \in p.spent : s[1] = tx.input
      /\ ~(Cardinality(p.txs) >= MaxTransactions)
  BY <1>1, Zenon DEF Put
<1>3. q = [p EXCEPT
            !.txs = @ \cup {tx},
            !.spent = @ \cup {<<tx.input, tx>>},
            !.claims = @ \cup {<<m, tx>> : m \in ClaimedDecisions(tx)},
            !.index = @ \cup {<<tx.who, tx>>},
            !.order = IF IsTrade(tx) THEN PutKey(@, p.counter + 1, tx) ELSE @,
            !.counter = IF IsTrade(tx) THEN @ + 1 ELSE @]
  BY <1>2, Zenon DEF Put
<1> QED
  BY <1>2, <1>3 DEF Shaped, PutIn

(* put keeps the databases in agreement: what it does not refuse is new and *)
(* excludes nothing, and its counter is new.                               *)
LEMMA PutSound ==
    ASSUME NEW p, NEW tx, Sound(p), NEW q, q = Put(p, tx), q.ok = TRUE
    PROVE  Sound(q)
<1>1. /\ Shaped(p) /\ Counted(p) /\ ByInput(p) /\ ByClaim(p) /\ ByAddress(p)
      /\ ByOrder(p) /\ Exclusive(p)
  BY DEF Sound
<1>0. PutIn(p, tx, q)
  BY <1>1, PutFields
<1>2. /\ Shaped(q)
      /\ q.txs = p.txs \cup {tx}
      /\ q.spent = p.spent \cup {<<tx.input, tx>>}
      /\ q.claims = p.claims \cup {<<m, tx>> : m \in ClaimedDecisions(tx)}
      /\ q.index = p.index \cup {<<tx.who, tx>>}
      /\ q.order = (IF IsTrade(tx) THEN PutKey(p.order, p.counter + 1, tx) ELSE p.order)
      /\ q.counter = (IF IsTrade(tx) THEN p.counter + 1 ELSE p.counter)
      /\ ~ClaimConflict(p, tx)
      /\ ~\E s \in p.spent : s[1] = tx.input
  BY <1>0, Zenon DEF PutIn
<1>3. ASSUME NEW t \in p.txs PROVE t.input # tx.input
  <2>1. <<t.input, t>> \in p.spent
    BY <1>1, Zenon DEF ByInput
  <2> QED
    BY <1>2, <2>1
<1>4. tx \notin p.txs
  BY <1>3
<1>5. \A t \in p.txs : ClaimedDecisions(t) \cap ClaimedDecisions(tx) = {}
  <2> SUFFICES ASSUME NEW t \in p.txs, NEW m \in ClaimedDecisions(t), m \in ClaimedDecisions(tx)
               PROVE  FALSE
    OBVIOUS
  <2>1. <<m, t>> \in p.claims
    BY <1>1 DEF ByClaim
  <2>2. t # tx
    BY <1>4
  <2> QED
    BY <1>2, <2>1, <2>2 DEF ClaimConflict
<1>6. ByInput(q)
  BY <1>1, <1>2 DEF ByInput
<1>7. ByClaim(q)
  BY <1>1, <1>2 DEF ByClaim
<1>8. ByAddress(q)
  BY <1>1, <1>2 DEF ByAddress
<1>9. Exclusive(q)
  BY <1>1, <1>2, <1>3, <1>5 DEF Exclusive
<1>10. IsFiniteSet(q.txs)
  BY <1>1, <1>2, FS_AddElement DEF Counted
<1>11. CASE ~IsTrade(tx)
  <2>1. q.order = p.order /\ q.counter = p.counter
    BY <1>2, <1>11
  <2>2. {u \in q.txs : IsTrade(u)} = {u \in p.txs : IsTrade(u)}
    BY <1>2, <1>11
  <2>3. ByOrder(q)
    BY <1>1, <2>1, <2>2 DEF ByOrder
  <2>4. Counted(q)
    BY <1>1, <1>10, <2>1 DEF Counted
  <2> QED
    BY <1>2, <1>6, <1>7, <1>8, <1>9, <2>3, <2>4 DEF Sound
<1>12. CASE IsTrade(tx)
  <2> DEFINE n == p.counter + 1
             D == DOMAIN p.order
  <2>1. q.order = [x \in D \cup {n} |-> IF x = n THEN tx ELSE p.order[x]] /\ q.counter = n
    BY <1>2, <1>12 DEF PutKey
  <2>2. p.counter \in Nat /\ D \subseteq 1..p.counter
    BY <1>1 DEF Counted
  <2>3. n \notin D /\ n \in Nat /\ D \cup {n} \subseteq 1..n
    BY <2>2
  <2>4. DOMAIN q.order = D \cup {n} /\ q.order[n] = tx /\ \A x \in D : q.order[x] = p.order[x]
    BY <2>1, <2>3
  <2>5. Counted(q)
    BY <1>10, <2>1, <2>3, <2>4 DEF Counted
  <2>6. {p.order[k] : k \in D} = {u \in p.txs : IsTrade(u)}
    BY <1>1 DEF ByOrder
  <2>7. {u \in q.txs : IsTrade(u)} = {u \in p.txs : IsTrade(u)} \cup {tx}
    BY <1>2, <1>12
  <2>8. \A k \in D : p.order[k] # tx
    BY <1>4, <2>6
  <2>9. \A k, j \in D : p.order[k] = p.order[j] => k = j
    BY <1>1 DEF ByOrder
  <2> HIDE DEF n, D
  <2>10. {q.order[k] : k \in D \cup {n}} = {u \in q.txs : IsTrade(u)}
    BY <2>4, <2>6, <2>7
  <2>11. \A k, j \in D \cup {n} : q.order[k] = q.order[j] => k = j
    BY <2>4, <2>8, <2>9
  <2>12. ByOrder(q)
    BY <2>4, <2>10, <2>11 DEF ByOrder
  <2> QED
    BY <1>2, <1>6, <1>7, <1>8, <1>9, <2>5, <2>12 DEF Sound
<1> QED
  BY <1>11, <1>12

(* delete removes transactions of the pool from all of the databases.      *)
LEMMA DropSound ==
    ASSUME NEW p, NEW gone, Sound(p), gone \subseteq p.txs, NEW q, q = Drop(p, gone)
    PROVE  Sound(q) /\ q.txs = p.txs \ gone
<1>1. /\ Shaped(p) /\ Counted(p) /\ ByInput(p) /\ ByClaim(p) /\ ByAddress(p)
      /\ ByOrder(p) /\ Exclusive(p) /\ p.ok = TRUE
  BY DEF Sound
<1> DEFINE D == {k \in DOMAIN p.order : p.order[k] \notin gone}
<1>2. /\ Shaped(q)
      /\ q.ok = p.ok
      /\ q.txs = p.txs \ gone
      /\ q.spent = {s \in p.spent : s[1] \notin {tx.input : tx \in gone}}
      /\ q.claims = {c \in p.claims : c[1] \notin UNION {ClaimedDecisions(tx) : tx \in gone}}
      /\ q.index = {i \in p.index : i[2] \notin gone}
      /\ q.order = [n \in D |-> p.order[n]]
      /\ q.counter = p.counter
  BY <1>1 DEF Shaped, Drop
<1>3. ByInput(q)
  BY <1>1, <1>2 DEF ByInput, Exclusive
<1>4. ByClaim(q)
  <2>1. ASSUME NEW c \in q.claims
        PROVE  c \in UNION {{<<m, tx>> : m \in ClaimedDecisions(tx)} : tx \in q.txs}
    <3>1. c \in p.claims
      BY <1>2, <2>1
    <3>2. PICK tx \in p.txs : \E m \in ClaimedDecisions(tx) : c = <<m, tx>>
      BY <1>1, <3>1 DEF ByClaim
    <3>3. tx \notin gone
      BY <1>2, <3>2
    <3> QED
      BY <1>2, <3>2, <3>3
  <2>2. ASSUME NEW tx \in q.txs, NEW m \in ClaimedDecisions(tx)
        PROVE  <<m, tx>> \in q.claims
    <3>1. tx \in p.txs /\ tx \notin gone
      BY <1>2
    <3>2. <<m, tx>> \in p.claims
      BY <1>1, <3>1 DEF ByClaim
    <3>3. \A u \in gone : m \notin ClaimedDecisions(u)
      BY <1>1, <3>1 DEF Exclusive
    <3> QED
      BY <1>2, <3>2, <3>3
  <2> QED
    BY <2>1, <2>2 DEF ByClaim
<1>5. ByAddress(q)
  BY <1>1, <1>2 DEF ByAddress
<1>6. Exclusive(q)
  BY <1>1, <1>2 DEF Exclusive
<1>7. Counted(q)
  <2>0. IsFiniteSet(p.txs) /\ q.txs \subseteq p.txs
    BY <1>1, <1>2 DEF Counted
  <2>1. IsFiniteSet(q.txs)
    BY <2>0, FS_Subset
  <2> QED
    BY <1>1, <1>2, <2>1 DEF Counted
<1>8. ByOrder(q)
  <2>1. DOMAIN q.order = D /\ \A k \in D : q.order[k] = p.order[k] /\ k \in DOMAIN p.order
    BY <1>2
  <2>2. {p.order[k] : k \in DOMAIN p.order} = {u \in p.txs : IsTrade(u)}
    BY <1>1 DEF ByOrder
  <2>3. {p.order[k] : k \in D} = {u \in p.txs \ gone : IsTrade(u)}
    <3>1. {p.order[k] : k \in D} = {p.order[k] : k \in DOMAIN p.order} \ gone
      BY Zenon
    <3> QED
      BY <2>2, <3>1
  <2>4. {q.order[k] : k \in D} = {p.order[k] : k \in D}
    BY <2>1
  <2> HIDE DEF D
  <2>5. \A k, j \in D : q.order[k] = q.order[j] => k = j
    BY <1>1, <2>1 DEF ByOrder
  <2> QED
    BY <1>2, <2>1, <2>3, <2>4, <2>5 DEF ByOrder
<1> QED
  BY <1>1, <1>2, <1>3, <1>4, <1>5, <1>6, <1>7, <1>8 DEF Sound

(* The cascade of delete visits transactions of the pool only.             *)
LEMMA DescendantsInPool ==
    ASSUME NEW p, NEW txs, IsFiniteSet(p.txs)
    PROVE  Descendants(p, txs) \subseteq p.txs
<1> DEFINE n == Cardinality(p.txs)
           next(t) == t \cup (Children(p, t) \cap p.txs)
           T == SUBSET p.txs
           g == [x \in T \X (1..n) |-> next(x[1])]
           f == CHOOSE h : h = [i \in 0..n |-> IF i = 0 THEN txs \cap p.txs ELSE next(h[i - 1])]
<1>1. n \in Nat
  BY FS_CardinalityType
<1>2. Descendants(p, txs) = f[n]
  BY DEF Descendants
<1>3. \A t \in T, i \in 1..n : g[<<t, i>>] = next(t) /\ next(t) \in T
  OBVIOUS
<1> HIDE DEF n, next, T, g
<1>4. Loop!Recursion(0, n, T, txs \cap p.txs, g)
  BY <1>1, <1>3 DEF Loop!Recursion, T
<1>5. PICK h \in [0..n -> T] : Loop!Iterates(h, 0, n, txs \cap p.txs, g)
  BY <1>4, Loop!IteratesExist
<1>6. h = [i \in 0..n |-> IF i = 0 THEN txs \cap p.txs ELSE next(h[i - 1])]
  <2>1. \A i \in 0..n : h[i] = IF i = 0 THEN txs \cap p.txs ELSE g[<<h[i - 1], i>>]
    BY <1>5, Zenon DEF Loop!Iterates
  <2>2. \A i \in 0..n : i # 0 => g[<<h[i - 1], i>>] = next(h[i - 1])
    <3> SUFFICES ASSUME NEW i \in 0..n, i # 0 PROVE g[<<h[i - 1], i>>] = next(h[i - 1])
      OBVIOUS
    <3>1. i \in 1..n /\ h[i - 1] \in T
      BY <1>1, <1>5
    <3> QED
      BY <1>3, <3>1
  <2> DEFINE e(i) == IF i = 0 THEN txs \cap p.txs ELSE next(h[i - 1])
  <2>3. \A i \in 0..n : h[i] = e(i)
    BY <2>1, <2>2
  <2>4. h = [i \in 0..n |-> e(i)]
    <3> HIDE DEF e
    <3> QED
      BY <1>5, <2>3
  <2> QED
    BY <2>4
<1>7. f = [i \in 0..n |-> IF i = 0 THEN txs \cap p.txs ELSE next(f[i - 1])]
  BY <1>6, Zenon
<1> HIDE DEF f
<1>8. \A i \in 0..n : f[i] = IF i = 0 THEN txs \cap p.txs ELSE next(f[i - 1])
  BY <1>7, Zenon
<1> DEFINE G == {i \in 0..n : f[i] \in T}
<1>9. 0 \in G
  BY <1>1, <1>8 DEF T
<1>10. ASSUME NEW i \in 1..n, i - 1 \in G PROVE i \in G
  <2>1. i \in 0..n /\ i # 0 /\ f[i - 1] \in T
    BY <1>1, <1>10
  <2> QED
    BY <1>3, <1>8, <2>1
<1>11. \A i \in 0..n : i \in G
  <2> HIDE DEF G
  <2> QED
    BY <1>1, <1>9, <1>10, Loop!Steps
<1> QED
  BY <1>1, <1>2, <1>11 DEF T

(* delete keeps the databases in agreement, whatever it is asked to delete. *)
LEMMA DeleteSound ==
    ASSUME NEW p, NEW tx, Sound(p), NEW q, q = DeleteTx(p, tx)
    PROVE  Sound(q)
<1>1. IsFiniteSet(p.txs)
  BY DEF Sound, Counted
<1>2. Descendants(p, {tx}) \subseteq p.txs
  BY <1>1, DescendantsInPool
<1>3. q = Drop(p, Descendants(p, {tx}))
  BY DEF DeleteTx
<1> QED
  BY <1>2, <1>3, DropSound

(* The transactions of the pool that claim a decision another claims.      *)
Zombies(p, tx) ==
    {c[2] : c \in {x \in p.claims : x[1] \in ClaimedDecisions(tx) /\ x[2] # tx}}

(* At most one transaction of the pool stands against the claims of        *)
(* another, because a transaction claims one decision or none.             *)
LEMMA OneZombie ==
    ASSUME NEW p, NEW tx, Sound(p)
    PROVE  Zombies(p, tx) = {} \/ \E z : Zombies(p, tx) = {z}
<1> DEFINE Z == Zombies(p, tx)
<1>0. \A z \in Z : \E c \in p.claims : c[1] \in ClaimedDecisions(tx) /\ c[2] = z
  BY DEF Zombies
<1> HIDE DEF Z
<1>1. ASSUME NEW y \in Z, NEW z \in Z PROVE y = z
  <2>1. PICK c \in p.claims : c[1] \in ClaimedDecisions(tx) /\ c[2] = y
    BY <1>0, <1>1
  <2>2. PICK d \in p.claims : d[1] \in ClaimedDecisions(tx) /\ d[2] = z
    BY <1>0, <1>1
  <2>3. c[1] = d[1]
    BY <2>1, <2>2 DEF ClaimedDecisions
  <2>4. PICK t \in p.txs : \E m \in ClaimedDecisions(t) : c = <<m, t>>
    BY <2>1 DEF Sound, ByClaim
  <2>5. PICK u \in p.txs : \E m \in ClaimedDecisions(u) : d = <<m, u>>
    BY <2>2 DEF Sound, ByClaim
  <2>6. t = y /\ u = z /\ c[1] \in ClaimedDecisions(t) /\ c[1] \in ClaimedDecisions(u)
    BY <2>1, <2>2, <2>3, <2>4, <2>5
  <2>7. Exclusive(p)
    BY DEF Sound
  <2> QED
    BY <2>6, <2>7 DEF Exclusive
<1>2. ASSUME NEW z \in Z PROVE Z = {z}
  BY <1>1
<1> QED
  BY <1>2 DEF Z

(* Evicting it keeps the databases in agreement.                           *)
LEMMA EvictSound ==
    ASSUME NEW p, NEW tx, Sound(p), NEW q, q = EvictDecisionClaimConflicts(p, tx)
    PROVE  Sound(q)
<1> DEFINE Z == Zombies(p, tx)
           any(s) == CHOOSE x \in s : TRUE
           v(h, s) == IF s = {} THEN p ELSE DeleteTx(h[s \ {any(s)}], any(s))
           f == CHOOSE h : h = [s \in SUBSET Z |-> v(h, s)]
<1>1. q = f[Z]
  BY Zenon DEF EvictDecisionClaimConflicts, FoldSet, MapThenFoldSet, Zombies
<1>2. Z = {} \/ \E z : Z = {z}
  BY OneZombie
<1> HIDE DEF Z
<1>3. \E h : h = [s \in SUBSET Z |-> v(h, s)]
  <2> DEFINE e == [s \in SUBSET Z |-> p]
             h == [s \in SUBSET Z |-> v(e, s)]
  <2>1. \A s \in SUBSET Z : s # {} => s \ {any(s)} = {}
    BY <1>2
  <2>2. {} \in SUBSET Z /\ e[{}] = p /\ h[{}] = p
    OBVIOUS
  <2>3. \A s \in SUBSET Z : v(h, s) = v(e, s)
    <3> SUFFICES ASSUME NEW s \in SUBSET Z PROVE v(h, s) = v(e, s)
      OBVIOUS
    <3>1. s # {} => h[s \ {any(s)}] = e[s \ {any(s)}]
      <4> HIDE DEF e, h, any
      <4> QED
        BY <2>1, <2>2
    <3> HIDE DEF e, h, any
    <3> QED
      BY <3>1
  <2>4. h = [s \in SUBSET Z |-> v(h, s)]
    <3>1. h = [s \in SUBSET Z |-> v(e, s)]
      OBVIOUS
    <3> HIDE DEF e, h, v
    <3> QED
      BY <2>3, <3>1
  <2> HIDE DEF e, h, v
  <2> QED
    BY <2>4
<1>4. f = [s \in SUBSET Z |-> v(f, s)]
  <2> HIDE DEF v
  <2> QED
    BY <1>3, Zenon
<1> HIDE DEF f
<1>5. \A s \in SUBSET Z : f[s] = v(f, s)
  <2> HIDE DEF v
  <2> QED
    BY <1>4, Zenon
<1>6. f[{}] = p
  BY <1>5
<1>7. CASE Z = {}
  BY <1>1, <1>6, <1>7
<1>8. ASSUME NEW z, Z = {z} PROVE Sound(q)
  <2>1. any(Z) = z /\ Z \ {any(Z)} = {}
    BY <1>8
  <2>2. f[Z] = DeleteTx(f[Z \ {any(Z)}], any(Z))
    BY <1>5, <1>8
  <2>3. q = DeleteTx(p, z)
    BY <1>1, <1>6, <2>1, <2>2
  <2> QED
    BY <2>3, DeleteSound
<1> QED
  BY <1>2, <1>7, <1>8

(* A confirmed transaction leaves, with what stood against it.             *)
LEMMA ConfirmSound ==
    ASSUME NEW p, NEW tx, Sound(p)
    PROVE  Sound(Confirm(p, tx))
  BY EvictSound, DeleteSound DEF Confirm

(* put either fails or keeps the databases in agreement.                   *)
LEMMA PutEither ==
    ASSUME NEW p, NEW tx, Sound(p)
    PROVE  Put(p, tx).ok = FALSE \/ Sound(Put(p, tx))
<1>1. Shaped(p) /\ p.ok = TRUE
  BY DEF Sound
<1>2. Fail(p).ok = FALSE
  BY <1>1 DEF Fail, Shaped
<1> DEFINE new == [p EXCEPT
            !.txs = @ \cup {tx},
            !.spent = @ \cup {<<tx.input, tx>>},
            !.claims = @ \cup {<<m, tx>> : m \in ClaimedDecisions(tx)},
            !.index = @ \cup {<<tx.who, tx>>},
            !.order = IF IsTrade(tx) THEN PutKey(@, p.counter + 1, tx) ELSE @,
            !.counter = IF IsTrade(tx) THEN @ + 1 ELSE @]
<1>3. new.ok = TRUE
  BY <1>1 DEF Shaped
<1>4. Put(p, tx) = Fail(p) \/ Put(p, tx) = new
  BY Zenon DEF Put
<1> HIDE DEF new
<1>5. Put(p, tx).ok = FALSE \/ Put(p, tx).ok = TRUE
  BY <1>2, <1>3, <1>4
<1> QED
  BY <1>5, PutSound

-----------------------------------------------------------------------------
(* The loops over blocks and templates.                                    *)

(* A list of transactions.                                                 *)
IsList(s) == \E S : s \in Seq(S)

(* A list has one element for each number up to its length.                *)
LEMMA ListDomain ==
    ASSUME NEW s, IsList(s)
    PROVE  Len(s) \in Nat /\ DOMAIN s = 1..Len(s)
  BY DEF IsList

(* Adding to a list.                                                       *)
LEMMA ListAppend ==
    ASSUME NEW s, IsList(s), NEW e
    PROVE  IsList(Append(s, e))
<1>1. PICK S : s \in Seq(S)
  BY DEF IsList
<1>2. Append(s, e) \in Seq(S \cup {e})
  BY <1>1
<1> QED
  BY <1>2 DEF IsList

Confirms == INSTANCE LoopTheorems WITH op <- Confirm, Good <- Sound

(* connect_tip_ confirms the transactions of a block one after another.    *)
LEMMA ConfirmsSound ==
    ASSUME NEW p, NEW txs, Sound(p), IsList(txs)
    PROVE  Sound(FoldLeft(Confirm, p, txs))
<1>1. Len(txs) \in Nat /\ DOMAIN txs = 1..Len(txs)
  BY ListDomain
<1>2. FoldLeft(Confirm, p, txs) = Confirms!Fold(p, txs)
  BY Zenon DEF Confirms!Fold, Confirms!Largest, FoldLeft, MapThenFoldSet, Max
<1>3. Confirms!Keeps(Len(txs), txs)
  BY ConfirmSound DEF Confirms!Keeps
<1> QED
  BY <1>1, <1>2, <1>3, Confirms!FoldLeftKeeps

(* A pool, or the error that stops a disconnection.                        *)
SoundOrFailed(p) == p.ok = FALSE \/ Sound(p)

PutsBack == INSTANCE LoopTheorems WITH op <- PutBackOne, Good <- SoundOrFailed

(* disconnect_tip_ puts one transaction back.                              *)
LEMMA PutBackOneSound ==
    ASSUME NEW p, NEW tx, SoundOrFailed(p)
    PROVE  SoundOrFailed(PutBackOne(p, tx))
<1>1. CASE p.ok = FALSE
  BY <1>1 DEF PutBackOne, SoundOrFailed
<1>2. CASE Sound(p)
  <2> DEFINE q == EvictDecisionClaimConflicts(p, tx)
  <2>1. p.ok = TRUE
    BY <1>2 DEF Sound
  <2>2. PutBackOne(p, tx) = Put(q, tx) \/ PutBackOne(p, tx) = Put(p, tx)
    BY <2>1, Zenon DEF PutBackOne
  <2>3. Sound(q)
    BY <1>2, EvictSound
  <2> HIDE DEF q
  <2> QED
    BY <1>2, <2>2, <2>3, PutEither DEF SoundOrFailed
<1> QED
  BY <1>1, <1>2 DEF SoundOrFailed

(* disconnect_tip_ puts the transactions of the block back, in reverse.    *)
LEMMA PutBackSound ==
    ASSUME NEW p, NEW txs, Sound(p), IsList(txs), NEW q, q = PutBack(p, txs), q.ok
    PROVE  Sound(q)
<1> DEFINE back == Reverse(txs)
<1>1. Len(txs) \in Nat /\ DOMAIN back = 1..Len(txs)
  BY ListDomain DEF Reverse
<1> HIDE DEF back
<1>2. q = PutsBack!Fold(p, back)
  BY Zenon DEF PutsBack!Fold, PutsBack!Largest, PutBack, FoldLeft, MapThenFoldSet, Max, back
<1>3. PutsBack!Keeps(Len(txs), back)
  BY PutBackOneSound DEF PutsBack!Keeps
<1>4. SoundOrFailed(p)
  BY DEF SoundOrFailed
<1>5. SoundOrFailed(q)
  BY <1>1, <1>2, <1>3, <1>4, PutsBack!FoldLeftKeeps
<1> QED
  BY <1>5 DEF SoundOrFailed

(* Taking the first elements of a list, and joining two.                   *)
LEMMA ListFirst ==
    ASSUME NEW s, IsList(s), NEW n \in Nat
    PROVE  IsList(FirstOf(s, n))
<1>1. PICK S : s \in Seq(S)
  BY DEF IsList
<1> DEFINE k == IF n =< Len(s) THEN n ELSE Len(s)
<1>2. k \in 0..Len(s)
  BY <1>1
<1> HIDE DEF k
<1>3. SubSeq(s, 1, k) \in Seq(S)
  BY <1>1, <1>2
<1>4. FirstOf(s, n) = SubSeq(s, 1, k)
  BY DEF FirstOf, k
<1> QED
  BY <1>3, <1>4 DEF IsList

LEMMA ListJoin ==
    ASSUME NEW s, IsList(s), NEW t, IsList(t)
    PROVE  IsList(s \o t)
<1>1. PICK S : s \in Seq(S)
  BY DEF IsList
<1>2. PICK T : t \in Seq(T)
  BY DEF IsList
<1>3. s \o t \in Seq(S \cup T)
  BY <1>1, <1>2
<1> QED
  BY <1>3 DEF IsList

KeepNonTrade(kept, tx) == IF IsTrade(tx) THEN kept ELSE Append(kept, tx)

Filters == INSTANCE LoopTheorems WITH op <- KeepNonTrade, Good <- IsList

(* The transactions that are not trades are a list.                        *)
LEMMA NonTradesList ==
    ASSUME NEW s, IsList(s)
    PROVE  IsList(NonTrades(s))
<1>1. Len(s) \in Nat /\ DOMAIN s = 1..Len(s)
  BY ListDomain
<1>2. NonTrades(s) = Filters!Fold(<<>>, s)
  BY Zenon DEF Filters!Fold, Filters!Largest, NonTrades, KeepNonTrade, FoldLeft,
               MapThenFoldSet, Max
<1>3. Filters!Keeps(Len(s), s)
  BY ListAppend DEF Filters!Keeps, KeepNonTrade
<1>4. IsList(<<>>)
  <2>1. <<>> \in Seq({})
    OBVIOUS
  <2> QED
    BY <2>1 DEF IsList
<1> QED
  BY <1>1, <1>2, <1>3, <1>4, Filters!FoldLeftKeeps

(* So are the trades in their order.                                       *)
LEMMA TradesList ==
    ASSUME NEW p, Sound(p)
    PROVE  IsList(TradesOrdered(p))
<1> DEFINE keys == DOMAIN p.order
           key(i) == CHOOSE k \in keys : Cardinality({n \in keys : n = k \/ SortsBefore(n, k)}) = i
           N == Cardinality(keys)
           R == {p.order[key(i)] : i \in 1..N}
<1>1. p.counter \in Nat /\ keys \subseteq 1..p.counter
  BY DEF Sound, Counted
<1>2. IsFiniteSet(1..p.counter)
  BY <1>1, FS_Interval
<1>3. N \in Nat
  BY <1>1, <1>2, FS_Subset, FS_CardinalityType
<1>4. TradesOrdered(p) = [i \in 1..N |-> p.order[key(i)]]
  BY Zenon DEF TradesOrdered
<1> HIDE DEF N, key
<1>5. [i \in 1..N |-> p.order[key(i)]] \in Seq(R)
  BY <1>3
<1> QED
  BY <1>4, <1>5 DEF IsList

(* The state of the loop that builds a template.                           *)
Building(acc) ==
    /\ acc = [pool |-> acc.pool, txs |-> acc.txs, fees |-> acc.fees, shares |-> acc.shares]
    /\ Sound(acc.pool)
    /\ IsList(acc.txs)

ConsiderOne(acc, tx) == Consider(db, acc, tx)

Considers == INSTANCE LoopTheorems WITH op <- ConsiderOne, Good <- Building

(* get_transactions deletes the transaction, leaves it or takes it.        *)
LEMMA ConsiderBuilding ==
    ASSUME NEW acc, NEW tx, Building(acc)
    PROVE  Building(ConsiderOne(acc, tx))
<1> DEFINE deleted == [acc EXCEPT !.pool = DeleteTx(@, tx)]
           taken(t, f, s) == [acc EXCEPT !.txs = t, !.fees = f, !.shares = s]
           twice == \E i \in DOMAIN acc.txs : acc.txs[i].input = tx.input
           unfilled == Utxo(db, tx.input) = {}
           skipped == IsTrade(tx) /\ ~PassesSlippage(db, acc.shares, tx)
           fees == acc.fees + TemplateFee(db, tx)
           shares == IF IsTrade(tx) THEN AddTrade(acc.shares, tx) ELSE acc.shares
           txs == Append(acc.txs, tx)
<1>1. \/ ConsiderOne(acc, tx) = deleted
      \/ ConsiderOne(acc, tx) = acc
      \/ ConsiderOne(acc, tx) = taken(txs, fees, shares)
  <2>1. ConsiderOne(acc, tx) = CASE twice -> deleted [] unfilled -> deleted [] skipped -> acc
                                 [] OTHER -> taken(txs, fees, shares)
    BY Zenon DEF ConsiderOne, Consider
  <2> HIDE DEF twice, unfilled, skipped, fees, shares, txs, deleted, taken
  <2> QED
    BY <2>1
<1>2. Building(deleted)
  <2>1. Sound(DeleteTx(acc.pool, tx))
    BY DeleteSound DEF Building
  <2> QED
    BY <2>1 DEF Building
<1>3. Building(taken(txs, fees, shares))
  <2>1. IsList(txs)
    BY ListAppend DEF Building
  <2>2. acc = [pool |-> acc.pool, txs |-> acc.txs, fees |-> acc.fees, shares |-> acc.shares]
    BY DEF Building
  <2> HIDE DEF txs, fees, shares
  <2>3. taken(txs, fees, shares) = [pool |-> acc.pool, txs |-> txs, fees |-> fees, shares |-> shares]
    <3> DEFINE x == [acc EXCEPT !.txs = txs]
               y == [x EXCEPT !.fees = fees]
    <3>1. x = [pool |-> acc.pool, txs |-> txs, fees |-> acc.fees, shares |-> acc.shares]
      BY <2>2
    <3>2. taken(txs, fees, shares) = [y EXCEPT !.shares = shares]
      OBVIOUS
    <3> HIDE DEF x, taken
    <3>3. y = [pool |-> acc.pool, txs |-> txs, fees |-> fees, shares |-> acc.shares]
      BY <3>1
    <3> HIDE DEF y
    <3> QED
      BY <3>2, <3>3
  <2> HIDE DEF taken
  <2> QED
    BY <2>1, <2>3 DEF Building
<1> HIDE DEF deleted, taken, txs, fees, shares
<1> QED
  BY <1>1, <1>2, <1>3

(* build_block_template leaves a pool whose databases agree, and a list.   *)
LEMMA GetTransactionsSound ==
    ASSUME NEW p, Sound(p), NEW byTxid \in SetToSeqs(p.txs), NEW n \in Nat
    PROVE  Building(GetTransactions(db, p, byTxid, n))
<1>1. IsList(byTxid)
  <2>1. Cardinality(p.txs) \in Nat
    BY FS_CardinalityType DEF Sound, Counted
  <2>2. byTxid \in [1..Cardinality(p.txs) -> p.txs]
    BY DEF SetToSeqs
  <2>3. byTxid \in Seq(p.txs)
    BY <2>1, <2>2
  <2> QED
    BY <2>3 DEF IsList
<1> DEFINE list == FirstOf(NonTrades(FirstOf(byTxid, n)) \o TradesOrdered(p), n)
           base == [pool |-> p, txs |-> <<>>, fees |-> 0,
                    shares |-> [m \in MarketIds |-> db.markets[m].shares]]
<1>2. IsList(list)
  BY <1>1, ListFirst, NonTradesList, TradesList, ListJoin
<1>3. Building(base)
  <2>1. <<>> \in Seq({})
    OBVIOUS
  <2>2. IsList(<<>>)
    BY <2>1 DEF IsList
  <2> QED
    BY <2>2 DEF Building
<1>4. GetTransactions(db, p, byTxid, n) = Considers!Fold(base, list)
  BY Zenon DEF Considers!Fold, Considers!Largest, GetTransactions, ConsiderOne, FoldLeft,
               MapThenFoldSet, Max
<1> HIDE DEF base, list
<1>5. Len(list) \in Nat /\ DOMAIN list = 1..Len(list)
  BY <1>2, ListDomain
<1>6. Considers!Keeps(Len(list), list)
  BY ConsiderBuilding DEF Considers!Keeps
<1> QED
  BY <1>3, <1>4, <1>5, <1>6, Considers!FoldLeftKeeps

-----------------------------------------------------------------------------
(* The inductive invariant: the pool, and the lists of transactions that    *)
(* loops will run over.                                                    *)

ChainOfLists == IsList(blocks) /\ \A i \in 1..Len(blocks) : IsList(blocks[i].txs)

TemplateOfList == template = None \/ IsList(template.txs)

PoolInv == Sound(pool) /\ ChainOfLists /\ TemplateOfList

(* A block on top of the chain.                                            *)
LEMMA ConnectKeepsChain ==
    ASSUME ChainOfLists, NEW txs, IsList(txs), NEW coinbase, NEW resolutions,
           blocks' = Append(blocks, [txs |-> txs, coinbase |-> coinbase,
                                     resolutions |-> resolutions])
    PROVE  ChainOfLists'
<1> DEFINE b == [txs |-> txs, coinbase |-> coinbase, resolutions |-> resolutions]
<1>1. PICK S : blocks \in Seq(S)
  BY DEF ChainOfLists, IsList
<1>2. b.txs = txs
  OBVIOUS
<1> HIDE DEF b
<1>3. /\ blocks' \in Seq(S \cup {b}) /\ Len(blocks') = Len(blocks) + 1 /\ Len(blocks) \in Nat
      /\ \A i \in 1..Len(blocks) : blocks'[i] = blocks[i]
      /\ blocks'[Len(blocks) + 1] = b
  BY <1>1 DEF b
<1>4. \A i \in 1..Len(blocks') : i \in 1..Len(blocks) \/ i = Len(blocks) + 1
  BY <1>3
<1>5. \A i \in 1..Len(blocks') : IsList(blocks'[i].txs)
  BY <1>2, <1>3, <1>4 DEF ChainOfLists
<1>6. IsList(blocks')
  BY <1>3 DEF IsList
<1> QED
  BY <1>5, <1>6 DEF ChainOfLists, IsList

(* The chain without its last block.                                       *)
LEMMA DisconnectKeepsChain ==
    ASSUME ChainOfLists, blocks # <<>>, blocks' = Front(blocks)
    PROVE  ChainOfLists' /\ IsList(Last(blocks).txs)
<1>1. PICK S : blocks \in Seq(S)
  BY DEF ChainOfLists, IsList
<1>2. Len(blocks) \in Nat \ {0} /\ Last(blocks) = blocks[Len(blocks)]
  BY <1>1 DEF Last
<1>3. /\ blocks' \in Seq(S) /\ Len(blocks') = Len(blocks) - 1
      /\ \A i \in 1..Len(blocks') : i \in 1..Len(blocks) /\ blocks'[i] = blocks[i]
  <2> DEFINE k == Len(blocks) - 1
             g == blocks'
  <2>1. k \in 0..Len(blocks) /\ g = SubSeq(blocks, 1, k)
    BY <1>2 DEF Front
  <2> HIDE DEF k, g
  <2>2. g \in Seq(S) /\ Len(g) = k /\ \A i \in 1..k : g[i] = blocks[i]
    BY <1>1, <2>1, Loop!PrefixFacts
  <2> QED
    BY <1>2, <2>2 DEF k, g
<1>4. \A i \in 1..Len(blocks') : IsList(blocks'[i].txs)
  BY <1>3 DEF ChainOfLists
<1>5. IsList(blocks')
  BY <1>3 DEF IsList
<1>6. IsList(Last(blocks).txs)
  BY <1>2 DEF ChainOfLists
<1> QED
  BY <1>4, <1>5, <1>6 DEF ChainOfLists, IsList

(* It holds of the databases as they are created.                          *)
LEMMA PoolInvInit == PoolInit => PoolInv
<1> SUFFICES ASSUME PoolInit PROVE PoolInv
  OBVIOUS
<1>1. Sound(pool)
  BY EmptySound DEF PoolInit
<1>2. ChainOfLists
  <2>1. blocks = <<>>
    BY DEF PoolInit, Init
  <2>2. blocks \in Seq({}) /\ 1..Len(blocks) = {}
    BY <2>1
  <2> QED
    BY <2>2 DEF ChainOfLists, IsList
<1>3. TemplateOfList
  BY DEF PoolInit, TemplateOfList
<1> QED
  BY <1>1, <1>2, <1>3 DEF PoolInv

(* A connection confirms a list of transactions and appends their block.   *)
LEMMA ConnectTipKeeps ==
    ASSUME PoolInv, NEW txs, IsList(txs), NEW coinbase, NEW resolutions,
           ConnectTip(txs, coinbase, resolutions)
    PROVE  Sound(pool)' /\ ChainOfLists'
<1>1. pool' = FoldLeft(Confirm, pool, txs)
  BY DEF ConnectTip
<1>2. Sound(FoldLeft(Confirm, pool, txs))
  BY ConfirmsSound DEF PoolInv
<1>3. blocks' = Append(blocks, [txs |-> txs, coinbase |-> coinbase, resolutions |-> resolutions])
  BY DEF ConnectTip, ConnectBlock
<1>4. ChainOfLists'
  BY <1>3, ConnectKeepsChain DEF PoolInv
<1>5. Sound(pool')
  BY <1>1, <1>2
<1> QED
  BY <1>4, <1>5

(* Every operation of the node keeps it.                                   *)
LEMMA PoolInvNext == PoolInv /\ [PoolNext]_<<vars, poolVars>> => PoolInv'
<1> SUFFICES ASSUME PoolInv, [PoolNext]_<<vars, poolVars>> PROVE PoolInv'
  OBVIOUS
<1>0. Sound(pool) /\ ChainOfLists /\ TemplateOfList
  BY DEF PoolInv
<1>1. ASSUME UNCHANGED blocks PROVE ChainOfLists'
  BY <1>0, <1>1 DEF ChainOfLists, IsList
<1>2. ASSUME UNCHANGED template PROVE TemplateOfList'
  BY <1>0, <1>2 DEF TemplateOfList, IsList
<1>3. ASSUME Sound(pool') PROVE Sound(pool)'
  BY <1>3
<1>4. ASSUME NEW tx, SubmitTransaction(tx) PROVE PoolInv'
  <2>1. /\ pool' = Put(pool, tx) /\ Put(pool, tx).ok
        /\ UNCHANGED blocks /\ UNCHANGED template
    BY <1>4 DEF SubmitTransaction, vars
  <2>2. Sound(pool')
    BY <1>0, <2>1, PutEither
  <2> QED
    BY <1>1, <1>2, <1>3, <2>1, <2>2 DEF PoolInv
<1>5. ASSUME UNCHANGED <<vars, pool, template>> PROVE PoolInv'
  <2>1. UNCHANGED blocks /\ UNCHANGED template /\ pool' = pool
    BY <1>5 DEF vars
  <2>2. Sound(pool')
    BY <1>0, <2>1
  <2> QED
    BY <1>1, <1>2, <1>3, <2>1, <2>2 DEF PoolInv
<1>6. ASSUME NEW tx \in incoming, ReceiveTransaction(tx) PROVE PoolInv'
  <2>1. /\ (pool' = Put(pool, tx) /\ Put(pool, tx).ok) \/ pool' = pool
        /\ UNCHANGED blocks /\ UNCHANGED template
    BY <1>6 DEF ReceiveTransaction, vars
  <2>2. Sound(pool')
    BY <1>0, <2>1, PutEither
  <2> QED
    BY <1>1, <1>2, <1>3, <2>1, <2>2 DEF PoolInv
<1>7. ASSUME NEW tx \in pool.txs, RemoveFromMempool(tx) PROVE PoolInv'
  <2>1. pool' = DeleteTx(pool, tx) /\ UNCHANGED blocks /\ UNCHANGED template
    BY <1>7 DEF RemoveFromMempool, vars
  <2>2. Sound(pool')
    BY <1>0, <2>1, DeleteSound
  <2> QED
    BY <1>1, <1>2, <1>3, <2>1, <2>2 DEF PoolInv
<1>8. ASSUME BuildBlockTemplate PROVE PoolInv'
  <2>1. PICK byTxid \in SetToSeqs(pool.txs) :
          LET got == GetTransactions(db, pool, byTxid, NumTransactions)
          IN  /\ template' = [parent |-> blocks, txs |-> got.txs, coinbase |-> got.fees]
              /\ pool' = got.pool
    BY <1>8, Zenon DEF BuildBlockTemplate
  <2> DEFINE got == GetTransactions(db, pool, byTxid, NumTransactions)
  <2>2. NumTransactions \in Nat
    BY MempoolAssumption
  <2>3. Building(got)
    BY <1>0, <2>2, GetTransactionsSound
  <2>4. template'.txs = got.txs /\ pool' = got.pool /\ UNCHANGED blocks
    <3>1. UNCHANGED blocks
      BY <1>8 DEF BuildBlockTemplate, vars
    <3> HIDE DEF got
    <3>2. template' = [parent |-> blocks, txs |-> got.txs, coinbase |-> got.fees] /\ pool' = got.pool
      BY <2>1, Zenon DEF got
    <3> QED
      BY <3>1, <3>2
  <2> HIDE DEF got
  <2>5. Sound(pool') /\ IsList(template'.txs)
    BY <2>3, <2>4 DEF Building
  <2>6. TemplateOfList'
    BY <2>5 DEF TemplateOfList, IsList
  <2> QED
    BY <1>1, <1>3, <2>4, <2>5, <2>6 DEF PoolInv
<1>9. ASSUME NEW height, BuildEmptyTemplate(height) PROVE PoolInv'
  <2>1. template'.txs = <<>> /\ UNCHANGED blocks /\ pool' = pool
    BY <1>9 DEF BuildEmptyTemplate, vars
  <2>2. template'.txs \in Seq({})
    BY <2>1
  <2>3. TemplateOfList'
    BY <2>2 DEF TemplateOfList, IsList
  <2>4. Sound(pool')
    BY <1>0, <2>1
  <2> QED
    BY <1>1, <1>3, <2>1, <2>3, <2>4 DEF PoolInv
<1>10. ASSUME BmmFails PROVE PoolInv'
  <2>1. template' = None /\ UNCHANGED blocks /\ pool' = pool
    BY <1>10 DEF BmmFails, vars
  <2>2. TemplateOfList'
    BY <2>1 DEF TemplateOfList
  <2>3. Sound(pool')
    BY <1>0, <2>1
  <2> QED
    BY <1>1, <1>3, <2>1, <2>2, <2>3 DEF PoolInv
<1>11. ASSUME NEW resolutions, SubmitTemplate(resolutions) PROVE PoolInv'
  <2>1. /\ IsList(template.txs) /\ template' = None
        /\ ConnectTip(template.txs, template.coinbase, resolutions)
    BY <1>0, <1>11 DEF SubmitTemplate, TemplateOfList
  <2>2. Sound(pool)' /\ ChainOfLists'
    BY <2>1, ConnectTipKeeps
  <2>3. TemplateOfList'
    BY <2>1 DEF TemplateOfList
  <2> QED
    BY <2>2, <2>3 DEF PoolInv
<1>12. ASSUME NEW tx, ReceiveBlock(<<tx>>, MinerFee, <<>>) PROVE PoolInv'
  <2>1. ConnectTip(<<tx>>, MinerFee, <<>>) /\ UNCHANGED template
    BY <1>12 DEF ReceiveBlock
  <2>2. IsList(<<tx>>)
    <3>1. <<tx>> \in Seq({tx})
      OBVIOUS
    <3> QED
      BY <3>1 DEF IsList
  <2>3. Sound(pool)' /\ ChainOfLists'
    BY <2>1, <2>2, ConnectTipKeeps
  <2> QED
    BY <1>2, <2>1, <2>3 DEF PoolInv
<1>13. ASSUME DisconnectBlock PROVE PoolInv'
  <2>1. /\ blocks # <<>> /\ blocks' = Front(blocks) /\ UNCHANGED template
        /\ pool' = PutBack(pool, Last(blocks).txs) /\ PutBack(pool, Last(blocks).txs).ok
    BY <1>13 DEF DisconnectBlock, DisconnectTip
  <2>2. ChainOfLists' /\ IsList(Last(blocks).txs)
    BY <1>0, <2>1, DisconnectKeepsChain
  <2>3. Sound(pool')
    BY <1>0, <2>1, <2>2, PutBackSound
  <2> QED
    BY <1>2, <1>3, <2>1, <2>2, <2>3 DEF PoolInv
<1>14. ASSUME NEW tx, HandlePushTx(tx) PROVE PoolInv'
  BY <1>5, <1>14 DEF HandlePushTx
<1>15. CASE UNCHANGED <<vars, poolVars>>
  BY <1>5, <1>15 DEF poolVars
<1>16. CASE PoolNext
  BY <1>4, <1>6, <1>7, <1>8, <1>9, <1>10, <1>11, <1>12, <1>13, <1>14, <1>16, ZenonT(60)
     DEF PoolNext, MarketBuy, MarketSell, MarketAmplifyBeta, MarketCreate, CreateTrade
<1> QED
  BY <1>15, <1>16

(* It says that the databases agree.                                       *)
LEMMA PoolInvExact == PoolInv => IndexesExact
  BY DEF PoolInv, Sound, ByInput, ByClaim, ByAddress, ByOrder, Exclusive, IndexesExact

(* The five databases of the mempool agree in every reachable state, for   *)
(* any number of transactions, markets, blocks and peers and any order of  *)
(* submissions, deliveries, removals, templates and reorganizations:       *)
(* what put, the cascade of delete, the eviction of claims and the loops   *)
(* of connect_tip_, disconnect_tip_ and get_transactions leave behind.     *)
THEOREM PoolIndexesExact == PoolSpec => []IndexesExact
<1>1. PoolSpec => []PoolInv
  BY PoolInvInit, PoolInvNext, PTL DEF PoolSpec
<1> QED
  BY <1>1, PoolInvExact, PTL

=============================================================================
