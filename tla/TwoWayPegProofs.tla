-------------------------- MODULE TwoWayPegProofs ---------------------------
(***************************************************************************)
(* The two-way peg pays every withdrawal at most once and loses none, for  *)
(* every set of withdrawals, deposits and bundles, any size of a bundle    *)
(* and any reorganisation, as long as the mainchain reports only bundles   *)
(* that the connected chain has proposed (~CrossFork; with it the claim is *)
(* false, see README, 3.2).                                                *)
(*                                                                         *)
(* The invariant says of every bundle which statuses may follow another in *)
(* its roll-back stack, because what an undo handler gives back depends on *)
(* the last two of them, and that the spent withdrawals are divided among  *)
(* the bundles that hold them.  For that no handler relies on the order of *)
(* the mainchain's events or on what the blocks found.                     *)
(*                                                                         *)
(* That a block can be disconnected does depend on both.  The undo of a    *)
(* block is not its inverse: statuses Pending stay behind.  So the second  *)
(* invariant compares databases by what the mainchain reported of each     *)
(* bundle (Same), and says of every connected block that its undo, from    *)
(* any databases that are the same as those it left, ends in databases     *)
(* that are the same as those it found (Reverts).                          *)
(***************************************************************************)
EXTENDS TwoWayPeg, FiniteSetTheorems, SequenceTheorems, TLAPS

(* The facts about numbers, sequences and loops on an interval hold for any *)
(* operation.                                                               *)
Loop == INSTANCE LoopTheorems WITH op <- LAMBDA x, e : x, Good <- LAMBDA x : TRUE

-----------------------------------------------------------------------------
(* Types.                                                                  *)

Stamps == [value : Statuses, height : Nat]

Infos == [kind : {"Known", "Unknown", "UnknownConfirmed"}, spend : SUBSET Outputs]

Records == [info : Infos, status : Seq(Stamps)]

Tables == UNION {[S -> Records] : S \in SUBSET Bundles}

Dbs ==
    [ok : BOOLEAN, utxos : SUBSET Outputs, stxos : SUBSET Outputs, bundles : Tables,
     pending : Bundles \cup {None}, latest_failed : Seq([value : Bundles, height : Nat]),
     deposit_blocks : Seq(Nat), bundle_blocks : Seq(Nat)]

(* The statuses that may follow a in the stack of a bundle of this chain.  *)
(* Pending can follow a failure: the same outputs are collected again at   *)
(* the same height.                                                        *)
Follows(a) ==
    CASE a = "Pending"             -> {"Pending", "Submitted"}
      [] a = "Submitted"           -> {"Confirmed", "Failed"}
      [] a = "SubmittedUnexpected" -> {"Confirmed", "Failed", "Pending"}
      [] a = "Failed"              -> {"SubmittedUnexpected", "Pending"}
      [] OTHER                     -> {}

(* The stack of a bundle of this chain.                                    *)
LifeOK(status) ==
    /\ status[1].value = "Pending"
    /\ \A i \in 1..(Len(status) - 1) : status[i + 1].value \in Follows(status[i].value)

(* The record of bundle m.                                                 *)
RecordOK(m, r) ==
    /\ r \in Records
    /\ Len(r.status) > 0
    /\ r.info.kind = "Known" => m \in OwnBundles /\ r.info.spend = m.spend /\ LifeOK(r.status)
    /\ r.info.kind # "Known" => m \in UnknownBundles /\ r.info.spend \cap Withdrawals = {}

(* The bundles of table T that hold their outputs: submitted or paid.      *)
HoldsIn(T, m) ==
    T[m].info.kind = "Known" /\ T[m].status[Len(T[m].status)].value \in {"Submitted", "Confirmed"}

(* The withdrawals in S are divided among the bundles that hold outputs.   *)
Divided(T, S) ==
    /\ \A m \in DOMAIN T : HoldsIn(T, m) => T[m].info.spend \subseteq S
    /\ \A m1, m2 \in DOMAIN T :
          HoldsIn(T, m1) /\ HoldsIn(T, m2) /\ m1 # m2
              => T[m1].info.spend \cap T[m2].info.spend = {}
    /\ \A w \in Withdrawals \cap S : \E m \in DOMAIN T : HoldsIn(T, m) /\ w \in T[m].info.spend

(* The databases of a chain that created the outputs C.                    *)
PegOK(d, C) ==
    /\ d \in Dbs
    /\ d.utxos \cup d.stxos = C
    /\ d.utxos \cap d.stxos = {}
    /\ \A m \in DOMAIN d.bundles : RecordOK(m, d.bundles[m])
    /\ Divided(d.bundles, d.stxos)
    /\ d.pending # None =>
          /\ d.pending \in DOMAIN d.bundles
          /\ d.bundles[d.pending].info.kind = "Known"
          /\ Latest(d.bundles[d.pending].status).value = "Pending"

(* What the mainchain reports.                                             *)
PegEvents ==
    [kind : {"Deposit"}, id : Deposits]
        \cup [kind : {"Submitted", "Confirmed", "Failed"}, id : Bundles]

Blocks == [created : SUBSET Withdrawals, spent : SUBSET Deposits, events : Seq(PegEvents)]

(* The outputs that a block creates.                                       *)
Made(block) == block.created \cup DepositsIn(block.events)

(* Each block creates outputs that no block below it created.              *)
ChainOK(chain) ==
    /\ chain \in Seq(Blocks)
    /\ \A i, j \in 1..Len(chain) : j < i => Made(chain[i]) \cap Made(chain[j]) = {}

(* The inductive invariant.                                                *)
PInv ==
    /\ PegOK(db, Created(blocks)) /\ db.ok
    /\ ChainOK(blocks)
    /\ Len(before) = Len(blocks)
    /\ before \in Seq(Dbs)
    /\ scope \in Scope

-----------------------------------------------------------------------------
(* The databases, field by field.                                          *)

(* Tables T and U differ at most in bundle m.                              *)
Changed(T, U, m) ==
    /\ DOMAIN U \ {m} = DOMAIN T \ {m}
    /\ \A x \in DOMAIN T \ {m} : U[x] = T[x]

(* A table maps bundles to records.                                        *)
LEMMA TableType ==
    ASSUME NEW T \in Tables
    PROVE  DOMAIN T \subseteq Bundles /\ T \in [DOMAIN T -> Records]
<1>1. PICK S \in SUBSET Bundles : T \in [S -> Records]
  BY DEF Tables
<1> QED
  BY <1>1

(* Writing the record of a bundle.                                         *)
LEMMA PutTable ==
    ASSUME NEW T \in Tables, NEW m \in Bundles, NEW r \in Records,
           NEW U, U = [x \in DOMAIN T \cup {m} |-> IF x = m THEN r ELSE T[x]]
    PROVE  /\ U \in Tables
           /\ DOMAIN U = DOMAIN T \cup {m}
           /\ U[m] = r
           /\ Changed(T, U, m)
<1>1. DOMAIN T \subseteq Bundles /\ T \in [DOMAIN T -> Records]
  BY TableType
<1>2. U \in [DOMAIN T \cup {m} -> Records] /\ DOMAIN T \cup {m} \in SUBSET Bundles
  BY <1>1
<1> QED
  BY <1>2 DEF Tables, Changed

(* Removing the record of a bundle.                                        *)
LEMMA DropTable ==
    ASSUME NEW T \in Tables, NEW m, NEW U, U = [x \in DOMAIN T \ {m} |-> T[x]]
    PROVE  /\ U \in Tables
           /\ DOMAIN U = DOMAIN T \ {m}
           /\ Changed(T, U, m)
<1>1. DOMAIN T \subseteq Bundles /\ T \in [DOMAIN T -> Records]
  BY TableType
<1>2. U \in [DOMAIN T \ {m} -> Records] /\ DOMAIN T \ {m} \in SUBSET Bundles
  BY <1>1
<1> QED
  BY <1>2 DEF Tables, Changed

(* Databases d and r agree outside the bundle table.                       *)
SameOutputs(d, r) ==
    r.ok = d.ok /\ r.utxos = d.utxos /\ r.stxos = d.stxos /\ r.pending = d.pending
        /\ r.latest_failed = d.latest_failed
        /\ r.deposit_blocks = d.deposit_blocks /\ r.bundle_blocks = d.bundle_blocks

(* Replacing the bundle table.                                             *)
LEMMA TableDb ==
    ASSUME NEW d \in Dbs, NEW T \in Tables, NEW r, r = [d EXCEPT !.bundles = T]
    PROVE  r \in Dbs /\ r.bundles = T /\ SameOutputs(d, r)
  BY DEF Dbs, SameOutputs

(* Fields of the databases.                                                *)
LEMMA DbFields ==
    ASSUME NEW d \in Dbs
    PROVE  /\ d.ok \in BOOLEAN /\ d.utxos \subseteq Outputs /\ d.stxos \subseteq Outputs
           /\ d.bundles \in Tables /\ d.pending \in Bundles \cup {None}
           /\ d.latest_failed \in Seq([value : Bundles, height : Nat])
           /\ d.deposit_blocks \in Seq(Nat) /\ d.bundle_blocks \in Seq(Nat)
  BY DEF Dbs

(* PutBundle writes one record.                                            *)
LEMMA PutBundleFacts ==
    ASSUME NEW d \in Dbs, NEW m \in Bundles, NEW info \in Infos, NEW status \in Seq(Stamps),
           NEW r, r = PutBundle(d, m, info, status)
    PROVE  /\ r \in Dbs /\ r.bundles \in Tables
           /\ DOMAIN r.bundles = DOMAIN d.bundles \cup {m}
           /\ r.bundles[m] = [info |-> info, status |-> status]
           /\ r.bundles[m] \in Records
           /\ Changed(d.bundles, r.bundles, m)
           /\ SameOutputs(d, r)
<1> DEFINE rec == [info |-> info, status |-> status]
           T == d.bundles
           U == [x \in DOMAIN T \cup {m} |-> IF x = m THEN rec ELSE T[x]]
<1>1. rec \in Records /\ T \in Tables
  BY DbFields DEF Records
<1>2. r = [d EXCEPT !.bundles = U]
  BY DEF PutBundle
<1> HIDE DEF rec, T
<1>3. U \in Tables /\ DOMAIN U = DOMAIN T \cup {m} /\ U[m] = rec /\ Changed(T, U, m)
  BY ZenonT(60), <1>1, PutTable
<1> HIDE DEF U
<1>4. r \in Dbs /\ r.bundles = U /\ SameOutputs(d, r)
  BY <1>2, <1>3, TableDb
<1> QED
  BY <1>1, <1>3, <1>4 DEF T, rec

(* DeleteBundle removes one record.                                        *)
LEMMA DeleteBundleFacts ==
    ASSUME NEW d \in Dbs, NEW m, NEW r, r = DeleteBundle(d, m)
    PROVE  /\ r \in Dbs /\ r.bundles \in Tables
           /\ DOMAIN r.bundles = DOMAIN d.bundles \ {m}
           /\ Changed(d.bundles, r.bundles, m)
           /\ SameOutputs(d, r)
<1> DEFINE T == d.bundles
           U == [x \in DOMAIN T \ {m} |-> T[x]]
<1>1. T \in Tables
  BY DbFields
<1>2. r = [d EXCEPT !.bundles = U]
  BY DEF DeleteBundle
<1> HIDE DEF T
<1>3. U \in Tables /\ DOMAIN U = DOMAIN T \ {m} /\ Changed(T, U, m)
  BY <1>1, DropTable
<1> HIDE DEF U
<1>4. r \in Dbs /\ r.bundles = U /\ SameOutputs(d, r)
  BY <1>2, <1>3, TableDb
<1> QED
  BY <1>3, <1>4 DEF T

(* The stack of a record.                                                  *)
LEMMA RecordFields ==
    ASSUME NEW m, NEW b, RecordOK(m, b)
    PROVE  /\ b.info \in Infos /\ b.status \in Seq(Stamps)
           /\ b.info.kind \in {"Known", "Unknown", "UnknownConfirmed"}
           /\ b.info.spend \subseteq Outputs
           /\ Len(b.status) \in Nat /\ Len(b.status) > 0
           /\ m \in Bundles
           /\ Latest(b.status) = b.status[Len(b.status)]
           /\ Latest(b.status) \in Stamps
           /\ \A i \in 1..Len(b.status) : b.status[i] \in Stamps
<1>1. b \in Records /\ Len(b.status) > 0 /\ m \in Bundles
  BY DEF RecordOK, Bundles
<1>2. b.info \in Infos /\ b.status \in Seq(Stamps)
  BY <1>1 DEF Records
<1>3. b.info.kind \in {"Known", "Unknown", "UnknownConfirmed"} /\ b.info.spend \subseteq Outputs
  BY <1>2 DEF Infos
<1>4. \A i \in 1..Len(b.status) : b.status[i] \in Stamps
  BY <1>2, ElementOfSeq
<1>5. Len(b.status) \in 1..Len(b.status) /\ Len(b.status) \in Nat
  BY <1>1, <1>2
<1> QED
  BY <1>1, <1>2, <1>3, <1>4, <1>5 DEF Latest

(* The stack without its last status.                                      *)
LEMMA FrontFacts ==
    ASSUME NEW S, NEW s \in Seq(S), Len(s) > 0
    PROVE  /\ Front(s) \in Seq(S) /\ Len(Front(s)) = Len(s) - 1
           /\ \A i \in 1..(Len(s) - 1) : Front(s)[i] = s[i]
<1> DEFINE k == Len(s) - 1
<1>1. k \in 0..Len(s) /\ Front(s) = SubSeq(s, 1, k)
  BY DEF Front
<1> HIDE DEF k
<1>2. Front(s) \in Seq(S) /\ Len(Front(s)) = k /\ \A i \in 1..k : Front(s)[i] = s[i]
  BY <1>1, Loop!PrefixFacts
<1> QED
  BY <1>2 DEF k

(* PopStatus drops the last status, and the record with the last one.      *)
LEMMA PopStatusFacts ==
    ASSUME NEW d \in Dbs, NEW m \in DOMAIN d.bundles, RecordOK(m, d.bundles[m]),
           NEW r, r = PopStatus(d, m)
    PROVE  /\ r \in Dbs /\ r.bundles \in Tables
           /\ Changed(d.bundles, r.bundles, m)
           /\ SameOutputs(d, r)
           /\ Len(d.bundles[m].status) = 1 => m \notin DOMAIN r.bundles
           /\ Len(d.bundles[m].status) > 1 =>
                 /\ m \in DOMAIN r.bundles
                 /\ r.bundles[m] \in Records
                 /\ r.bundles[m].info = d.bundles[m].info
                 /\ r.bundles[m].status = Front(d.bundles[m].status)
<1> DEFINE b == d.bundles[m]
<1>1. b.info \in Infos /\ b.status \in Seq(Stamps) /\ Len(b.status) \in Nat /\ Len(b.status) > 0 /\ m \in Bundles
  BY RecordFields
<1>2. CASE Len(b.status) = 1
  <2>1. r = DeleteBundle(d, m)
    BY <1>2 DEF PopStatus
  <2> QED
    BY <1>2, <2>1, DeleteBundleFacts
<1>3. CASE Len(b.status) # 1
  <2>1. r = PutBundle(d, m, b.info, Front(b.status)) /\ Front(b.status) \in Seq(Stamps)
    BY <1>1, <1>3, FrontFacts DEF PopStatus
  <2>2. /\ r \in Dbs /\ r.bundles \in Tables
        /\ DOMAIN r.bundles = DOMAIN d.bundles \cup {m}
        /\ r.bundles[m] = [info |-> b.info, status |-> Front(b.status)]
        /\ r.bundles[m] \in Records
        /\ Changed(d.bundles, r.bundles, m)
        /\ SameOutputs(d, r)
    <3> HIDE DEF b
    <3> QED
      BY <1>1, <2>1, PutBundleFacts
  <2> QED
    BY <1>3, <2>2
<1> QED
  BY <1>2, <1>3

(* Moving outputs between utxos and stxos.                                 *)
LEMMA SpendFacts ==
    ASSUME NEW d \in Dbs, NEW outs, outs \subseteq Outputs
    PROVE  /\ Spend(d, outs) \in Dbs
           /\ Spend(d, outs).utxos = d.utxos \ outs /\ Spend(d, outs).stxos = d.stxos \cup outs
           /\ Spend(d, outs).ok = d.ok /\ Spend(d, outs).bundles = d.bundles
           /\ Spend(d, outs).pending = d.pending
           /\ Spend(d, outs).latest_failed = d.latest_failed
           /\ Spend(d, outs).deposit_blocks = d.deposit_blocks
           /\ Spend(d, outs).bundle_blocks = d.bundle_blocks
  BY DEF Dbs, Spend

(* ... and back.                                                           *)
LEMMA UnspendFacts ==
    ASSUME NEW d \in Dbs, NEW outs, outs \subseteq Outputs
    PROVE  /\ Unspend(d, outs) \in Dbs
           /\ Unspend(d, outs).utxos = d.utxos \cup outs /\ Unspend(d, outs).stxos = d.stxos \ outs
           /\ Unspend(d, outs).ok = d.ok /\ Unspend(d, outs).bundles = d.bundles
           /\ Unspend(d, outs).pending = d.pending
           /\ Unspend(d, outs).latest_failed = d.latest_failed
           /\ Unspend(d, outs).deposit_blocks = d.deposit_blocks
           /\ Unspend(d, outs).bundle_blocks = d.bundle_blocks
  BY DEF Dbs, Unspend

(* Setting the pending slot.                                               *)
LEMMA PendingFacts ==
    ASSUME NEW d \in Dbs, NEW p \in Bundles \cup {None}, NEW r, r = [d EXCEPT !.pending = p]
    PROVE  /\ r \in Dbs /\ r.utxos = d.utxos /\ r.stxos = d.stxos /\ r.bundles = d.bundles
           /\ r.ok = d.ok /\ r.pending = p /\ r.latest_failed = d.latest_failed
           /\ r.deposit_blocks = d.deposit_blocks /\ r.bundle_blocks = d.bundle_blocks
  BY DEF Dbs

(* Noting a failure.                                                       *)
LEMMA FailedFacts ==
    ASSUME NEW d \in Dbs, NEW s \in Seq([value : Bundles, height : Nat]),
           NEW r, r = [d EXCEPT !.latest_failed = s]
    PROVE  /\ r \in Dbs /\ r.utxos = d.utxos /\ r.stxos = d.stxos /\ r.bundles = d.bundles
           /\ r.ok = d.ok /\ r.pending = d.pending
  BY DEF Dbs

(* A handler that reports an error says so.                                *)
LEMMA FailFacts ==
    ASSUME NEW d \in Dbs
    PROVE  ~Fail(d).ok
  BY DEF Dbs, Fail

-----------------------------------------------------------------------------
(* Stacks.                                                                 *)

(* Two statuses in a row.                                                  *)
LEMMA LifeStep ==
    ASSUME NEW s \in Seq(Stamps), LifeOK(s), Len(s) > 1
    PROVE  /\ s[Len(s)].value \in Follows(s[Len(s) - 1].value)
           /\ s[Len(s) - 1] \in Stamps
<1> DEFINE k == Len(s) - 1
<1>1. k \in 1..(Len(s) - 1) /\ k + 1 = Len(s) /\ k \in 1..Len(s)
  OBVIOUS
<1>2. \A i \in 1..Len(s) : s[i] \in Stamps
  BY ElementOfSeq
<1> HIDE DEF k
<1>3. s[k + 1].value \in Follows(s[k].value)
  BY <1>1 DEF LifeOK
<1> QED
  BY <1>1, <1>2, <1>3 DEF k

(* A status that may follow the last one.                                  *)
LEMMA LifeAppend ==
    ASSUME NEW s \in Seq(Stamps), Len(s) > 0, LifeOK(s), NEW e \in Stamps,
           e.value \in Follows(s[Len(s)].value)
    PROVE  LifeOK(Append(s, e))
<1> DEFINE g == Append(s, e)
<1>1. /\ Len(g) = Len(s) + 1 /\ \A i \in 1..Len(s) : g[i] = s[i]
      /\ g[Len(s) + 1] = e
  BY Loop!AppendFacts
<1> HIDE DEF g
<1>2. g[1].value = "Pending"
  <2>1. 1 \in 1..Len(s)
    OBVIOUS
  <2> QED
    BY <1>1, <2>1 DEF LifeOK
<1>3. ASSUME NEW i \in 1..(Len(g) - 1) PROVE g[i + 1].value \in Follows(g[i].value)
  <2>1. CASE i = Len(s)
    BY <1>1, <2>1
  <2>2. CASE i # Len(s)
    <3>1. i \in 1..(Len(s) - 1) /\ i \in 1..Len(s) /\ i + 1 \in 1..Len(s)
      BY <1>1, <2>2
    <3> QED
      BY <1>1, <3>1 DEF LifeOK
  <2> QED
    BY <2>1, <2>2
<1> QED
  BY <1>2, <1>3 DEF LifeOK, g

(* A prefix of a stack.                                                    *)
LEMMA LifeFront ==
    ASSUME NEW s \in Seq(Stamps), Len(s) > 1, LifeOK(s)
    PROVE  LifeOK(Front(s))
<1> DEFINE g == Front(s)
<1>1. Len(g) = Len(s) - 1 /\ \A i \in 1..(Len(s) - 1) : g[i] = s[i]
  BY FrontFacts
<1> HIDE DEF g
<1>2. g[1].value = "Pending"
  <2>1. 1 \in 1..(Len(s) - 1)
    OBVIOUS
  <2> QED
    BY <1>1, <2>1 DEF LifeOK
<1>3. ASSUME NEW i \in 1..(Len(g) - 1) PROVE g[i + 1].value \in Follows(g[i].value)
  <2>1. i \in 1..(Len(s) - 1) /\ i + 1 \in 1..(Len(s) - 1)
    BY <1>1
  <2> QED
    BY <1>1, <2>1 DEF LifeOK
<1> QED
  BY <1>2, <1>3 DEF LifeOK, g

(* The first status of a bundle of this chain is Pending.                  *)
LEMMA LifeFirst ==
    ASSUME NEW s \in Seq(Stamps), Len(s) > 0, LifeOK(s), s[Len(s)].value # "Pending"
    PROVE  Len(s) > 1
  BY DEF LifeOK

(* The record with one more status.                                        *)
LEMMA RecordAppend ==
    ASSUME NEW m, NEW b, RecordOK(m, b), NEW e \in Stamps,
           b.info.kind = "Known" => e.value \in Follows(Latest(b.status).value),
           NEW r, r = [info |-> b.info, status |-> Append(b.status, e)]
    PROVE  /\ RecordOK(m, r) /\ Append(b.status, e) \in Seq(Stamps)
           /\ r.status[Len(r.status)] = e
<1>1. /\ b.info \in Infos /\ b.status \in Seq(Stamps) /\ Len(b.status) \in Nat
      /\ Len(b.status) > 0 /\ Latest(b.status) = b.status[Len(b.status)]
  BY RecordFields
<1>2. /\ r.status \in Seq(Stamps) /\ Len(r.status) = Len(b.status) + 1
      /\ r.status[Len(b.status) + 1] = e
      /\ Append(b.status, e) \in Seq(Stamps)
  BY <1>1, Loop!AppendFacts
<1>3. b.info.kind = "Known" => LifeOK(r.status)
  BY <1>1, LifeAppend DEF RecordOK
<1>4. r \in Records
  BY <1>1, <1>2 DEF Records
<1> QED
  BY <1>1, <1>2, <1>3, <1>4 DEF RecordOK

(* The record without its last status.                                     *)
LEMMA RecordPop ==
    ASSUME NEW m, NEW b, RecordOK(m, b), Len(b.status) > 1,
           NEW r \in Records, r.info = b.info, r.status = Front(b.status)
    PROVE  /\ RecordOK(m, r)
           /\ r.status[Len(r.status)] = b.status[Len(b.status) - 1]
           /\ b.info.kind = "Known" =>
                 b.status[Len(b.status)].value \in Follows(r.status[Len(r.status)].value)
<1>1. b.status \in Seq(Stamps) /\ Len(b.status) \in Nat
  BY RecordFields
<1>2. /\ Len(r.status) = Len(b.status) - 1
      /\ \A i \in 1..(Len(b.status) - 1) : r.status[i] = b.status[i]
  BY <1>1, FrontFacts
<1>3. Len(b.status) - 1 \in 1..(Len(b.status) - 1)
  BY <1>1
<1>4. r.status[Len(r.status)] = b.status[Len(b.status) - 1]
  BY <1>2, <1>3
<1>5. b.info.kind = "Known" =>
         /\ LifeOK(r.status)
         /\ b.status[Len(b.status)].value \in Follows(b.status[Len(b.status) - 1].value)
  BY <1>1, LifeFront, LifeStep DEF RecordOK
<1>6. Len(r.status) > 0
  BY <1>1, <1>2
<1> QED
  BY <1>4, <1>5, <1>6 DEF RecordOK

-----------------------------------------------------------------------------
(* Who holds the spent withdrawals.                                        *)

(* Bundle m has a record in T that holds its outputs.                      *)
Holder(T, m) == m \in DOMAIN T /\ HoldsIn(T, m)

(* Other bundles hold what they held.                                      *)
LEMMA OthersHold ==
    ASSUME NEW T, NEW U, NEW m, Changed(T, U, m), NEW x, x # m
    PROVE  /\ Holder(U, x) <=> Holder(T, x)
           /\ x \in DOMAIN T => U[x] = T[x] /\ x \in DOMAIN U
<1>1. x \in DOMAIN T <=> x \in DOMAIN U
  BY DEF Changed
<1>2. x \in DOMAIN T => U[x] = T[x]
  BY DEF Changed
<1> QED
  BY <1>1, <1>2 DEF Holder, HoldsIn

(* Divided, for the holders.                                               *)
LEMMA DividedHolders ==
    ASSUME NEW T, NEW S
    PROVE  Divided(T, S) <=>
              /\ \A m : Holder(T, m) => T[m].info.spend \subseteq S
              /\ \A m1, m2 : Holder(T, m1) /\ Holder(T, m2) /\ m1 # m2
                    => T[m1].info.spend \cap T[m2].info.spend = {}
              /\ \A w \in Withdrawals \cap S : \E m : Holder(T, m) /\ w \in T[m].info.spend
  BY DEF Divided, Holder

(* A step that leaves it as it was whether m holds its outputs.            *)
LEMMA DividedSame ==
    ASSUME NEW T, NEW U, NEW m, NEW S, Changed(T, U, m), Divided(T, S),
           Holder(U, m) <=> Holder(T, m),
           Holder(T, m) => U[m].info.spend = T[m].info.spend
    PROVE  Divided(U, S)
<1>1. \A x : (Holder(U, x) <=> Holder(T, x)) /\ (Holder(T, x) => U[x].info.spend = T[x].info.spend)
  <2> SUFFICES ASSUME NEW x
               PROVE  (Holder(U, x) <=> Holder(T, x))
                      /\ (Holder(T, x) => U[x].info.spend = T[x].info.spend)
    OBVIOUS
  <2>1. CASE x = m
    BY <2>1
  <2>2. CASE x # m
    BY <2>2, OthersHold DEF Holder
  <2> QED
    BY <2>1, <2>2
<1>2. /\ \A x : Holder(T, x) => T[x].info.spend \subseteq S
      /\ \A m1, m2 : Holder(T, m1) /\ Holder(T, m2) /\ m1 # m2
            => T[m1].info.spend \cap T[m2].info.spend = {}
      /\ \A w \in Withdrawals \cap S : \E x : Holder(T, x) /\ w \in T[x].info.spend
  BY DividedHolders
<1>3. \A x : Holder(U, x) => U[x].info.spend \subseteq S
  BY <1>1, <1>2
<1>4. \A m1, m2 : Holder(U, m1) /\ Holder(U, m2) /\ m1 # m2
            => U[m1].info.spend \cap U[m2].info.spend = {}
  BY <1>1, <1>2
<1>5. \A w \in Withdrawals \cap S : \E x : Holder(U, x) /\ w \in U[x].info.spend
  BY <1>1, <1>2
<1> QED
  BY <1>3, <1>4, <1>5, DividedHolders

(* m starts to hold outputs that were not spent.                           *)
LEMMA DividedTake ==
    ASSUME NEW T, NEW U, NEW m, NEW S, Changed(T, U, m), Divided(T, S),
           ~Holder(T, m), Holder(U, m), U[m].info.spend \cap S = {}
    PROVE  Divided(U, S \cup U[m].info.spend)
<1> DEFINE R == S \cup U[m].info.spend
<1>1. \A x : x # m => (Holder(U, x) <=> Holder(T, x)) /\ (Holder(T, x) => U[x] = T[x])
  BY OthersHold DEF Holder
<1>2. /\ \A x : Holder(T, x) => T[x].info.spend \subseteq S
      /\ \A m1, m2 : Holder(T, m1) /\ Holder(T, m2) /\ m1 # m2
            => T[m1].info.spend \cap T[m2].info.spend = {}
      /\ \A w \in Withdrawals \cap S : \E x : Holder(T, x) /\ w \in T[x].info.spend
  BY DividedHolders
<1>3. \A x : Holder(U, x) => U[x].info.spend \subseteq R
  BY <1>1, <1>2
<1>4. \A m1, m2 : Holder(U, m1) /\ Holder(U, m2) /\ m1 # m2
            => U[m1].info.spend \cap U[m2].info.spend = {}
  <2> SUFFICES ASSUME NEW m1, NEW m2, Holder(U, m1), Holder(U, m2), m1 # m2
               PROVE  U[m1].info.spend \cap U[m2].info.spend = {}
    OBVIOUS
  <2>1. CASE m1 = m
    <3>1. U[m2].info.spend \subseteq S
      BY <1>1, <1>2, <2>1
    <3> QED
      BY <2>1, <3>1
  <2>2. CASE m2 = m
    <3>1. U[m1].info.spend \subseteq S
      BY <1>1, <1>2, <2>2
    <3> QED
      BY <2>2, <3>1
  <2>3. CASE m1 # m /\ m2 # m
    BY <1>1, <1>2, <2>3
  <2> QED
    BY <2>1, <2>2, <2>3
<1>5. \A w \in Withdrawals \cap R : \E x : Holder(U, x) /\ w \in U[x].info.spend
  <2> SUFFICES ASSUME NEW w \in Withdrawals, w \in R
               PROVE  \E x : Holder(U, x) /\ w \in U[x].info.spend
    OBVIOUS
  <2>1. CASE w \in U[m].info.spend
    BY <2>1
  <2>2. CASE w \in S
    <3>1. PICK x : Holder(T, x) /\ w \in T[x].info.spend
      BY <1>2, <2>2
    <3> QED
      BY <1>1, <3>1
  <2> QED
    BY <2>1, <2>2
<1> HIDE DEF R
<1>6. Divided(U, R)
  BY <1>3, <1>4, <1>5, DividedHolders
<1> QED
  BY <1>6 DEF R

(* m gives its outputs back.                                               *)
LEMMA DividedGive ==
    ASSUME NEW T, NEW U, NEW m, NEW S, Changed(T, U, m), Divided(T, S),
           Holder(T, m), ~Holder(U, m)
    PROVE  Divided(U, S \ T[m].info.spend)
<1> DEFINE R == S \ T[m].info.spend
<1>1. \A x : x # m => (Holder(U, x) <=> Holder(T, x)) /\ (Holder(T, x) => U[x] = T[x])
  BY OthersHold DEF Holder
<1>2. /\ \A x : Holder(T, x) => T[x].info.spend \subseteq S
      /\ \A m1, m2 : Holder(T, m1) /\ Holder(T, m2) /\ m1 # m2
            => T[m1].info.spend \cap T[m2].info.spend = {}
      /\ \A w \in Withdrawals \cap S : \E x : Holder(T, x) /\ w \in T[x].info.spend
  BY DividedHolders
<1>3. ASSUME NEW x, Holder(U, x) PROVE U[x].info.spend \subseteq R
  <2>1. x # m /\ Holder(T, x) /\ U[x] = T[x]
    BY <1>1, <1>3
  <2>2. T[x].info.spend \subseteq S /\ T[x].info.spend \cap T[m].info.spend = {}
    BY <1>2, <2>1
  <2> QED
    BY <2>1, <2>2
<1>4. \A m1, m2 : Holder(U, m1) /\ Holder(U, m2) /\ m1 # m2
            => U[m1].info.spend \cap U[m2].info.spend = {}
  BY <1>1, <1>2
<1>5. \A w \in Withdrawals \cap R : \E x : Holder(U, x) /\ w \in U[x].info.spend
  <2> SUFFICES ASSUME NEW w \in Withdrawals, w \in S, w \notin T[m].info.spend
               PROVE  \E x : Holder(U, x) /\ w \in U[x].info.spend
    OBVIOUS
  <2>1. PICK x : Holder(T, x) /\ w \in T[x].info.spend
    BY <1>2
  <2>2. x # m
    BY <2>1
  <2> QED
    BY <1>1, <2>1, <2>2
<1> HIDE DEF R
<1>6. Divided(U, R)
  BY <1>3, <1>4, <1>5, DividedHolders
<1> QED
  BY <1>6 DEF R

(* Bundles hold withdrawals only.                                          *)
LEMMA HoldersSpend ==
    ASSUME NEW d, NEW C, PegOK(d, C), NEW m, Holder(d.bundles, m)
    PROVE  d.bundles[m].info.spend \subseteq Withdrawals
<1>1. RecordOK(m, d.bundles[m]) /\ d.bundles[m].info.kind = "Known"
  BY DEF PegOK, Holder, HoldsIn
<1>2. m \in OwnBundles /\ d.bundles[m].info.spend = m.spend
  BY <1>1 DEF RecordOK
<1> QED
  BY <1>2 DEF OwnBundles

(* Outputs other than withdrawals may be spent or not.                     *)
LEMMA DividedOther ==
    ASSUME NEW d, NEW C, PegOK(d, C), NEW R,
           \A w \in Withdrawals : w \in R <=> w \in d.stxos
    PROVE  Divided(d.bundles, R)
<1> DEFINE T == d.bundles
           S == d.stxos
<1>1. Divided(T, S) /\ \A m : Holder(T, m) => T[m].info.spend \subseteq Withdrawals
  BY HoldersSpend DEF PegOK
<1> HIDE DEF T, S
<1>2. /\ \A x : Holder(T, x) => T[x].info.spend \subseteq S
      /\ \A m1, m2 : Holder(T, m1) /\ Holder(T, m2) /\ m1 # m2
            => T[m1].info.spend \cap T[m2].info.spend = {}
      /\ \A w \in Withdrawals \cap S : \E x : Holder(T, x) /\ w \in T[x].info.spend
  BY <1>1, DividedHolders
<1>3. \A x : Holder(T, x) => T[x].info.spend \subseteq R
  BY <1>1, <1>2 DEF S
<1>4. \A w \in Withdrawals \cap R : \E x : Holder(T, x) /\ w \in T[x].info.spend
  BY <1>2 DEF S
<1>5. Divided(T, R)
  BY <1>2, <1>3, <1>4, DividedHolders
<1> QED
  BY <1>5 DEF T

(* A step that changes the record of one bundle.                           *)
LEMMA PegMove ==
    ASSUME NEW d, NEW C, PegOK(d, C), NEW r \in Dbs, NEW m, Changed(d.bundles, r.bundles, m),
           m \in DOMAIN r.bundles => RecordOK(m, r.bundles[m]),
           NEW D, r.utxos \cup r.stxos = D, r.utxos \cap r.stxos = {},
           Divided(r.bundles, r.stxos),
           \/ r.pending = None
           \/ r.pending = d.pending /\ r.pending # m
           \/ /\ r.pending = m /\ m \in DOMAIN r.bundles
              /\ r.bundles[m].info.kind = "Known"
              /\ r.bundles[m].status[Len(r.bundles[m].status)].value = "Pending"
    PROVE  PegOK(r, D)
<1>1. \A x \in DOMAIN r.bundles : RecordOK(x, r.bundles[x])
  <2> SUFFICES ASSUME NEW x \in DOMAIN r.bundles, x # m PROVE RecordOK(x, r.bundles[x])
    OBVIOUS
  <2>1. x \in DOMAIN d.bundles /\ r.bundles[x] = d.bundles[x]
    BY DEF Changed
  <2> QED
    BY <2>1 DEF PegOK
<1>2. r.pending # None =>
          /\ r.pending \in DOMAIN r.bundles
          /\ r.bundles[r.pending].info.kind = "Known"
          /\ Latest(r.bundles[r.pending].status).value = "Pending"
  <2>1. CASE r.pending = d.pending /\ r.pending # m /\ r.pending # None
    <3>1. /\ d.pending \in DOMAIN d.bundles
          /\ d.bundles[d.pending].info.kind = "Known"
          /\ Latest(d.bundles[d.pending].status).value = "Pending"
      BY <2>1 DEF PegOK
    <3>2. r.pending \in DOMAIN r.bundles /\ r.bundles[r.pending] = d.bundles[d.pending]
      BY <2>1, <3>1 DEF Changed
    <3> QED
      BY <2>1, <3>1, <3>2
  <2> QED
    BY <2>1 DEF Latest
<1> QED
  BY <1>1, <1>2 DEF PegOK

(* A step that changes neither the outputs nor the bundles.                *)
LEMMA PegSame ==
    ASSUME NEW d, NEW C, PegOK(d, C), NEW r \in Dbs, r.bundles = d.bundles,
           r.utxos = d.utxos, r.stxos = d.stxos, r.pending = d.pending
    PROVE  PegOK(r, C)
  BY DEF PegOK

-----------------------------------------------------------------------------
(* Connecting events.                                                      *)

(* A status with its height.                                               *)
LEMMA StampType ==
    ASSUME NEW v \in Statuses, NEW h \in Nat
    PROVE  Stamped(v, h) \in Stamps /\ Stamped(v, h).value = v
  BY DEF Stamped, Stamps

(* Whether a bundle holds its outputs depends on its last status.          *)
LEMMA HolderByStatus ==
    ASSUME NEW T, NEW m \in DOMAIN T
    PROVE  Holder(T, m) <=>
              /\ T[m].info.kind = "Known"
              /\ T[m].status[Len(T[m].status)].value \in {"Submitted", "Confirmed"}
  BY DEF Holder, HoldsIn

(* A status is added to a bundle of d, the outputs being those of x.       *)
LEMMA AppendMove ==
    ASSUME NEW d, NEW C, PegOK(d, C), NEW m \in DOMAIN d.bundles, NEW b, b = d.bundles[m],
           NEW x \in Dbs, x.bundles = d.bundles, NEW v \in Statuses, NEW height \in Nat,
           b.info.kind = "Known" => v \in Follows(Latest(b.status).value),
           NEW y, y = PutBundle(x, m, b.info, Append(b.status, Stamped(v, height)))
    PROVE  /\ y \in Dbs /\ SameOutputs(x, y)
           /\ DOMAIN y.bundles = DOMAIN d.bundles /\ Changed(d.bundles, y.bundles, m)
           /\ RecordOK(m, y.bundles[m]) /\ y.bundles[m].info = b.info
           /\ Holder(y.bundles, m) <=> b.info.kind = "Known" /\ v \in {"Submitted", "Confirmed"}
<1>1. RecordOK(m, b)
  BY DEF PegOK
<1>2. PICK e \in Stamps : e = Stamped(v, height) /\ e.value = v
  BY StampType
<1>3. PICK s : s = Append(b.status, e)
  OBVIOUS
<1>4. PICK z : z = [info |-> b.info, status |-> s]
  OBVIOUS
<1>5. RecordOK(m, z) /\ s \in Seq(Stamps) /\ z.status[Len(z.status)] = e
  <2>1. /\ b.info.kind = "Known" => e.value \in Follows(Latest(b.status).value)
        /\ z = [info |-> b.info, status |-> Append(b.status, e)]
    BY <1>2, <1>3, <1>4
  <2>2. RecordOK(m, z) /\ Append(b.status, e) \in Seq(Stamps) /\ z.status[Len(z.status)] = e
    BY SMTT(30), <1>1, <2>1, RecordAppend
  <2> QED
    BY <1>3, <2>2
<1>6. m \in Bundles /\ b.info \in Infos
  BY <1>1, RecordFields
<1>7. PICK info \in Infos : info = b.info
  BY <1>6
<1>8. y = PutBundle(x, m, info, s) /\ z = [info |-> info, status |-> s]
  BY <1>2, <1>3, <1>4, <1>7
<1>9. /\ y \in Dbs /\ DOMAIN y.bundles = DOMAIN x.bundles \cup {m} /\ y.bundles[m] = z
      /\ Changed(x.bundles, y.bundles, m) /\ SameOutputs(x, y)
  BY <1>5, <1>6, <1>8, PutBundleFacts
<1>10. z.info = b.info
  BY <1>4
<1>11. Holder(y.bundles, m) <=> b.info.kind = "Known" /\ v \in {"Submitted", "Confirmed"}
  BY <1>2, <1>5, <1>9, <1>10, HolderByStatus
<1> QED
  BY <1>5, <1>9, <1>10, <1>11

(* y is x without the last status of bundle m, which has record b in d and *)
(* prev as the status before.                                              *)
Popped(d, x, y, m, b, prev) ==
    /\ y \in Dbs /\ SameOutputs(x, y)
    /\ Changed(d.bundles, y.bundles, m)
    /\ m \in DOMAIN y.bundles =>
          /\ Len(b.status) > 1
          /\ RecordOK(m, y.bundles[m]) /\ y.bundles[m].info = b.info
          /\ y.bundles[m].status[Len(y.bundles[m].status)].value = prev
          /\ b.info.kind = "Known" => b.status[Len(b.status)].value \in Follows(prev)
    /\ Len(b.status) > 1 => m \in DOMAIN y.bundles
    /\ Holder(y.bundles, m) <=>
          /\ Len(b.status) > 1 /\ b.info.kind = "Known"
          /\ prev \in {"Submitted", "Confirmed"}

(* The last status of a bundle of d is taken back, with the outputs of x.  *)
LEMMA PopMove ==
    ASSUME NEW d, NEW C, PegOK(d, C), NEW m \in DOMAIN d.bundles, NEW b, b = d.bundles[m],
           NEW x \in Dbs, x.bundles = d.bundles, NEW y, y = PopStatus(x, m),
           NEW prev, prev = b.status[Len(b.status) - 1].value
    PROVE  Popped(d, x, y, m, b, prev)
<1>1. RecordOK(m, b) /\ Len(b.status) \in Nat /\ Len(b.status) > 0
  BY RecordFields DEF PegOK
<1>2. /\ y \in Dbs /\ Changed(x.bundles, y.bundles, m) /\ SameOutputs(x, y)
      /\ Len(b.status) = 1 => m \notin DOMAIN y.bundles
      /\ Len(b.status) > 1 =>
            /\ m \in DOMAIN y.bundles /\ y.bundles[m] \in Records
            /\ y.bundles[m].info = b.info /\ y.bundles[m].status = Front(b.status)
  BY <1>1, PopStatusFacts
<1>3. CASE Len(b.status) = 1
  BY <1>2, <1>3 DEF Popped, Holder
<1>4. CASE Len(b.status) > 1
  <2>1. PICK z : z = y.bundles[m]
    OBVIOUS
  <2>2. z \in Records /\ z.info = b.info /\ z.status = Front(b.status) /\ m \in DOMAIN y.bundles
    BY <1>2, <1>4, <2>1
  <2>3. /\ RecordOK(m, z)
        /\ z.status[Len(z.status)] = b.status[Len(b.status) - 1]
        /\ b.info.kind = "Known" =>
              b.status[Len(b.status)].value \in Follows(z.status[Len(z.status)].value)
    BY <1>1, <1>4, <2>2, RecordPop
  <2>4. Holder(y.bundles, m) <=> b.info.kind = "Known" /\ prev \in {"Submitted", "Confirmed"}
    BY <2>1, <2>2, <2>3, HolderByStatus
  <2> QED
    BY <1>2, <1>4, <2>1, <2>2, <2>3, <2>4 DEF Popped
<1>5. Len(b.status) = 1 \/ Len(b.status) > 1
  <2>1. \A k \in Nat : k > 0 => k = 1 \/ k > 1
    OBVIOUS
  <2> QED
    BY <1>1, <2>1, Zenon
<1> QED
  BY <1>3, <1>4, <1>5, Zenon

(* A step that changes the record of a bundle that is not pending, moves   *)
(* no output and leaves it as it was whether the bundle holds any.         *)
LEMMA PegSettled ==
    ASSUME NEW d, NEW C, PegOK(d, C), NEW r \in Dbs, SameOutputs(d, r),
           NEW m, r.pending # m, Changed(d.bundles, r.bundles, m),
           m \in DOMAIN r.bundles => RecordOK(m, r.bundles[m]),
           Holder(r.bundles, m) <=> Holder(d.bundles, m),
           Holder(d.bundles, m) => r.bundles[m].info.spend = d.bundles[m].info.spend
    PROVE  PegOK(r, C)
<1>1. Divided(d.bundles, d.stxos)
  BY DEF PegOK
<1>2. Divided(r.bundles, d.stxos)
  BY <1>1, DividedSame
<1>3. /\ r.utxos \cup r.stxos = C /\ r.utxos \cap r.stxos = {}
      /\ r.pending = d.pending /\ r.stxos = d.stxos
  BY DEF PegOK, SameOutputs
<1>4. Divided(r.bundles, r.stxos)
  BY <1>2, <1>3
<1> QED
  BY <1>3, <1>4, PegMove

(* The pending bundle is submitted and spends its outputs; a failed bundle *)
(* is submitted again; a bundle nobody here knows is recorded.             *)
LEMMA SubmittedOK ==
    ASSUME NEW d, NEW C, PegOK(d, C), NEW m \in Bundles, NEW height \in Nat,
           m \in DOMAIN d.bundles \/ m \in UnknownBundles,
           NEW r, r = ConnectSubmitted(d, m, height), r.ok
    PROVE  PegOK(r, C) /\ DOMAIN d.bundles \subseteq DOMAIN r.bundles
<1> DEFINE T == d.bundles
           b == T[m]
           last == b.status[Len(b.status)].value
<1>1. d \in Dbs /\ ~Fail(d).ok /\ T \in Tables
  BY DbFields, FailFacts DEF PegOK
<1>2. m \in DOMAIN T => RecordOK(m, b) /\ Latest(b.status).value = last
  BY DEF PegOK, Latest
<1>3. m \in DOMAIN T =>
         /\ b.info \in Infos /\ b.status \in Seq(Stamps) /\ b.info.spend \subseteq Outputs
         /\ b.info.kind \in {"Known", "Unknown", "UnknownConfirmed"}
  BY <1>2, RecordFields
<1>4. CASE d.pending = m
  <2>1. m \in DOMAIN T /\ b.info.kind = "Known" /\ last = "Pending"
    BY <1>4, PegAssumption DEF PegOK, Latest
  <2>2. PICK x : x = Spend(d, b.info.spend)
    OBVIOUS
  <2>3. PICK y : y = PutBundle(x, m, b.info, Append(b.status, Stamped("Submitted", height)))
    OBVIOUS
  <2>4. b.info.spend \subseteq d.utxos /\ r = [y EXCEPT !.pending = None]
    BY <1>1, <1>4, <2>2, <2>3 DEF ConnectSubmitted
  <2>5. /\ x \in Dbs /\ x.utxos = d.utxos \ b.info.spend /\ x.stxos = d.stxos \cup b.info.spend
        /\ x.bundles = T
    BY <1>1, <1>3, <2>1, <2>2, SpendFacts
  <2>6. "Submitted" \in Statuses /\ "Submitted" \in Follows(Latest(b.status).value)
    BY <1>2, <2>1 DEF Follows, Statuses
  <2>7. /\ y \in Dbs /\ SameOutputs(x, y)
        /\ DOMAIN y.bundles = DOMAIN T /\ Changed(T, y.bundles, m)
        /\ RecordOK(m, y.bundles[m]) /\ y.bundles[m].info = b.info
        /\ Holder(y.bundles, m)
    BY <2>1, <2>3, <2>5, <2>6, AppendMove
  <2>8. /\ r \in Dbs /\ r.utxos = y.utxos /\ r.stxos = y.stxos /\ r.bundles = y.bundles
        /\ r.pending = None
    BY <2>4, <2>7, PendingFacts
  <2>9. r.utxos = d.utxos \ b.info.spend /\ r.stxos = d.stxos \cup b.info.spend
    BY <2>5, <2>7, <2>8 DEF SameOutputs
  <2>10. r.utxos \cup r.stxos = C /\ r.utxos \cap r.stxos = {}
    BY <2>4, <2>9 DEF PegOK
  <2>11. Divided(r.bundles, r.stxos)
    <3>1. ~Holder(T, m)
      BY <2>1, HolderByStatus
    <3>2. r.bundles[m].info.spend = b.info.spend /\ Holder(r.bundles, m)
      BY <2>7, <2>8
    <3>3. r.bundles[m].info.spend \cap d.stxos = {}
      BY <2>4, <3>2 DEF PegOK
    <3>4. Divided(T, d.stxos) /\ Changed(T, r.bundles, m)
      BY <2>7, <2>8 DEF PegOK
    <3>5. Divided(r.bundles, d.stxos \cup r.bundles[m].info.spend)
      <4> HIDE DEF T, b
      <4> QED
        BY <3>1, <3>2, <3>3, <3>4, DividedTake
    <3> QED
      BY <2>9, <3>2, <3>5
  <2>12. PegOK(r, C)
    BY <2>7, <2>8, <2>10, <2>11, PegMove
  <2> QED
    BY <2>7, <2>8, <2>12
<1>5. CASE d.pending # m /\ m \in DOMAIN T
  <2>1. last = "Failed"
        /\ r = PutBundle(d, m, b.info, Append(b.status, Stamped("SubmittedUnexpected", height)))
    BY <1>1, <1>2, <1>5 DEF ConnectSubmitted
  <2>2. "SubmittedUnexpected" \in Statuses
        /\ "SubmittedUnexpected" \in Follows(Latest(b.status).value)
    BY <1>2, <1>5, <2>1 DEF Follows, Statuses
  <2>3. /\ r \in Dbs /\ SameOutputs(d, r)
        /\ DOMAIN r.bundles = DOMAIN T /\ Changed(T, r.bundles, m)
        /\ RecordOK(m, r.bundles[m]) /\ ~Holder(r.bundles, m)
    BY <1>1, <1>5, <2>1, <2>2, AppendMove
  <2>4. ~Holder(T, m)
    BY <1>5, <2>1, HolderByStatus
  <2>5. PegOK(r, C)
    <3>1. r.pending # m
      BY <1>5, <2>3 DEF SameOutputs
    <3> QED
      BY <2>3, <2>4, <3>1, PegSettled
  <2> QED
    BY <2>3, <2>5
<1>6. CASE d.pending # m /\ m \notin DOMAIN T
  <2> DEFINE e == Stamped("Submitted", height)
  <2>1. r = PutBundle(d, m, Unknown, <<e>>) /\ m \in UnknownBundles
    BY <1>6 DEF ConnectSubmitted
  <2>2. e \in Stamps
    BY StampType DEF Statuses
  <2> HIDE DEF e
  <2>3. Unknown \in Infos /\ <<e>> \in Seq(Stamps) /\ Unknown.kind = "Unknown" /\ Unknown.spend = {}
    BY <2>2 DEF Unknown, Infos
  <2>4. /\ r \in Dbs /\ DOMAIN r.bundles = DOMAIN T \cup {m}
        /\ r.bundles[m] = [info |-> Unknown, status |-> <<e>>] /\ r.bundles[m] \in Records
        /\ Changed(T, r.bundles, m) /\ SameOutputs(d, r)
    <3>1. PICK info \in Infos, s \in Seq(Stamps) : info = Unknown /\ s = <<e>>
      BY <2>3
    <3>2. r = PutBundle(d, m, info, s)
      BY <2>1, <3>1
    <3>3. /\ r \in Dbs /\ DOMAIN r.bundles = DOMAIN T \cup {m}
          /\ r.bundles[m] = [info |-> info, status |-> s] /\ r.bundles[m] \in Records
          /\ Changed(T, r.bundles, m) /\ SameOutputs(d, r)
      BY <1>1, <3>2, PutBundleFacts
    <3> QED
      BY <3>1, <3>3
  <2>5. ~Holder(T, m) /\ ~Holder(r.bundles, m)
    BY <1>6, <2>3, <2>4 DEF Holder, HoldsIn
  <2>6. RecordOK(m, r.bundles[m]) /\ r.pending # m
    <3>1. r.bundles[m].info = Unknown /\ Len(r.bundles[m].status) > 0
      BY <2>4
    <3> QED
      BY <1>6, <2>1, <2>3, <2>4, <3>1 DEF RecordOK, SameOutputs
  <2>7. PegOK(r, C)
    BY <2>4, <2>5, <2>6, PegSettled
  <2> QED
    BY <2>4, <2>7
<1> QED
  BY <1>4, <1>5, <1>6

(* The pending bundle is one whose last status is Pending.                 *)
LEMMA NotPending ==
    ASSUME NEW d, NEW C, PegOK(d, C), NEW m \in DOMAIN d.bundles,
           Latest(d.bundles[m].status).value # "Pending"
    PROVE  d.pending # m
<1>1. m \in Bundles
  BY RecordFields DEF PegOK
<1> QED
  BY <1>1, PegAssumption DEF PegOK

(* A bundle that held nothing takes its outputs from the utxos.            *)
LEMMA PegTake ==
    ASSUME NEW d, NEW C, PegOK(d, C), NEW m \in DOMAIN d.bundles, NEW b, b = d.bundles[m],
           b.info.spend \subseteq d.utxos, ~Holder(d.bundles, m),
           NEW r \in Dbs, Changed(d.bundles, r.bundles, m), Holder(r.bundles, m),
           RecordOK(m, r.bundles[m]), r.bundles[m].info = b.info,
           r.utxos = d.utxos \ b.info.spend, r.stxos = d.stxos \cup b.info.spend,
           r.pending = None \/ (r.pending = d.pending /\ r.pending # m)
    PROVE  PegOK(r, C)
<1>1. r.utxos \cup r.stxos = C /\ r.utxos \cap r.stxos = {}
  BY DEF PegOK
<1>2. r.bundles[m].info.spend \cap d.stxos = {} /\ Divided(d.bundles, d.stxos)
  BY DEF PegOK
<1>3. Divided(r.bundles, d.stxos \cup r.bundles[m].info.spend)
  BY <1>2, DividedTake
<1>4. Divided(r.bundles, r.stxos)
  BY <1>3
<1> QED
  BY <1>1, <1>4, PegMove

(* A bundle gives its outputs back to the utxos.                           *)
LEMMA PegGive ==
    ASSUME NEW d, NEW C, PegOK(d, C), NEW m \in DOMAIN d.bundles, NEW b, b = d.bundles[m],
           Holder(d.bundles, m), NEW r \in Dbs, Changed(d.bundles, r.bundles, m),
           ~Holder(r.bundles, m), m \in DOMAIN r.bundles => RecordOK(m, r.bundles[m]),
           r.utxos = d.utxos \cup b.info.spend, r.stxos = d.stxos \ b.info.spend,
           \/ r.pending = d.pending /\ r.pending # m
           \/ /\ r.pending = m /\ m \in DOMAIN r.bundles
              /\ r.bundles[m].info.kind = "Known"
              /\ r.bundles[m].status[Len(r.bundles[m].status)].value = "Pending"
    PROVE  PegOK(r, C)
<1>1. b.info.spend \subseteq d.stxos /\ Divided(d.bundles, d.stxos)
  BY DEF PegOK, Divided, Holder
<1>2. r.utxos \cup r.stxos = C /\ r.utxos \cap r.stxos = {}
  BY <1>1 DEF PegOK
<1>3. Divided(r.bundles, d.stxos \ d.bundles[m].info.spend)
  BY <1>1, DividedGive
<1>4. Divided(r.bundles, r.stxos)
  BY <1>3
<1> QED
  BY ZenonT(60), <1>2, <1>4, PegMove

(* An expected bundle is confirmed; an unexpected one spends its outputs;  *)
(* an unknown one, in the genesis block, spends everything.                *)
LEMMA ConfirmedOK ==
    ASSUME NEW d, NEW C, PegOK(d, C), NEW m \in Bundles, NEW height \in Nat,
           height = 0 => C \cap Withdrawals = {},
           NEW r, r = ConnectConfirmed(d, m, height), r.ok
    PROVE  PegOK(r, C) /\ DOMAIN d.bundles \subseteq DOMAIN r.bundles
<1>1. d \in Dbs /\ ~Fail(d).ok
  BY FailFacts DEF PegOK
<1>2. m \in DOMAIN d.bundles
  BY <1>1 DEF ConnectConfirmed
<1>3. PICK b : b = d.bundles[m]
  OBVIOUS
<1>4. /\ RecordOK(m, b) /\ b.info \in Infos /\ b.status \in Seq(Stamps)
      /\ b.info.spend \subseteq Outputs
      /\ Latest(b.status) = b.status[Len(b.status)]
      /\ b.info.kind \in {"Known", "Unknown", "UnknownConfirmed"}
  BY <1>2, <1>3, RecordFields DEF PegOK
<1> DEFINE last == Latest(b.status).value
           st == Append(b.status, Stamped("Confirmed", height))
<1>5. CASE last = "Confirmed"
  <2>1. r = d
    BY <1>2, <1>3, <1>5 DEF ConnectConfirmed
  <2> QED
    BY <2>1
<1>6. CASE last # "Confirmed"
  <2>1. last \in SubmittedKinds
    BY <1>1, <1>2, <1>3, <1>6 DEF ConnectConfirmed
  <2>2. d.pending # m
    BY <1>2, <1>3, <2>1, NotPending DEF SubmittedKinds
  <2>3. Holder(d.bundles, m) <=> b.info.kind = "Known" /\ last = "Submitted"
    BY <1>2, <1>3, <1>4, <2>1, HolderByStatus DEF SubmittedKinds
  <2>4. "Confirmed" \in Statuses /\ "Confirmed" \in Follows(Latest(b.status).value)
    BY <2>1 DEF Follows, SubmittedKinds, Statuses
  <2>5. CASE b.info.kind = "Known" /\ last = "Submitted"
    <3>1. r = PutBundle(d, m, b.info, st)
      BY <1>2, <1>3, <1>6, <2>1, <2>5 DEF ConnectConfirmed
    <3>2. /\ r \in Dbs /\ SameOutputs(d, r)
          /\ DOMAIN r.bundles = DOMAIN d.bundles /\ Changed(d.bundles, r.bundles, m)
          /\ RecordOK(m, r.bundles[m]) /\ r.bundles[m].info = b.info
          /\ Holder(r.bundles, m)
      BY <1>1, <1>2, <1>3, <2>4, <2>5, <3>1, AppendMove
    <3>3. r.pending # m /\ r.bundles[m].info.spend = d.bundles[m].info.spend
      BY <1>3, <2>2, <3>2 DEF SameOutputs
    <3>4. PegOK(r, C)
      BY <2>3, <2>5, <3>2, <3>3, PegSettled
    <3> QED
      BY <3>2, <3>4
  <2>6. CASE b.info.kind = "Known" /\ last # "Submitted"
    <3>1. last = "SubmittedUnexpected"
      BY <2>1, <2>6 DEF SubmittedKinds
    <3>2. PICK x : x = Spend(d, b.info.spend)
      OBVIOUS
    <3>3. b.info.spend \subseteq d.utxos /\ r = PutBundle(x, m, b.info, st)
      BY <1>1, <1>2, <1>3, <1>6, <2>1, <2>6, <3>1, <3>2 DEF ConnectConfirmed
    <3>4. /\ x \in Dbs /\ x.utxos = d.utxos \ b.info.spend
          /\ x.stxos = d.stxos \cup b.info.spend
          /\ x.bundles = d.bundles /\ x.pending = d.pending
      BY <1>1, <1>4, <3>2, SpendFacts
    <3>5. /\ r \in Dbs /\ SameOutputs(x, r)
          /\ DOMAIN r.bundles = DOMAIN d.bundles /\ Changed(d.bundles, r.bundles, m)
          /\ RecordOK(m, r.bundles[m]) /\ r.bundles[m].info = b.info
          /\ Holder(r.bundles, m)
      BY <1>2, <1>3, <2>4, <2>6, <3>3, <3>4, AppendMove
    <3>6. /\ r.utxos = d.utxos \ b.info.spend /\ r.stxos = d.stxos \cup b.info.spend
          /\ r.pending = d.pending /\ r.pending # m
      BY SMTT(30), <2>2, <3>4, <3>5 DEF SameOutputs
    <3>7. PegOK(r, C)
      BY <1>2, <1>3, <2>3, <2>6, <3>3, <3>5, <3>6, PegTake
    <3> QED
      BY <3>5, <3>7
  <2>7. CASE b.info.kind # "Known"
    <3>1. PICK x : x = Spend(d, d.utxos)
      OBVIOUS
    <3>2. PICK info : info = UnknownConfirmed(d.utxos)
      OBVIOUS
    <3>3. height = 0 /\ r = PutBundle(x, m, info, st)
      BY <1>1, <1>2, <1>3, <1>4, <1>6, <2>1, <2>7, <3>1, <3>2 DEF ConnectConfirmed
    <3>4. d.utxos \subseteq Outputs
      BY <1>1, DbFields
    <3>5. /\ x \in Dbs /\ x.utxos = {} /\ x.stxos = d.stxos \cup d.utxos
          /\ x.bundles = d.bundles /\ x.pending = d.pending
      BY <1>1, <3>1, <3>4, SpendFacts
    <3>6. info \in Infos /\ info.kind = "UnknownConfirmed" /\ info.spend = d.utxos
      BY <3>2, <3>4 DEF UnknownConfirmed, Infos
    <3>7. PICK s \in Seq(Stamps) : s = st /\ Len(s) > 0
      <4>1. Stamped("Confirmed", height) \in Stamps
        BY <2>4, StampType
      <4>2. st \in Seq(Stamps) /\ Len(st) = Len(b.status) + 1 /\ Len(b.status) \in Nat
        BY <1>4, <4>1, Loop!AppendFacts
      <4>3. \A k \in Nat : k + 1 > 0
        OBVIOUS
      <4>4. Len(b.status) + 1 > 0
        BY <4>2, <4>3, Zenon
      <4>5. Len(st) > 0
        BY <4>2, <4>4, Zenon
      <4> HIDE DEF st
      <4> QED
        BY <4>2, <4>5
    <3>8. /\ r \in Dbs /\ DOMAIN r.bundles = DOMAIN d.bundles \cup {m}
          /\ r.bundles[m] = [info |-> info, status |-> s] /\ r.bundles[m] \in Records
          /\ Changed(d.bundles, r.bundles, m) /\ SameOutputs(x, r)
      <4>1. r = PutBundle(x, m, info, s)
        BY <3>3, <3>7
      <4>2. x \in Dbs /\ info \in Infos
        BY <3>5, <3>6
      <4>3. /\ r \in Dbs /\ DOMAIN r.bundles = DOMAIN x.bundles \cup {m}
            /\ r.bundles[m] = [info |-> info, status |-> s] /\ r.bundles[m] \in Records
            /\ Changed(x.bundles, r.bundles, m) /\ SameOutputs(x, r)
        BY <4>1, <4>2, PutBundleFacts
      <4> QED
        BY <3>5, <4>3
    <3>9. /\ r.utxos = {} /\ r.stxos = C /\ r.pending = d.pending /\ r.pending # m
          /\ r.utxos \cup r.stxos = C /\ r.utxos \cap r.stxos = {}
      BY <2>2, <3>5, <3>8 DEF SameOutputs, PegOK
    <3>10. RecordOK(m, r.bundles[m])
      <4>1. r.bundles[m].info = info /\ r.bundles[m].status = s
        BY <3>8
      <4>2. m \in UnknownBundles
        BY <1>4, <2>7 DEF RecordOK
      <4>3. info.spend \cap Withdrawals = {}
        BY <3>3, <3>6 DEF PegOK
      <4> QED
        BY <3>6, <3>7, <3>8, <4>1, <4>2, <4>3 DEF RecordOK
    <3>11. Divided(r.bundles, r.stxos)
      <4>1. \A w \in Withdrawals : w \in C <=> w \in d.stxos
        BY <3>3 DEF PegOK
      <4>2. Divided(d.bundles, C)
        BY <4>1, DividedOther
      <4>3. ~Holder(d.bundles, m) /\ ~Holder(r.bundles, m)
        BY <2>3, <2>7, <3>6, <3>8 DEF Holder, HoldsIn
      <4>4. Divided(r.bundles, C)
        BY <3>8, <4>2, <4>3, DividedSame
      <4> QED
        BY <3>9, <4>4
    <3>12. PegOK(r, C)
      BY <3>8, <3>9, <3>10, <3>11, PegMove
    <3> QED
      BY <3>8, <3>12
  <2> QED
    BY <2>5, <2>6, <2>7
<1> QED
  BY <1>5, <1>6

(* A bundle fails; an expected one gives its outputs back.                 *)
LEMMA FailedOK ==
    ASSUME NEW d, NEW C, PegOK(d, C), NEW m \in Bundles, NEW height \in Nat,
           NEW r, r = ConnectFailed(d, m, height), r.ok
    PROVE  PegOK(r, C) /\ DOMAIN d.bundles \subseteq DOMAIN r.bundles
<1>1. d \in Dbs /\ ~Fail(d).ok
  BY SMTT(30), FailFacts DEF PegOK
<1>2. m \in DOMAIN d.bundles
  BY <1>1 DEF ConnectFailed
<1>3. PICK b : b = d.bundles[m]
  OBVIOUS
<1>4. /\ RecordOK(m, b) /\ b.info \in Infos /\ b.status \in Seq(Stamps)
      /\ b.info.spend \subseteq Outputs
      /\ Latest(b.status) = b.status[Len(b.status)]
  BY <1>2, <1>3, RecordFields DEF PegOK
<1> DEFINE last == Latest(b.status).value
           st == Append(b.status, Stamped("Failed", height))
<1>5. CASE last = "Failed"
  <2>1. r = d
    BY <1>2, <1>3, <1>5 DEF ConnectFailed
  <2> QED
    BY <2>1
<1>6. CASE last # "Failed"
  <2>1. last \in SubmittedKinds
    BY <1>1, <1>2, <1>3, <1>6 DEF ConnectFailed
  <2>2. d.pending # m
    BY <1>2, <1>3, <2>1, NotPending DEF SubmittedKinds
  <2>3. Holder(d.bundles, m) <=> b.info.kind = "Known" /\ last = "Submitted"
    BY <1>2, <1>3, <1>4, <2>1, HolderByStatus DEF SubmittedKinds
  <2>4. "Failed" \in Statuses /\ "Failed" \in Follows(Latest(b.status).value)
    BY <2>1 DEF Follows, SubmittedKinds, Statuses
  <2>5. CASE b.info.kind # "Known" \/ last = "SubmittedUnexpected"
    <3>1. r = PutBundle(d, m, b.info, st)
      BY <1>2, <1>3, <1>6, <2>1, <2>5 DEF ConnectFailed
    <3>2. /\ r \in Dbs /\ SameOutputs(d, r)
          /\ DOMAIN r.bundles = DOMAIN d.bundles /\ Changed(d.bundles, r.bundles, m)
          /\ RecordOK(m, r.bundles[m]) /\ ~Holder(r.bundles, m)
      BY <1>1, <1>2, <1>3, <2>4, <2>5, <3>1, AppendMove
    <3>3. r.pending # m /\ ~Holder(d.bundles, m)
      BY <2>2, <2>3, <2>5, <3>2 DEF SameOutputs
    <3>4. PegOK(r, C)
      BY <3>2, <3>3, PegSettled
    <3> QED
      BY SMTT(30), <3>2, <3>4
  <2>6. CASE b.info.kind = "Known" /\ last # "SubmittedUnexpected"
    <3>1. PICK x : x = Unspend(d, b.info.spend)
      OBVIOUS
    <3>2. PICK y : y = PutBundle(x, m, b.info, st)
      OBVIOUS
    <3>3. PICK f : f = Append(y.latest_failed, Stamped(m, height))
      BY Zenon
    <3>4. r = [y EXCEPT !.latest_failed = f]
      BY Zenon, <1>2, <1>3, <1>6, <2>1, <2>6, <3>1, <3>2, <3>3 DEF ConnectFailed
    <3>5. /\ x \in Dbs /\ x.utxos = d.utxos \cup b.info.spend
          /\ x.stxos = d.stxos \ b.info.spend
          /\ x.bundles = d.bundles /\ x.pending = d.pending
      BY <1>1, <1>4, <3>1, UnspendFacts
    <3>6. /\ y \in Dbs /\ SameOutputs(x, y)
          /\ DOMAIN y.bundles = DOMAIN d.bundles /\ Changed(d.bundles, y.bundles, m)
          /\ RecordOK(m, y.bundles[m]) /\ ~Holder(y.bundles, m)
      BY <1>2, <1>3, <2>4, <3>2, <3>5, AppendMove
    <3>7. f \in Seq([value : Bundles, height : Nat])
      <4>1. Stamped(m, height) \in [value : Bundles, height : Nat]
        BY DEF Stamped
      <4>2. y.latest_failed \in Seq([value : Bundles, height : Nat])
        BY <3>6, DbFields
      <4> QED
        BY <3>3, <4>1, <4>2
    <3>8. /\ r \in Dbs /\ r.utxos = y.utxos /\ r.stxos = y.stxos /\ r.bundles = y.bundles
          /\ r.pending = y.pending
      <4>1. y \in Dbs
        BY <3>6
      <4> QED
        BY ZenonT(60), <3>4, <3>7, <4>1, FailedFacts
    <3>9. /\ r.utxos = d.utxos \cup b.info.spend /\ r.stxos = d.stxos \ b.info.spend
          /\ r.pending = d.pending /\ r.pending # m
      BY <2>2, <3>5, <3>6, <3>8 DEF SameOutputs
    <3>10. Holder(d.bundles, m)
      BY <2>1, <2>3, <2>6 DEF SubmittedKinds
    <3>11. /\ Changed(d.bundles, r.bundles, m) /\ RecordOK(m, r.bundles[m])
           /\ ~Holder(r.bundles, m)
      BY <3>6, <3>8
    <3>12. PegOK(r, C)
      BY <1>2, <1>3, <3>8, <3>9, <3>10, <3>11, PegGive
    <3> QED
      BY <3>6, <3>8, <3>12
  <2> QED
    BY SMTT(30), <2>5, <2>6
<1> QED
  BY <1>5, <1>6

(* A block's own outputs: withdrawals and deposits that are new, and       *)
(* deposits that are spent.                                                *)
LEMMA OutputsOK ==
    ASSUME NEW d, NEW C, PegOK(d, C), NEW new, new \subseteq Outputs, new \cap C = {},
           NEW spent, spent \subseteq Deposits, spent \subseteq d.utxos,
           NEW r \in Dbs, r.bundles = d.bundles, r.pending = d.pending,
           r.utxos = (d.utxos \cup new) \ spent, r.stxos = d.stxos \cup spent
    PROVE  PegOK(r, C \cup new)
<1>1. r.utxos \cup r.stxos = C \cup new /\ r.utxos \cap r.stxos = {}
  BY DEF PegOK
<1>2. \A w \in Withdrawals : w \in r.stxos <=> w \in d.stxos
  BY PegAssumption
<1>3. Divided(r.bundles, r.stxos)
  BY <1>2, DividedOther
<1> QED
  BY <1>1, <1>3 DEF PegOK

(* A deposit that did not happen before.                                   *)
LEMMA DepositOK ==
    ASSUME NEW d, NEW C, PegOK(d, C), NEW id \in Deposits, id \notin C,
           NEW r, r = [d EXCEPT !.utxos = @ \cup {id}]
    PROVE  PegOK(r, C \cup {id}) /\ r.bundles = d.bundles
<1>1. /\ r \in Dbs /\ r.bundles = d.bundles /\ r.pending = d.pending
      /\ r.utxos = d.utxos \cup {id} /\ r.stxos = d.stxos
  BY DEF Dbs, PegOK, Outputs
<1>2. PICK new, spent : new = {id} /\ spent = {}
  OBVIOUS
<1>3. /\ new \subseteq Outputs /\ new \cap C = {} /\ spent \subseteq Deposits
      /\ spent \subseteq d.utxos
      /\ r.utxos = (d.utxos \cup new) \ spent /\ r.stxos = d.stxos \cup spent
  BY <1>1, <1>2 DEF Outputs
<1>4. PegOK(r, C \cup new)
  BY <1>1, <1>3, OutputsOK
<1> QED
  BY <1>1, <1>2, <1>4

(* The outputs of a block's transactions.                                  *)
LEMMA BodyOK ==
    ASSUME NEW d, NEW C, PegOK(d, C), NEW created \in SUBSET Withdrawals, created \cap C = {},
           NEW spent \in SUBSET Deposits, spent \subseteq d.utxos,
           NEW r, r = ConnectBody(d, created, spent)
    PROVE  PegOK(r, C \cup created) /\ r.bundles = d.bundles /\ r.ok = d.ok
<1>1. /\ r \in Dbs /\ r.bundles = d.bundles /\ r.pending = d.pending /\ r.ok = d.ok
      /\ r.utxos = (d.utxos \cup created) \ spent /\ r.stxos = d.stxos \cup spent
  BY DEF ConnectBody, Spend, Dbs, PegOK, Outputs
<1>2. created \subseteq Outputs
  BY DEF Outputs
<1> QED
  BY <1>1, <1>2, OutputsOK

(* The heights of the event blocks are kept apart from the peg.            *)
LEMMA NoteOK ==
    ASSUME NEW d, NEW C, PegOK(d, C), NEW events, NEW height \in Nat,
           NEW r, r = NoteEventBlocks(d, events, height)
    PROVE  PegOK(r, C) /\ r.ok = d.ok
<1>1. d \in Dbs /\ d.deposit_blocks \in Seq(Nat) /\ d.bundle_blocks \in Seq(Nat)
  BY DbFields DEF PegOK
<1>2. PICK s \in Seq(Nat), t \in Seq(Nat) :
         r = [d EXCEPT !.deposit_blocks = s, !.bundle_blocks = t]
  <2>1. Append(d.deposit_blocks, height) \in Seq(Nat) /\ Append(d.bundle_blocks, height) \in Seq(Nat)
    BY <1>1
  <2> QED
    BY <1>1, <2>1 DEF NoteEventBlocks
<1>3. /\ r \in Dbs /\ r.bundles = d.bundles /\ r.pending = d.pending
      /\ r.utxos = d.utxos /\ r.stxos = d.stxos /\ r.ok = d.ok
  BY <1>1, <1>2 DEF Dbs
<1> QED
  BY <1>3, PegSame

(* The record of a bundle that is collected again: none of its outputs is  *)
(* spent, so it holds nothing and its last status allows another Pending.  *)
LEMMA Recollected ==
    ASSUME NEW d, NEW C, PegOK(d, C), NEW m \in DOMAIN d.bundles, m \in OwnBundles,
           m.spend \subseteq d.utxos, m.spend # {}, NEW b, b = d.bundles[m]
    PROVE  b.info = Known(m.spend) /\ "Pending" \in Follows(Latest(b.status).value)
           /\ ~Holder(d.bundles, m)
<1>1. RecordOK(m, b)
  BY DEF PegOK
<1>2. b.info.kind = "Known" /\ b.info.spend = m.spend
  BY <1>1, PegAssumption DEF RecordOK
<1>3. b.info \in Infos /\ Latest(b.status) \in Stamps
      /\ Latest(b.status) = b.status[Len(b.status)]
  BY <1>1, RecordFields
<1>4. b.info = Known(m.spend)
  BY <1>2, <1>3 DEF Known, Infos
<1>5. ~Holder(d.bundles, m)
  <2>1. Holder(d.bundles, m) => b.info.spend \subseteq d.stxos
    BY DEF PegOK, Divided, Holder
  <2> QED
    BY <1>2, <2>1 DEF PegOK
<1>6. Latest(b.status).value \in Statuses \ {"Submitted", "Confirmed"}
  BY <1>2, <1>3, <1>5, HolderByStatus DEF Stamps
<1>7. "Pending" \in Follows(Latest(b.status).value)
  BY <1>6 DEF Follows, Statuses
<1> QED
  BY <1>4, <1>5, <1>7

(* Bundle m is recorded as the pending one.                                *)
Collected(d, m, height) ==
    LET status == IF m \in DOMAIN d.bundles THEN d.bundles[m].status ELSE <<>>
    IN  [PutBundle(d, m, Known(m.spend), Append(status, Stamped("Pending", height)))
            EXCEPT !.pending = m]

(* A bundle of unspent outputs becomes the pending one.                    *)
LEMMA CollectedOK ==
    ASSUME NEW d, NEW C, PegOK(d, C), NEW m \in OwnBundles, NEW height \in Nat,
           m.spend \subseteq d.utxos, m.spend # {},
           NEW r, r = Collected(d, m, height)
    PROVE  PegOK(r, C) /\ r.ok = d.ok
<1>10. PICK status : status = IF m \in DOMAIN d.bundles THEN d.bundles[m].status ELSE <<>>
  OBVIOUS
<1>11. PICK y : y = PutBundle(d, m, Known(m.spend), Append(status, Stamped("Pending", height)))
  OBVIOUS
<1>12. r = [y EXCEPT !.pending = m]
  BY <1>10, <1>11 DEF Collected
<1>1. d \in Dbs /\ m \in Bundles
  BY DEF PegOK, Bundles
<1>2. "Pending" \in Statuses
  BY DEF Statuses
<1>3. /\ y \in Dbs /\ SameOutputs(d, y) /\ m \in DOMAIN y.bundles
      /\ Changed(d.bundles, y.bundles, m)
      /\ RecordOK(m, y.bundles[m]) /\ y.bundles[m].info.kind = "Known"
      /\ y.bundles[m].status[Len(y.bundles[m].status)].value = "Pending"
      /\ ~Holder(d.bundles, m)
  <2>1. CASE m \in DOMAIN d.bundles
    <3>1. PICK b : b = d.bundles[m]
      OBVIOUS
    <3>2. /\ b.info = Known(m.spend) /\ "Pending" \in Follows(Latest(b.status).value)
          /\ ~Holder(d.bundles, m)
      BY <2>1, <3>1, Recollected
    <3>3. y = PutBundle(d, m, b.info, Append(b.status, Stamped("Pending", height)))
      BY <1>10, <1>11, <2>1, <3>1, <3>2
    <3>4. /\ y \in Dbs /\ SameOutputs(d, y) /\ DOMAIN y.bundles = DOMAIN d.bundles
          /\ Changed(d.bundles, y.bundles, m)
          /\ RecordOK(m, y.bundles[m]) /\ y.bundles[m].info = b.info
      BY <1>1, <1>2, <2>1, <3>1, <3>2, <3>3, AppendMove
    <3>5. y.bundles[m].status[Len(y.bundles[m].status)].value = "Pending"
      <4>1. RecordOK(m, b) /\ b.status \in Seq(Stamps) /\ b.info \in Infos
        BY <2>1, <3>1, RecordFields DEF PegOK
      <4>2. PICK e \in Stamps : e = Stamped("Pending", height) /\ e.value = "Pending"
        BY <1>2, StampType
      <4>3. PICK s : s = Append(b.status, e)
        OBVIOUS
      <4>7. PICK info \in Infos : info = b.info
        BY <4>1
      <4>4. s \in Seq(Stamps) /\ s[Len(s)] = e
        BY <4>1, <4>3, Loop!AppendFacts
      <4>5. y = PutBundle(d, m, info, s)
        BY <3>3, <4>2, <4>3, <4>7
      <4>6. y.bundles[m] = [info |-> info, status |-> s]
        BY <1>1, <4>4, <4>5, PutBundleFacts
      <4> QED
        BY <4>2, <4>4, <4>6
    <3>6. y.bundles[m].info.kind = "Known"
      BY <3>2, <3>4 DEF Known
    <3> QED
      BY <2>1, <3>2, <3>4, <3>5, <3>6
  <2>2. CASE m \notin DOMAIN d.bundles
    <3>1. PICK e \in Stamps : e = Stamped("Pending", height) /\ e.value = "Pending"
      BY <1>2, StampType
    <3>2. m.spend \subseteq Withdrawals
      BY DEF OwnBundles
    <3>3. PICK info \in Infos : info = Known(m.spend) /\ info.kind = "Known" /\ info.spend = m.spend
      <4>1. PICK info : info = Known(m.spend)
        OBVIOUS
      <4>2. info \in Infos /\ info.kind = "Known" /\ info.spend = m.spend
        BY <3>2, <4>1 DEF Known, Infos, Outputs
      <4> QED
        BY <4>1, <4>2
    <3>4. PICK s \in Seq(Stamps) : s = Append(status, e) /\ Len(s) = 1 /\ s[1] = e
      <4>1. <<>> \in Seq(Stamps) /\ Len(<<>>) = 0
        OBVIOUS
      <4>2. PICK s : s = Append(<<>>, e)
        OBVIOUS
      <4>3. s \in Seq(Stamps) /\ Len(s) = 1 /\ s[1] = e
        BY <4>2
      <4> QED
        BY <1>10, <2>2, <4>2, <4>3
    <3>5. y = PutBundle(d, m, info, s)
      BY <1>11, <3>1, <3>3, <3>4
    <3>6. /\ y \in Dbs /\ DOMAIN y.bundles = DOMAIN d.bundles \cup {m}
          /\ y.bundles[m] = [info |-> info, status |-> s] /\ y.bundles[m] \in Records
          /\ Changed(d.bundles, y.bundles, m) /\ SameOutputs(d, y)
      BY <1>1, <3>5, PutBundleFacts
    <3>7. y.bundles[m].info = info /\ y.bundles[m].status = s
      BY <3>6
    <3>8. LifeOK(s)
      BY <3>1, <3>4 DEF LifeOK
    <3>9. RecordOK(m, y.bundles[m])
      <4>1. m \in OwnBundles
        OBVIOUS
      <4>2. PICK z : z = y.bundles[m]
        OBVIOUS
      <4>3. z \in Records /\ z.info = info /\ z.status = s
        BY ONLY <3>6, <3>7, <4>2
      <4>4. info.kind = "Known" /\ info.spend = m.spend
        BY <3>3
      <4>5. Len(s) > 0
        BY <3>4
      <4>6. RecordOK(m, z)
        BY ONLY <3>8, <4>1, <4>3, <4>4, <4>5 DEF RecordOK
      <4> QED
        BY ONLY <4>2, <4>6
    <3> QED
      BY <2>2, <3>1, <3>3, <3>4, <3>6, <3>7, <3>9 DEF Holder
  <2> QED
    BY <2>1, <2>2
<1>4. /\ r \in Dbs /\ r.utxos = y.utxos /\ r.stxos = y.stxos /\ r.bundles = y.bundles
      /\ r.pending = m /\ r.ok = y.ok
  <2>1. y \in Dbs /\ m \in Bundles \cup {None} /\ r = [y EXCEPT !.pending = m]
    BY <1>1, <1>3, <1>12
  <2> QED
    BY ONLY <2>1, PendingFacts
<1>5. /\ r.utxos \cup r.stxos = C /\ r.utxos \cap r.stxos = {} /\ r.stxos = d.stxos
      /\ r.ok = d.ok
  BY <1>3, <1>4 DEF SameOutputs, PegOK
<1>6. ~Holder(r.bundles, m) /\ Changed(d.bundles, r.bundles, m) /\ RecordOK(m, r.bundles[m])
  BY <1>3, <1>4, HolderByStatus
<1>7. Divided(r.bundles, r.stxos)
  <2>1. Divided(d.bundles, d.stxos)
    BY DEF PegOK
  <2>2. Divided(r.bundles, d.stxos)
    BY <1>3, <1>6, <2>1, DividedSame
  <2> QED
    BY <1>5, <2>2
<1>8. /\ r.pending = m /\ m \in DOMAIN r.bundles
      /\ r.bundles[m].info.kind = "Known"
      /\ r.bundles[m].status[Len(r.bundles[m].status)].value = "Pending"
  BY <1>3, <1>4
<1>9. PegOK(r, C)
  <2>1. PegOK(d, C)
    OBVIOUS
  <2> QED
    BY ONLY <1>4, <1>5, <1>6, <1>7, <1>8, <2>1, PegMove
<1> QED
  BY <1>5, <1>9

(* At the end of a block, a bundle is collected if none is pending.        *)
LEMMA CollectOK ==
    ASSUME NEW d, NEW C, PegOK(d, C), NEW height \in Nat,
           NEW r, r = CollectPending(d, height)
    PROVE  PegOK(r, C) /\ r.ok = d.ok
<1>1. PICK spend : spend = Collect(d.utxos)
  OBVIOUS
<1>2. spend \subseteq d.utxos /\ spend \subseteq Withdrawals
  BY <1>1 DEF Collect
<1>3. PICK m : m = [height |-> height, spend |-> spend]
  OBVIOUS
<1>4. m \in OwnBundles /\ m.spend = spend
  BY <1>2, <1>3 DEF OwnBundles
<1>5. r = d \/ (spend # {} /\ r = Collected(d, m, height))
  BY <1>1, <1>3, <1>4 DEF CollectPending, Collected
<1>6. CASE r = d
  BY <1>6
<1>7. CASE spend # {} /\ r = Collected(d, m, height)
  BY <1>2, <1>4, <1>7, CollectedOK
<1> QED
  BY <1>5, <1>6, <1>7

DepositOf(event) == IF event.kind = "Deposit" THEN {event.id} ELSE {}

(* One event is connected.                                                 *)
LEMMA EventOK ==
    ASSUME NEW d, NEW C, PegOK(d, C), NEW e \in PegEvents, NEW height \in Nat,
           height = 0 => C \cap Withdrawals = {},
           e.kind = "Deposit" => e.id \notin C,
           e.kind # "Deposit" => e.id \in DOMAIN d.bundles \/ e.id \in UnknownBundles,
           NEW r, r = ConnectEvent(d, e, height), r.ok
    PROVE  PegOK(r, C \cup DepositOf(e)) /\ DOMAIN d.bundles \subseteq DOMAIN r.bundles
<1>1. /\ e.kind \in {"Deposit", "Submitted", "Confirmed", "Failed"}
      /\ e.kind = "Deposit" => e.id \in Deposits
      /\ e.kind # "Deposit" => e.id \in Bundles
  BY DEF PegEvents
<1>2. CASE e.kind = "Deposit"
  <2>1. r = [d EXCEPT !.utxos = @ \cup {e.id}]
    BY <1>2 DEF ConnectEvent
  <2>2. PICK id \in Deposits : id = e.id
    BY <1>1, <1>2
  <2>3. id \notin C /\ r = [d EXCEPT !.utxos = @ \cup {id}]
    BY <1>2, <2>1, <2>2
  <2>4. PegOK(r, C \cup {id}) /\ r.bundles = d.bundles
    BY <2>3, DepositOK
  <2> QED
    BY <1>2, <2>2, <2>4 DEF DepositOf
<1>3. CASE e.kind # "Deposit"
  <2>1. C \cup DepositOf(e) = C
    BY <1>3 DEF DepositOf
  <2>2. PICK m \in Bundles : m = e.id
    BY <1>1, <1>3
  <2>3. m \in DOMAIN d.bundles \/ m \in UnknownBundles
    BY <1>3, <2>2
  <2>4. \/ r = ConnectSubmitted(d, m, height)
        \/ r = ConnectConfirmed(d, m, height)
        \/ r = ConnectFailed(d, m, height)
    BY <1>1, <1>3, <2>2 DEF ConnectEvent
  <2>5. PegOK(r, C) /\ DOMAIN d.bundles \subseteq DOMAIN r.bundles
    BY <2>3, <2>4, SubmittedOK, ConfirmedOK, FailedOK
  <2> QED
    BY <2>1, <2>5
<1> QED
  BY <1>2, <1>3

(* An event after the earlier ones: nothing after an error.                *)
ConnectNext(x, event, height) == IF x.ok THEN ConnectEvent(x, event, height) ELSE x

(* The databases after each event.                                         *)
LEMMA ConnectRuns ==
    ASSUME NEW d, NEW events, NEW height, Len(events) \in Nat
    PROVE  \E f : /\ ConnectEvents(d, events, height) = f[Len(events)]
                  /\ f[0] = d
                  /\ \A i \in 1..Len(events) : f[i] = ConnectNext(f[i - 1], events[i], height)
<1> DEFINE n == Len(events)
           value(f, i) == IF i = 0 THEN d ELSE ConnectNext(f[i - 1], events[i], height)
           isRun(f, k) == f = [i \in 0..k |-> value(f, i)]
           run == CHOOSE f : isRun(f, n)
           G == {k \in 0..n : \E f : isRun(f, k)}
<1>1. ConnectEvents(d, events, height) = run[n]
  BY Zenon DEF ConnectEvents, ConnectNext
<1>2. \E f : isRun(f, n)
  <2>1. 0 \in G
    <3>1. \E f : isRun(f, 0)
      <4>1. isRun([i \in 0..0 |-> d], 0)
        OBVIOUS
      <4> QED
        BY <4>1, Zenon
    <3>2. 0 \in 0..n
      OBVIOUS
    <3> HIDE DEF isRun, n
    <3> QED
      BY <3>1, <3>2
  <2>2. ASSUME NEW k \in 1..n, k - 1 \in G PROVE k \in G
    <3>1. PICK f : isRun(f, k - 1)
      BY <2>2
    <3>2. k - 1 \in 0..(k - 1) /\ k \in 0..n /\ k \notin 0..(k - 1) /\ 0..k = (0..(k - 1)) \cup {k} /\ k # 0
      OBVIOUS
    <3>3. PICK g : g = [i \in 0..k |-> IF i = k THEN ConnectNext(f[k - 1], events[k], height) ELSE f[i]]
      OBVIOUS
    <3>4. \A i \in 0..(k - 1) : g[i] = f[i]
      BY <3>2, <3>3
    <3>5. ASSUME NEW i \in 0..k PROVE g[i] = value(g, i)
      <4>1. CASE i = k
        BY <3>2, <3>3, <3>4, <4>1
      <4>2. CASE i # k
        <5>1. i \in 0..(k - 1) /\ (i # 0 => i - 1 \in 0..(k - 1))
          BY <4>2
        <5>2. f[i] = value(f, i)
          BY <3>1, <5>1, Zenon
        <5> QED
          BY <3>4, <5>1, <5>2, Zenon
      <4> QED
        BY <4>1, <4>2
    <3>6. isRun(g, k)
      <4> HIDE DEF value
      <4> QED
        BY <3>3, <3>5
    <3> QED
      BY <3>2, <3>6, Zenon
  <2>3. \A k \in 0..n : k \in G
    <3> HIDE DEF G, n
    <3>1. n \in Nat
      BY DEF n
    <3> QED
      BY <2>1, <2>2, <3>1, Loop!Steps
  <2> QED
    BY <2>3
<1>3. isRun(run, n)
  <2> HIDE DEF isRun
  <2> QED
    BY <1>2, Zenon
<1>4. \A i \in 0..n : run[i] = value(run, i)
  <2> HIDE DEF run
  <2> QED
    BY <1>3, Zenon
<1> HIDE DEF run
<1>5. run[0] = d /\ \A i \in 1..n : run[i] = ConnectNext(run[i - 1], events[i], height)
  <2>1. 0 \in 0..n /\ \A i \in 1..n : i \in 0..n /\ i # 0
    OBVIOUS
  <2> QED
    BY <1>4, <2>1, Zenon
<1> QED
  BY <1>1, <1>5, Zenon

(* The deposits among the first i events.                                  *)
FirstDeposits(events, i) ==
    {events[j].id : j \in {k \in 1..i : events[k].kind = "Deposit"}}

(* One deposit more.                                                       *)
LEMMA FirstDepositsStep ==
    ASSUME NEW events, NEW i \in Nat, i > 0
    PROVE  FirstDeposits(events, i) = FirstDeposits(events, i - 1) \cup DepositOf(events[i])
<1>1. \A j : j \in 1..i <=> j \in 1..(i - 1) \/ j = i
  OBVIOUS
<1> QED
  BY <1>1 DEF FirstDeposits, DepositOf

(* All of them.                                                            *)
LEMMA FirstDepositsAll ==
    ASSUME NEW events \in Seq(PegEvents)
    PROVE  /\ FirstDeposits(events, Len(events)) = DepositsIn(events)
           /\ FirstDeposits(events, 0) = {}
           /\ \A i \in 0..Len(events) : FirstDeposits(events, i) \subseteq Deposits
<1>1. DOMAIN events = 1..Len(events) /\ 1..0 = {}
  OBVIOUS
<1>2. ASSUME NEW i \in 0..Len(events), NEW j \in 1..i, events[j].kind = "Deposit"
      PROVE  events[j].id \in Deposits
  <2>1. j \in 1..Len(events)
    OBVIOUS
  <2>2. events[j] \in PegEvents
    BY <2>1, ElementOfSeq
  <2> QED
    BY <1>2, <2>2 DEF PegEvents
<1> QED
  BY <1>1, <1>2 DEF FirstDeposits, DepositsIn

(* The events of a block on top of a chain that created the outputs C.     *)
LEMMA ConnectEventsOK ==
    ASSUME NEW d, NEW C, PegOK(d, C), NEW events \in Seq(PegEvents), NEW height \in Nat,
           height = 0 => C \cap Withdrawals = {},
           \A i \in 1..Len(events) :
              IF events[i].kind = "Deposit"
              THEN events[i].id \notin C /\ \A j \in 1..(i - 1) : events[j] # events[i]
              ELSE events[i].id \in DOMAIN d.bundles \/ events[i].id \in UnknownBundles,
           NEW r, r = ConnectEvents(d, events, height), r.ok
    PROVE  PegOK(r, C \cup DepositsIn(events))
<1> DEFINE n == Len(events)
<1>1. n \in Nat
  OBVIOUS
<1>2. PICK f : /\ r = f[n] /\ f[0] = d
               /\ \A i \in 1..n : f[i] = ConnectNext(f[i - 1], events[i], height)
  BY <1>1, ConnectRuns
<1> DEFINE G == {i \in 0..n : f[i].ok =>
                    /\ PegOK(f[i], C \cup FirstDeposits(events, i))
                    /\ DOMAIN d.bundles \subseteq DOMAIN f[i].bundles}
<1>3. 0 \in G
  <2>1. C \cup FirstDeposits(events, 0) = C
    BY FirstDepositsAll
  <2>2. 0 \in 0..n
    BY <1>1
  <2> HIDE DEF n
  <2> QED
    BY <1>2, <2>1, <2>2
<1>4. ASSUME NEW i \in 1..n, i - 1 \in G PROVE i \in G
  <2>1. i \in 0..n /\ i - 1 \in 0..n /\ i \in Nat /\ i > 0 /\ i \in 1..Len(events)
    OBVIOUS
  <2>2. PICK x : x = f[i - 1]
    OBVIOUS
  <2>3. PICK y : y = f[i]
    OBVIOUS
  <2>4. PICK e \in PegEvents : e = events[i]
    BY <2>1, ElementOfSeq
  <2>5. PICK B : B = C \cup FirstDeposits(events, i - 1)
    OBVIOUS
  <2> SUFFICES ASSUME y.ok
               PROVE  /\ PegOK(y, C \cup FirstDeposits(events, i))
                      /\ DOMAIN d.bundles \subseteq DOMAIN y.bundles
    BY <2>1, <2>3
  <2>6. y = ConnectNext(x, e, height)
    BY <1>2, <2>2, <2>3, <2>4
  <2>7. x.ok /\ y = ConnectEvent(x, e, height)
    BY <2>6 DEF ConnectNext
  <2>8. PegOK(x, B) /\ DOMAIN d.bundles \subseteq DOMAIN x.bundles
    BY <1>4, <2>2, <2>5, <2>7
  <2>9. height = 0 => B \cap Withdrawals = {}
    BY <2>1, <2>5, FirstDepositsAll, PegAssumption
  <2>10. e.kind = "Deposit" => e.id \notin B
    <3> SUFFICES ASSUME e.kind = "Deposit", e.id \in B PROVE FALSE
      OBVIOUS
    <3>1. e.id \notin C /\ \A j \in 1..(i - 1) : events[j] # e
      BY <2>1, <2>4
    <3>2. PICK j \in 1..(i - 1) : events[j].kind = "Deposit" /\ events[j].id = e.id
      BY <2>5, <3>1 DEF FirstDeposits
    <3>3. j \in 1..Len(events)
      BY <2>1
    <3>4. events[j] \in PegEvents
      BY <3>3, ElementOfSeq
    <3>5. events[j] = e
      BY <3>2, <3>4 DEF PegEvents
    <3> QED
      BY <3>1, <3>5
  <2>11. e.kind # "Deposit" => e.id \in DOMAIN x.bundles \/ e.id \in UnknownBundles
    BY <2>1, <2>4, <2>8
  <2>12. PegOK(y, B \cup DepositOf(e)) /\ DOMAIN x.bundles \subseteq DOMAIN y.bundles
    BY <2>7, <2>8, <2>9, <2>10, <2>11, EventOK
  <2>13. B \cup DepositOf(e) = C \cup FirstDeposits(events, i)
    BY <2>1, <2>4, <2>5, FirstDepositsStep
  <2> QED
    BY <2>8, <2>12, <2>13
<1>5. n \in G
  <2> HIDE DEF G, n
  <2>1. \A i \in 0..n : i \in G
    BY <1>1, <1>3, <1>4, Loop!Steps
  <2> QED
    BY <1>1, <2>1
<1>6. FirstDeposits(events, n) = DepositsIn(events)
  BY FirstDepositsAll
<1> QED
  BY <1>2, <1>5, <1>6

(* The peg data of a block.                                                *)
LEMMA ConnectPegOK ==
    ASSUME NEW d, NEW C, PegOK(d, C), NEW events \in Seq(PegEvents), NEW height \in Nat,
           height = 0 => C \cap Withdrawals = {},
           \A i \in 1..Len(events) :
              IF events[i].kind = "Deposit"
              THEN events[i].id \notin C /\ \A j \in 1..(i - 1) : events[j] # events[i]
              ELSE events[i].id \in DOMAIN d.bundles \/ events[i].id \in UnknownBundles,
           NEW r, r = ConnectPeg(d, events, height), r.ok
    PROVE  PegOK(r, C \cup DepositsIn(events))
<1>1. PICK x : x = ConnectEvents(d, events, height)
  OBVIOUS
<1>2. PICK y : y = NoteEventBlocks(x, events, height)
  OBVIOUS
<1>3. x.ok /\ r = CollectPending(y, height)
  BY <1>1, <1>2 DEF ConnectPeg
<1>4. PICK D : D = C \cup DepositsIn(events)
  OBVIOUS
<1>5. PegOK(x, D)
  BY <1>1, <1>3, <1>4, ConnectEventsOK
<1>6. PegOK(y, D)
  BY <1>2, <1>5, NoteOK
<1>7. PegOK(r, D)
  BY <1>3, <1>6, CollectOK
<1> QED
  BY <1>4, <1>7

-----------------------------------------------------------------------------
(* Chains of blocks.                                                       *)

(* A block on top of a chain.                                              *)
LEMMA ChainAppend ==
    ASSUME NEW c, ChainOK(c), NEW blk \in Blocks, Made(blk) \cap Created(c) = {},
           NEW g, g = Append(c, blk)
    PROVE  /\ ChainOK(g) /\ Created(g) = Created(c) \cup Made(blk)
           /\ Len(g) = Len(c) + 1
<1>1. c \in Seq(Blocks) /\ Len(c) \in Nat
  BY DEF ChainOK
<1>2. /\ g \in Seq(Blocks) /\ Len(g) = Len(c) + 1
      /\ \A i \in 1..Len(c) : g[i] = c[i]
      /\ g[Len(c) + 1] = blk
  BY <1>1, Loop!AppendFacts
<1>3. \A i : i \in 1..Len(g) <=> i \in 1..Len(c) \/ i = Len(c) + 1
  BY <1>1, <1>2
<1>4. DOMAIN c = 1..Len(c) /\ DOMAIN g = 1..Len(g)
  BY <1>1, <1>2
<1>5. /\ Created(c) = UNION {Made(c[i]) : i \in 1..Len(c)}
      /\ Created(g) = UNION {Made(g[i]) : i \in 1..Len(g)}
  BY <1>4 DEF Created, Made
<1>6. Created(g) = Created(c) \cup Made(blk)
  <2>1. ASSUME NEW w \in Created(g) PROVE w \in Created(c) \cup Made(blk)
    <3>1. PICK i \in 1..Len(g) : w \in Made(g[i])
      BY <1>5
    <3> QED
      BY <1>2, <1>3, <1>5, <3>1
  <2>2. ASSUME NEW w \in Created(c) PROVE w \in Created(g)
    <3>1. PICK i \in 1..Len(c) : w \in Made(c[i])
      BY <1>5
    <3>2. i \in 1..Len(g) /\ w \in Made(g[i])
      BY <1>2, <1>3, <3>1
    <3> QED
      BY <1>5, <3>2
  <2>3. Made(blk) \subseteq Created(g)
    <3>1. Len(c) + 1 \in 1..Len(g) /\ Made(g[Len(c) + 1]) = Made(blk)
      BY <1>2, <1>3
    <3> QED
      BY <1>5, <3>1
  <2> QED
    BY <2>1, <2>2, <2>3
<1>7. ASSUME NEW i \in 1..Len(g), NEW j \in 1..Len(g), j < i
      PROVE  Made(g[i]) \cap Made(g[j]) = {}
  <2>1. j \in 1..Len(c) /\ g[j] = c[j]
    BY <1>1, <1>2, <1>3, <1>7
  <2>2. CASE i \in 1..Len(c)
    BY <1>2, <1>7, <2>1, <2>2 DEF ChainOK
  <2>3. CASE i = Len(c) + 1
    <3>1. Made(g[j]) \subseteq Created(c)
      BY <1>5, <2>1
    <3> QED
      BY <1>2, <2>3, <3>1
  <2> QED
    BY <1>3, <2>2, <2>3
<1> QED
  BY <1>2, <1>6, <1>7 DEF ChainOK

(* A chain without its last block.                                         *)
LEMMA ChainFront ==
    ASSUME NEW c, ChainOK(c), c # <<>>, NEW g, g = Front(c), NEW blk, blk = c[Len(c)]
    PROVE  /\ ChainOK(g) /\ Created(g) = Created(c) \ Made(blk)
           /\ Len(g) = Len(c) - 1 /\ Len(c) \in Nat /\ Len(c) > 0
           /\ blk \in Blocks
<1>1. c \in Seq(Blocks) /\ Len(c) \in Nat /\ Len(c) > 0
  BY DEF ChainOK
<1>2. /\ g \in Seq(Blocks) /\ Len(g) = Len(c) - 1
      /\ \A i \in 1..(Len(c) - 1) : g[i] = c[i]
  BY <1>1, FrontFacts
<1>3. /\ \A i : i \in 1..Len(c) <=> i \in 1..Len(g) \/ i = Len(c)
      /\ \A i \in 1..Len(g) : i < Len(c) /\ i \in 1..Len(c)
      /\ Len(c) \in 1..Len(c)
  BY <1>1, <1>2
<1>4. blk \in Blocks
  BY <1>1, <1>3, ElementOfSeq
<1>5. DOMAIN c = 1..Len(c) /\ DOMAIN g = 1..Len(g)
  BY <1>1, <1>2
<1>6. /\ Created(c) = UNION {Made(c[i]) : i \in 1..Len(c)}
      /\ Created(g) = UNION {Made(g[i]) : i \in 1..Len(g)}
  BY <1>5 DEF Created, Made
<1>7. \A i \in 1..Len(g) : g[i] = c[i] /\ Made(c[i]) \cap Made(blk) = {}
  <2> SUFFICES ASSUME NEW i \in 1..Len(g) PROVE g[i] = c[i] /\ Made(c[i]) \cap Made(blk) = {}
    OBVIOUS
  <2>1. g[i] = c[i]
    BY <1>2
  <2>2. Made(blk) \cap Made(c[i]) = {}
    BY <1>3 DEF ChainOK
  <2> QED
    BY <2>1, <2>2
<1>8. Created(g) = Created(c) \ Made(blk)
  <2>1. ASSUME NEW w \in Created(g) PROVE w \in Created(c) /\ w \notin Made(blk)
    <3>1. PICK i \in 1..Len(g) : w \in Made(g[i])
      BY <1>6
    <3> QED
      BY <1>3, <1>6, <1>7, <3>1
  <2>2. ASSUME NEW w \in Created(c), w \notin Made(blk) PROVE w \in Created(g)
    <3>1. PICK i \in 1..Len(c) : w \in Made(c[i])
      BY <1>6
    <3>2. i \in 1..Len(g)
      BY <1>3, <2>2, <3>1
    <3> QED
      BY <1>6, <1>7, <3>1, <3>2
  <2> QED
    BY <2>1, <2>2
<1>9. ChainOK(g)
  <2> SUFFICES ASSUME NEW i \in 1..Len(g), NEW j \in 1..Len(g), j < i
               PROVE  Made(g[i]) \cap Made(g[j]) = {}
    BY <1>2 DEF ChainOK
  <2> QED
    BY <1>3, <1>7 DEF ChainOK
<1> QED
  BY <1>1, <1>2, <1>4, <1>8, <1>9

-----------------------------------------------------------------------------
(* Connecting a block.                                                     *)

(* What the mainchain reports, as the peg needs it.                        *)
LEMMA ReportsOK ==
    ASSUME PInv, CrossFork = FALSE, NEW n \in Nat, NEW events \in [1..n -> MainchainEvents],
           MayReportAll(events)
    PROVE  /\ events \in Seq(PegEvents) /\ Len(events) = n
           /\ \A i \in 1..n :
                IF events[i].kind = "Deposit"
                THEN /\ events[i].id \in Deposits /\ events[i].id \notin Created(blocks)
                     /\ \A j \in 1..(i - 1) : events[j] # events[i]
                ELSE events[i].id \in DOMAIN db.bundles \/ events[i].id \in UnknownBundles
           /\ DepositsIn(events) \cap Created(blocks) = {} /\ DepositsIn(events) \subseteq Deposits
<1>1. db.bundles \in Tables
  BY DbFields DEF PInv, PegOK
<1>2. DOMAIN db.bundles \subseteq Bundles /\ UnknownBundles \subseteq Bundles
  BY <1>1, TableType DEF Bundles
<1>3. ReportedBundles \subseteq DOMAIN db.bundles \cup UnknownBundles
  BY DEF ReportedBundles
<1>4. MainchainEvents \subseteq PegEvents
  BY <1>2, <1>3 DEF MainchainEvents, PegEvents
<1>5. events \in Seq(PegEvents) /\ Len(events) = n /\ DOMAIN events = 1..n
  BY <1>4
<1>6. ASSUME NEW i \in 1..n
      PROVE  IF events[i].kind = "Deposit"
             THEN /\ events[i].id \in Deposits /\ events[i].id \notin Created(blocks)
                  /\ \A j \in 1..(i - 1) : events[j] # events[i]
             ELSE events[i].id \in DOMAIN db.bundles \/ events[i].id \in UnknownBundles
  <2>1. events[i] \in MainchainEvents
    OBVIOUS
  <2>2. CASE events[i].kind = "Deposit"
    <3>1. MayReport(events, i)
      BY <1>5 DEF MayReportAll
    <3>2. /\ events[i].id \notin Created(blocks)
          /\ \A j \in 1..(i - 1) : events[j] # events[i]
      BY <2>2, <3>1 DEF MayReport
    <3>3. events[i].id \in Deposits
      BY <2>1, <2>2 DEF MainchainEvents
    <3> QED
      BY <2>2, <3>2, <3>3
  <2>3. CASE events[i].kind # "Deposit"
    <3>1. events[i].id \in ReportedBundles
      BY <2>1, <2>3 DEF MainchainEvents
    <3> QED
      BY <1>3, <2>3, <3>1
  <2> QED
    BY <2>2, <2>3
<1>7. DepositsIn(events) \cap Created(blocks) = {} /\ DepositsIn(events) \subseteq Deposits
  BY <1>5, <1>6 DEF DepositsIn
<1> QED
  BY <1>5, <1>6, <1>7

(* A block that is connected keeps the invariant.                          *)
LEMMA ConnectStep ==
    ASSUME PInv, CrossFork = FALSE,
           NEW created \in SUBSET (Withdrawals \ (db.utxos \cup db.stxos)),
           NEW spent \in SUBSET (db.utxos \cap Deposits),
           NEW n \in 0..scope.events, NEW events \in [1..n -> MainchainEvents],
           ConnectTip(created, spent, events)
    PROVE  PInv'
<1>1. /\ PegOK(db, Created(blocks)) /\ ChainOK(blocks) /\ scope \in Scope /\ db \in Dbs
      /\ before \in Seq(Dbs) /\ Len(before) = Len(blocks)
  BY DEF PInv, PegOK
<1>2. n \in Nat
  BY <1>1 DEF Scope
<1>3. PICK height : height = Len(blocks)
  OBVIOUS
<1>4. PICK x : x = ConnectBody(db, created, spent)
  OBVIOUS
<1>5. PICK r : r = ConnectPeg(x, events, height)
  OBVIOUS
<1>6. PICK blk : blk = [created |-> created, spent |-> spent, events |-> events]
  OBVIOUS
<1>7. /\ height = 0 => created = {} 
      /\ MayReportAll(events) /\ r.ok /\ db' = r
      /\ blocks' = Append(blocks, blk)
      /\ before' = Append(before, db)
      /\ scope' = scope
  BY <1>3, <1>4, <1>5, <1>6 DEF ConnectTip
<1>8. /\ events \in Seq(PegEvents) /\ Len(events) = n
      /\ \A i \in 1..n :
            IF events[i].kind = "Deposit"
            THEN /\ events[i].id \in Deposits /\ events[i].id \notin Created(blocks)
                 /\ \A j \in 1..(i - 1) : events[j] # events[i]
            ELSE events[i].id \in DOMAIN db.bundles \/ events[i].id \in UnknownBundles
      /\ DepositsIn(events) \cap Created(blocks) = {} /\ DepositsIn(events) \subseteq Deposits
  BY <1>2, <1>7, ReportsOK
<1>9. PICK C : C = Created(blocks)
  OBVIOUS
<1>10. created \in SUBSET Withdrawals /\ spent \in SUBSET Deposits /\ spent \subseteq db.utxos
       /\ created \cap C = {} /\ PegOK(db, C)
  BY <1>1, <1>9 DEF PegOK
<1>11. PegOK(x, C \cup created) /\ x.bundles = db.bundles
  BY <1>4, <1>10, BodyOK
<1>12. height \in Nat
  BY <1>1, <1>3 DEF ChainOK
<1>13. height = 0 => (C \cup created) \cap Withdrawals = {}
  <2> SUFFICES ASSUME height = 0 PROVE (C \cup created) \cap Withdrawals = {}
    OBVIOUS
  <2>1. DOMAIN blocks = {}
    BY <1>1, <1>3 DEF ChainOK
  <2>2. C = {}
    BY <1>9, <2>1 DEF Created
  <2> QED
    BY <1>7, <2>2
<1>14. ASSUME NEW i \in 1..Len(events)
       PROVE  IF events[i].kind = "Deposit"
              THEN events[i].id \notin C \cup created /\ \A j \in 1..(i - 1) : events[j] # events[i]
              ELSE events[i].id \in DOMAIN x.bundles \/ events[i].id \in UnknownBundles
  <2>1. i \in 1..n
    BY <1>8
  <2> QED
    BY <1>8, <1>9, <1>10, <1>11, <2>1, PegAssumption
<1>15. PegOK(r, (C \cup created) \cup DepositsIn(events))
  <2>1. PICK D : D = C \cup created
    OBVIOUS
  <2>2. /\ PegOK(x, D) /\ events \in Seq(PegEvents)
        /\ height = 0 => D \cap Withdrawals = {}
        /\ \A i \in 1..Len(events) :
              IF events[i].kind = "Deposit"
              THEN events[i].id \notin D /\ \A j \in 1..(i - 1) : events[j] # events[i]
              ELSE events[i].id \in DOMAIN x.bundles \/ events[i].id \in UnknownBundles
    BY <1>8, <1>11, <1>13, <1>14, <2>1
  <2>3. PegOK(r, D \cup DepositsIn(events))
    BY <1>5, <1>7, <1>12, <2>2, ConnectPegOK
  <2> QED
    BY <2>1, <2>3
<1>16. blk \in Blocks /\ Made(blk) = created \cup DepositsIn(events)
  BY <1>6, <1>8, <1>10 DEF Blocks, Made
<1>17. PICK g : g = Append(blocks, blk)
  OBVIOUS
<1>18. /\ ChainOK(g) /\ Created(g) = C \cup Made(blk) /\ Len(g) = Len(blocks) + 1
  <2>1. Made(blk) \cap Created(blocks) = {}
    BY <1>8, <1>9, <1>10, <1>16
  <2> QED
    BY <1>1, <1>9, <1>16, <1>17, <2>1, ChainAppend
<1>19. PegOK(r, Created(g))
  <2>1. (C \cup created) \cup DepositsIn(events) = Created(g)
    BY <1>16, <1>18
  <2> QED
    BY <1>15, <2>1
<1>20. before' \in Seq(Dbs) /\ Len(before') = Len(before) + 1
  BY <1>1, <1>7
<1>21. blocks' = g
  BY <1>7, <1>17
<1>22. PegOK(db', Created(blocks')) /\ db'.ok /\ ChainOK(blocks')
       /\ Len(before') = Len(blocks') /\ scope' \in Scope
  BY <1>1, <1>7, <1>18, <1>19, <1>20, <1>21
<1> QED
  BY <1>20, <1>22 DEF PInv

-----------------------------------------------------------------------------
(* Disconnecting events.                                                   *)

(* The last two statuses of a bundle of this chain.                        *)
LEMMA LastTwo ==
    ASSUME NEW m, NEW b, RecordOK(m, b), b.info.kind = "Known",
           Latest(b.status).value # "Pending",
           NEW prev, prev = b.status[Len(b.status) - 1].value
    PROVE  Len(b.status) > 1 /\ prev \in Statuses /\ Latest(b.status).value \in Follows(prev)
<1>1. /\ b.status \in Seq(Stamps) /\ Len(b.status) > 0
      /\ Latest(b.status) = b.status[Len(b.status)] /\ LifeOK(b.status)
  BY RecordFields DEF RecordOK
<1>2. Len(b.status) > 1
  BY <1>1, LifeFirst
<1>3. /\ b.status[Len(b.status)].value \in Follows(b.status[Len(b.status) - 1].value)
      /\ b.status[Len(b.status) - 1] \in Stamps
  BY <1>1, <1>2, LifeStep
<1> QED
  BY <1>1, <1>2, <1>3 DEF Stamps

(* What a submission leaves before it.                                     *)
LEMMA BeforeSubmission ==
    ASSUME NEW prev \in Statuses
    PROVE  /\ "Submitted" \in Follows(prev) => prev = "Pending"
           /\ "SubmittedUnexpected" \in Follows(prev) => prev = "Failed"
           /\ "Pending" \in Follows(prev) => prev \notin {"Submitted", "Confirmed"}
  BY DEF Statuses, Follows

(* The submission of the pending bundle is undone: it gives its outputs    *)
(* back and is pending again; another submission moves no output.          *)
LEMMA UndoSubmittedOK ==
    ASSUME NEW d, NEW C, PegOK(d, C), NEW m \in Bundles, NEW height \in Nat,
           NEW r, r = DisconnectSubmitted(d, m, height), r.ok
    PROVE  PegOK(r, C)
<1>1. d \in Dbs /\ ~Fail(d).ok
  BY FailFacts DEF PegOK
<1>2. CASE m \notin DOMAIN d.bundles
  <2>1. r = d
    BY <1>1, <1>2 DEF DisconnectSubmitted
  <2> QED
    BY <2>1
<1>3. CASE m \in DOMAIN d.bundles
  <2>1. PICK b : b = d.bundles[m]
    OBVIOUS
  <2>2. PICK last : last = Latest(b.status).value
    OBVIOUS
  <2>3. PICK prev : prev = b.status[Len(b.status) - 1].value
    OBVIOUS
  <2>4. /\ RecordOK(m, b) /\ b.info.spend \subseteq Outputs /\ b.status \in Seq(Stamps)
        /\ last = b.status[Len(b.status)].value
    BY <1>3, <2>1, <2>2, RecordFields DEF PegOK
  <2>5. last \in SubmittedKinds
    BY <1>1, <1>3, <2>1, <2>2 DEF DisconnectSubmitted
  <2>6. Holder(d.bundles, m) <=> b.info.kind = "Known" /\ last \in {"Submitted", "Confirmed"}
    BY <1>3, <2>1, <2>4, HolderByStatus
  <2>7. b.info.kind = "Known" =>
           /\ Len(b.status) > 1
           /\ last = "Submitted" => prev = "Pending"
           /\ last = "SubmittedUnexpected" => prev = "Failed"
    <3> SUFFICES ASSUME b.info.kind = "Known"
                 PROVE  /\ Len(b.status) > 1
                        /\ last = "Submitted" => prev = "Pending"
                        /\ last = "SubmittedUnexpected" => prev = "Failed"
      OBVIOUS
    <3>1. Len(b.status) > 1 /\ prev \in Statuses /\ last \in Follows(prev)
      BY <2>2, <2>3, <2>4, <2>5, LastTwo DEF SubmittedKinds
    <3> QED
      BY <3>1, BeforeSubmission
  <2>8. CASE b.info.kind = "Known" /\ Len(b.status) > 1 /\ prev = "Pending"
    <3>1. PICK x : x = Unspend(d, b.info.spend)
      OBVIOUS
    <3>2. PICK y : y = PopStatus(x, m)
      OBVIOUS
    <3>3. r = [y EXCEPT !.pending = m]
      BY <1>1, <1>3, <2>1, <2>2, <2>3, <2>5, <2>8, <3>1, <3>2 DEF DisconnectSubmitted
    <3>4. /\ x \in Dbs /\ x.utxos = d.utxos \cup b.info.spend
          /\ x.stxos = d.stxos \ b.info.spend /\ x.bundles = d.bundles
      BY <1>1, <2>4, <3>1, UnspendFacts
    <3>5. /\ y \in Dbs /\ SameOutputs(x, y) /\ Changed(d.bundles, y.bundles, m)
          /\ m \in DOMAIN y.bundles /\ RecordOK(m, y.bundles[m]) /\ y.bundles[m].info = b.info
          /\ y.bundles[m].status[Len(y.bundles[m].status)].value = prev
          /\ ~Holder(y.bundles, m)
      <4>1. x \in Dbs /\ x.bundles = d.bundles
        BY <3>4
      <4>2. Popped(d, x, y, m, b, prev)
        BY <1>3, <2>1, <2>3, <3>2, <4>1, PopMove
      <4> QED
        BY <2>8, <4>2 DEF Popped
    <3>6. /\ r \in Dbs /\ r.utxos = y.utxos /\ r.stxos = y.stxos /\ r.bundles = y.bundles
          /\ r.pending = m
      <4>1. y \in Dbs /\ m \in Bundles \cup {None}
        BY <3>5
      <4> QED
        BY ONLY <3>3, <4>1, PendingFacts
    <3>7. r.utxos = d.utxos \cup b.info.spend /\ r.stxos = d.stxos \ b.info.spend
      BY <3>4, <3>5, <3>6 DEF SameOutputs
    <3>8. Holder(d.bundles, m)
      BY <2>5, <2>6, <2>7, <2>8 DEF SubmittedKinds
    <3>9. /\ Changed(d.bundles, r.bundles, m) /\ ~Holder(r.bundles, m)
          /\ m \in DOMAIN r.bundles /\ RecordOK(m, r.bundles[m])
          /\ r.bundles[m].info.kind = "Known"
          /\ r.bundles[m].status[Len(r.bundles[m].status)].value = "Pending"
      BY <2>8, <3>5, <3>6
    <3> QED
      BY <1>3, <2>1, <3>6, <3>7, <3>8, <3>9, PegGive
  <2>9. CASE ~(b.info.kind = "Known" /\ Len(b.status) > 1 /\ prev = "Pending")
    <3>1. r = PopStatus(d, m)
      BY <1>1, <1>3, <2>1, <2>2, <2>3, <2>5, <2>9 DEF DisconnectSubmitted
    <3>2. /\ r \in Dbs /\ SameOutputs(d, r) /\ Changed(d.bundles, r.bundles, m)
          /\ m \in DOMAIN r.bundles => RecordOK(m, r.bundles[m])
          /\ Holder(r.bundles, m) <=>
                /\ Len(b.status) > 1 /\ b.info.kind = "Known"
                /\ prev \in {"Submitted", "Confirmed"}
      BY <1>1, <1>3, <2>1, <2>3, <3>1, PopMove DEF Popped
    <3>3. ~Holder(d.bundles, m) /\ ~Holder(r.bundles, m)
      BY <2>5, <2>6, <2>7, <2>9, <3>2 DEF SubmittedKinds
    <3>4. r.pending # m
      BY <1>3, <2>1, <2>2, <2>5, <3>2, NotPending DEF SameOutputs, SubmittedKinds
    <3> QED
      BY <3>2, <3>3, <3>4, PegSettled
  <2> QED
    BY <2>8, <2>9
<1> QED
  BY <1>2, <1>3

(* A confirmation is undone: an unexpected bundle gives its outputs back,  *)
(* and an unknown one everything.                                          *)
LEMMA UndoConfirmedOK ==
    ASSUME NEW d, NEW C, PegOK(d, C), NEW m \in Bundles, NEW height \in Nat,
           NEW r, r = DisconnectConfirmed(d, m, height), r.ok
    PROVE  PegOK(r, C)
<1>1. d \in Dbs /\ ~Fail(d).ok /\ m \in DOMAIN d.bundles
  BY FailFacts DEF PegOK, DisconnectConfirmed
<1>2. PICK b : b = d.bundles[m]
  OBVIOUS
<1>3. PICK last : last = Latest(b.status).value
  OBVIOUS
<1>4. PICK prev : prev = b.status[Len(b.status) - 1].value
  OBVIOUS
<1>5. /\ RecordOK(m, b) /\ b.info.spend \subseteq Outputs /\ b.status \in Seq(Stamps)
      /\ last = b.status[Len(b.status)].value /\ Len(b.status) \in Nat /\ Len(b.status) > 0
      /\ b.info.kind \in {"Known", "Unknown", "UnknownConfirmed"}
  BY <1>1, <1>2, <1>3, RecordFields DEF PegOK
<1>6. CASE last \in SubmittedKinds
  <2>1. r = d
    BY <1>1, <1>2, <1>3, <1>6 DEF DisconnectConfirmed
  <2> QED
    BY <2>1
<1>7. CASE last \notin SubmittedKinds
  <2>1. /\ last = "Confirmed" /\ Len(b.status) # 1 /\ prev \in SubmittedKinds
        /\ b.info.spend \subseteq d.stxos
    BY <1>1, <1>2, <1>3, <1>4, <1>7 DEF DisconnectConfirmed
  <2>2. Len(b.status) > 1
    <3>1. \A k \in Nat : k > 0 /\ k # 1 => k > 1
      OBVIOUS
    <3> QED
      BY <1>5, <2>1, <3>1, Zenon
  <2>3. Holder(d.bundles, m) <=> b.info.kind = "Known"
    BY <1>1, <1>2, <1>5, <2>1, HolderByStatus
  <2>4. d.pending # m
    BY <1>1, <1>2, <1>3, <2>1, NotPending
  <2>5. CASE b.info.kind = "Known" /\ prev = "SubmittedUnexpected"
    <3>1. PICK x : x = Unspend(d, b.info.spend)
      OBVIOUS
    <3>2. r = PopStatus(x, m)
      BY <1>1, <1>2, <1>3, <1>4, <1>7, <2>1, <2>5, <3>1 DEF DisconnectConfirmed
    <3>3. /\ x \in Dbs /\ x.utxos = d.utxos \cup b.info.spend
          /\ x.stxos = d.stxos \ b.info.spend /\ x.bundles = d.bundles
          /\ x.pending = d.pending
      BY <1>1, <1>5, <3>1, UnspendFacts
    <3>4. /\ r \in Dbs /\ SameOutputs(x, r) /\ Changed(d.bundles, r.bundles, m)
          /\ m \in DOMAIN r.bundles => RecordOK(m, r.bundles[m])
          /\ ~Holder(r.bundles, m)
      <4>1. x \in Dbs /\ x.bundles = d.bundles
        BY <3>3
      <4>2. Popped(d, x, r, m, b, prev)
        BY <1>1, <1>2, <1>4, <3>2, <4>1, PopMove
      <4> QED
        BY <2>5, <4>2 DEF Popped
    <3>5. /\ r.utxos = d.utxos \cup b.info.spend /\ r.stxos = d.stxos \ b.info.spend
          /\ r.pending = d.pending /\ r.pending # m
      BY <2>4, <3>3, <3>4 DEF SameOutputs
    <3> QED
      BY <1>1, <1>2, <2>3, <2>5, <3>4, <3>5, PegGive
  <2>6. CASE b.info.kind = "UnknownConfirmed"
    <3>1. PICK x : x = Unspend(d, b.info.spend)
      OBVIOUS
    <3>2. PICK s : s = Front(b.status)
      OBVIOUS
    <3>3. r = PutBundle(x, m, Unknown, s)
      BY <1>1, <1>2, <1>3, <1>4, <1>7, <2>1, <2>6, <3>1, <3>2 DEF DisconnectConfirmed
    <3>4. /\ x \in Dbs /\ x.utxos = d.utxos \cup b.info.spend
          /\ x.stxos = d.stxos \ b.info.spend /\ x.bundles = d.bundles
          /\ x.pending = d.pending
      BY <1>1, <1>5, <3>1, UnspendFacts
    <3>5. s \in Seq(Stamps) /\ Len(s) = Len(b.status) - 1
      BY <1>5, <3>2, FrontFacts
    <3>6. Len(s) > 0
      <4>1. \A k \in Nat : k > 1 => k - 1 > 0
        OBVIOUS
      <4>2. Len(b.status) - 1 > 0
        BY <1>5, <2>2, <4>1, Zenon
      <4> QED
        BY <3>5, <4>2
    <3>7. PICK info \in Infos : info = Unknown /\ info.kind = "Unknown" /\ info.spend = {}
      <4>1. Unknown \in Infos /\ Unknown.kind = "Unknown" /\ Unknown.spend = {}
        BY DEF Unknown, Infos
      <4> QED
        BY <4>1
    <3>8. r = PutBundle(x, m, info, s)
      BY <3>3, <3>7
    <3>9. /\ r \in Dbs /\ r.bundles[m] = [info |-> info, status |-> s] /\ r.bundles[m] \in Records
          /\ Changed(x.bundles, r.bundles, m) /\ SameOutputs(x, r)
      <4>1. x \in Dbs /\ s \in Seq(Stamps)
        BY <3>4, <3>5
      <4> QED
        BY <3>8, <4>1, PutBundleFacts
    <3>10. /\ r.utxos = d.utxos \cup b.info.spend /\ r.stxos = d.stxos \ b.info.spend
           /\ r.pending = d.pending /\ r.pending # m /\ Changed(d.bundles, r.bundles, m)
      BY <2>4, <3>4, <3>9 DEF SameOutputs
    <3>11. m \in UnknownBundles /\ b.info.spend \cap Withdrawals = {}
      BY <1>5, <2>6 DEF RecordOK
    <3>12. RecordOK(m, r.bundles[m])
      <4>1. r.bundles[m].info = info /\ r.bundles[m].status = s
        BY <3>9
      <4> QED
        BY <3>6, <3>7, <3>9, <3>11, <4>1 DEF RecordOK
    <3>13. ~Holder(d.bundles, m) /\ ~Holder(r.bundles, m)
      BY <2>3, <2>6, <3>7, <3>9 DEF Holder, HoldsIn
    <3>14. Divided(r.bundles, r.stxos)
      <4>1. \A w \in Withdrawals : w \in r.stxos <=> w \in d.stxos
        BY <3>10, <3>11
      <4>2. Divided(d.bundles, r.stxos)
        BY <4>1, DividedOther
      <4> QED
        BY <3>10, <3>13, <4>2, DividedSame
    <3>15. r.utxos \cup r.stxos = C /\ r.utxos \cap r.stxos = {}
      BY <2>1, <3>10 DEF PegOK
    <3> QED
      BY <3>9, <3>10, <3>12, <3>14, <3>15, PegMove
  <2>7. CASE ~(b.info.kind = "Known" /\ prev = "SubmittedUnexpected") /\ b.info.kind # "UnknownConfirmed"
    <3>1. r = PopStatus(d, m)
      BY <1>1, <1>2, <1>3, <1>4, <1>7, <2>1, <2>7 DEF DisconnectConfirmed
    <3>2. /\ r \in Dbs /\ SameOutputs(d, r) /\ Changed(d.bundles, r.bundles, m)
          /\ m \in DOMAIN r.bundles =>
                RecordOK(m, r.bundles[m]) /\ r.bundles[m].info = b.info
          /\ m \in DOMAIN r.bundles
          /\ Holder(r.bundles, m) <=>
                /\ Len(b.status) > 1 /\ b.info.kind = "Known"
                /\ prev \in {"Submitted", "Confirmed"}
      BY <1>1, <1>2, <1>4, <2>2, <3>1, PopMove DEF Popped
    <3>3. Holder(d.bundles, m) <=> Holder(r.bundles, m)
      BY <2>1, <2>2, <2>3, <2>7, <3>2 DEF SubmittedKinds
    <3>4. r.pending # m /\ r.bundles[m].info.spend = d.bundles[m].info.spend
      BY <1>2, <2>4, <3>2 DEF SameOutputs
    <3> QED
      BY <3>2, <3>3, <3>4, PegSettled
  <2> QED
    BY <2>5, <2>6, <2>7
<1> QED
  BY <1>6, <1>7

(* A failure is undone: an expected bundle takes its outputs again.        *)
LEMMA UndoFailedOK ==
    ASSUME NEW d, NEW C, PegOK(d, C), NEW m \in Bundles, NEW height \in Nat,
           NEW r, r = DisconnectFailed(d, m, height), r.ok
    PROVE  PegOK(r, C)
<1>1. d \in Dbs /\ ~Fail(d).ok /\ m \in DOMAIN d.bundles
  BY FailFacts DEF PegOK, DisconnectFailed
<1>2. PICK b : b = d.bundles[m]
  OBVIOUS
<1>3. PICK last : last = Latest(b.status).value
  OBVIOUS
<1>4. PICK prev : prev = b.status[Len(b.status) - 1].value
  OBVIOUS
<1>5. /\ RecordOK(m, b) /\ b.info.spend \subseteq Outputs /\ b.status \in Seq(Stamps)
      /\ last = b.status[Len(b.status)].value /\ Len(b.status) \in Nat /\ Len(b.status) > 0
  BY <1>1, <1>2, <1>3, RecordFields DEF PegOK
<1>6. CASE last = "Submitted"
  <2>1. r = d
    BY <1>1, <1>2, <1>3, <1>6 DEF DisconnectFailed
  <2> QED
    BY <2>1
<1>7. CASE last # "Submitted"
  <2>1. last = "Failed" /\ Len(b.status) # 1 /\ prev \in SubmittedKinds
    BY <1>1, <1>2, <1>3, <1>4, <1>7 DEF DisconnectFailed
  <2>2. Len(b.status) > 1
    <3>1. \A k \in Nat : k > 0 /\ k # 1 => k > 1
      OBVIOUS
    <3> QED
      BY <1>5, <2>1, <3>1, Zenon
  <2>3. ~Holder(d.bundles, m)
    BY <1>1, <1>2, <1>5, <2>1, HolderByStatus
  <2>4. d.pending # m
    BY <1>1, <1>2, <1>3, <2>1, NotPending
  <2>5. CASE b.info.kind # "Known" \/ prev = "SubmittedUnexpected"
    <3>1. r = PopStatus(d, m)
      BY <1>1, <1>2, <1>3, <1>4, <1>7, <2>1, <2>5 DEF DisconnectFailed
    <3>2. Popped(d, d, r, m, b, prev)
      BY <1>1, <1>2, <1>4, <3>1, PopMove
    <3>3. /\ r \in Dbs /\ SameOutputs(d, r) /\ Changed(d.bundles, r.bundles, m)
          /\ m \in DOMAIN r.bundles => RecordOK(m, r.bundles[m])
          /\ ~Holder(r.bundles, m)
      BY <2>5, <3>2 DEF Popped
    <3>4. r.pending # m
      BY <2>4, <3>3 DEF SameOutputs
    <3> QED
      BY SMTT(30), <2>3, <3>3, <3>4, PegSettled
  <2>6. CASE b.info.kind = "Known" /\ prev # "SubmittedUnexpected"
    <3>1. PICK x : x = Spend(d, b.info.spend)
      OBVIOUS
    <3>2. PICK y : y = PopStatus(x, m)
      OBVIOUS
    <3>3. PICK f : f = Front(y.latest_failed)
      BY Zenon
    <3>4. /\ b.info.spend \subseteq d.utxos /\ d.latest_failed # <<>>
          /\ r = [y EXCEPT !.latest_failed = f]
      BY <1>1, <1>2, <1>3, <1>4, <1>7, <2>1, <2>6, <3>1, <3>2, <3>3 DEF DisconnectFailed
    <3>5. /\ x \in Dbs /\ x.utxos = d.utxos \ b.info.spend
          /\ x.stxos = d.stxos \cup b.info.spend
          /\ x.pending = d.pending /\ x.latest_failed = d.latest_failed
      BY <1>1, <1>5, <3>1, SpendFacts
    <3>6. x \in Dbs /\ x.bundles = d.bundles
      BY <1>1, <1>5, <3>1, SpendFacts
    <3>7. Popped(d, x, y, m, b, prev)
      BY <1>1, <1>2, <1>4, <3>2, <3>6, PopMove
    <3>8. /\ y \in Dbs /\ SameOutputs(x, y) /\ Changed(d.bundles, y.bundles, m)
          /\ RecordOK(m, y.bundles[m]) /\ y.bundles[m].info = b.info
          /\ Holder(y.bundles, m)
      BY <2>1, <2>2, <2>6, <3>7 DEF Popped, SubmittedKinds
    <3>9. f \in Seq([value : Bundles, height : Nat])
      <4>1. y.latest_failed = d.latest_failed
        BY <3>5, <3>8 DEF SameOutputs
      <4>2. PICK S : S = [value : Bundles, height : Nat]
        OBVIOUS
      <4>3. PICK q \in Seq(S) : q = d.latest_failed /\ q # <<>>
        BY <1>1, <3>4, <4>2, DbFields
      <4>4. Len(q) > 0
        BY <4>3
      <4>5. Front(q) \in Seq(S)
        BY <4>4, FrontFacts
      <4> QED
        BY <3>3, <4>1, <4>2, <4>3, <4>5
    <3>10. /\ r \in Dbs /\ r.utxos = y.utxos /\ r.stxos = y.stxos /\ r.bundles = y.bundles
           /\ r.pending = y.pending
      <4>1. y \in Dbs /\ r = [y EXCEPT !.latest_failed = f]
        BY <3>4, <3>8
      <4> QED
        BY ONLY <3>9, <4>1, FailedFacts
    <3>11. /\ r.utxos = d.utxos \ b.info.spend /\ r.stxos = d.stxos \cup b.info.spend
           /\ r.pending = d.pending /\ r.pending # m
      BY <2>4, <3>5, <3>8, <3>10 DEF SameOutputs
    <3>12. /\ Changed(d.bundles, r.bundles, m) /\ RecordOK(m, r.bundles[m])
           /\ r.bundles[m].info = b.info /\ Holder(r.bundles, m)
      BY <3>8, <3>10
    <3>13. b.info.spend \subseteq d.utxos
      BY <3>4
    <3> QED
      BY <1>1, <1>2, <2>3, <3>10, <3>11, <3>12, <3>13, PegTake
  <2> QED
    BY SMTT(30), <2>5, <2>6
<1> QED
  BY SMTT(30), <1>6, <1>7

(* A block's own outputs are taken back.                                   *)
LEMMA UndoOutputsOK ==
    ASSUME NEW d, NEW C, PegOK(d, C), NEW new, new \subseteq d.utxos,
           NEW spent, spent \subseteq Deposits, spent \subseteq d.stxos, new \cap spent = {},
           NEW r \in Dbs, r.bundles = d.bundles, r.pending = d.pending,
           r.utxos = (d.utxos \cup spent) \ new, r.stxos = d.stxos \ spent
    PROVE  PegOK(r, C \ new)
<1>1. r.utxos \cup r.stxos = C \ new /\ r.utxos \cap r.stxos = {}
  BY DEF PegOK
<1>2. \A w \in Withdrawals : w \in r.stxos <=> w \in d.stxos
  BY PegAssumption
<1>3. Divided(r.bundles, r.stxos)
  BY <1>2, DividedOther
<1> QED
  BY <1>1, <1>3 DEF PegOK

(* A deposit is taken back.                                                *)
LEMMA UndoDepositOK ==
    ASSUME NEW d, NEW C, PegOK(d, C), NEW id \in d.utxos,
           NEW r, r = [d EXCEPT !.utxos = @ \ {id}]
    PROVE  PegOK(r, C \ {id})
<1>1. /\ r \in Dbs /\ r.bundles = d.bundles /\ r.pending = d.pending
      /\ r.utxos = d.utxos \ {id} /\ r.stxos = d.stxos
  BY DEF Dbs, PegOK
<1>2. PICK new, spent : new = {id} /\ spent = {}
  OBVIOUS
<1>3. /\ new \subseteq d.utxos /\ spent \subseteq Deposits /\ spent \subseteq d.stxos
      /\ new \cap spent = {}
      /\ r.utxos = (d.utxos \cup spent) \ new /\ r.stxos = d.stxos \ spent
  BY <1>1, <1>2
<1>4. PegOK(r, C \ new)
  BY <1>1, <1>3, UndoOutputsOK
<1> QED
  BY <1>2, <1>4

(* The outputs of a block's transactions are taken back.                   *)
LEMMA UndoBodyOK ==
    ASSUME NEW d, NEW C, PegOK(d, C), NEW created \in SUBSET Withdrawals,
           NEW spent \in SUBSET Deposits,
           NEW r, r = DisconnectBody(d, created, spent), r.ok
    PROVE  PegOK(r, C \ created)
<1>1. d \in Dbs /\ ~Fail(d).ok
  BY FailFacts DEF PegOK
<1>2. PICK x : x = Unspend(d, spent)
  OBVIOUS
<1>3. created \subseteq d.utxos /\ spent \subseteq d.stxos /\ r = [x EXCEPT !.utxos = @ \ created]
  BY <1>1, <1>2 DEF DisconnectBody
<1>4. /\ x \in Dbs /\ x.utxos = d.utxos \cup spent /\ x.stxos = d.stxos \ spent
      /\ x.bundles = d.bundles /\ x.pending = d.pending
  BY <1>1, <1>2, UnspendFacts DEF Outputs
<1>5. /\ r \in Dbs /\ r.bundles = d.bundles /\ r.pending = d.pending
      /\ r.utxos = (d.utxos \cup spent) \ created /\ r.stxos = d.stxos \ spent
  BY <1>3, <1>4 DEF Dbs
<1>6. created \cap spent = {}
  BY PegAssumption
<1> QED
  BY <1>3, <1>5, <1>6, UndoOutputsOK

(* One event is disconnected.                                              *)
LEMMA UndoEventOK ==
    ASSUME NEW d, NEW C, PegOK(d, C), NEW e \in PegEvents, NEW height \in Nat,
           NEW r, r = DisconnectEvent(d, e, height), r.ok
    PROVE  PegOK(r, C \ DepositOf(e))
<1>1. /\ e.kind \in {"Deposit", "Submitted", "Confirmed", "Failed"}
      /\ e.kind # "Deposit" => e.id \in Bundles
      /\ ~Fail(d).ok
  BY FailFacts DEF PegEvents, PegOK
<1>2. CASE e.kind = "Deposit"
  <2>1. e.id \in d.utxos /\ r = [d EXCEPT !.utxos = @ \ {e.id}]
    BY <1>1, <1>2 DEF DisconnectEvent
  <2>2. PICK id \in d.utxos : id = e.id
    BY <2>1
  <2>3. r = [d EXCEPT !.utxos = @ \ {id}]
    BY <2>1, <2>2
  <2>4. PegOK(r, C \ {id})
    BY <2>3, UndoDepositOK
  <2> QED
    BY <1>2, <2>2, <2>4 DEF DepositOf
<1>3. CASE e.kind # "Deposit"
  <2>1. C \ DepositOf(e) = C
    BY <1>3 DEF DepositOf
  <2>2. PICK m \in Bundles : m = e.id
    BY <1>1, <1>3
  <2>3. \/ r = DisconnectSubmitted(d, m, height)
        \/ r = DisconnectConfirmed(d, m, height)
        \/ r = DisconnectFailed(d, m, height)
    BY <1>1, <1>3, <2>2 DEF DisconnectEvent
  <2>4. PegOK(r, C)
    BY <2>3, UndoSubmittedOK, UndoConfirmedOK, UndoFailedOK
  <2> QED
    BY <2>1, <2>4
<1> QED
  BY <1>2, <1>3

(* An event before the later ones: nothing after an error.                 *)
DisconnectNext(x, event, height) == IF x.ok THEN DisconnectEvent(x, event, height) ELSE x

(* The databases after each event is disconnected, the last one first.     *)
LEMMA DisconnectRuns ==
    ASSUME NEW d, NEW events, NEW height, Len(events) \in Nat
    PROVE  \E f : /\ DisconnectEvents(d, events, height) = f[Len(events)]
                  /\ f[0] = d
                  /\ \A i \in 1..Len(events) :
                        f[i] = DisconnectNext(f[i - 1], events[Len(events) + 1 - i], height)
<1> DEFINE n == Len(events)
           value(f, i) == IF i = 0 THEN d ELSE DisconnectNext(f[i - 1], events[n + 1 - i], height)
           isRun(f, k) == f = [i \in 0..k |-> value(f, i)]
           run == CHOOSE f : isRun(f, n)
           G == {k \in 0..n : \E f : isRun(f, k)}
<1>1. DisconnectEvents(d, events, height) = run[n]
  BY Zenon DEF DisconnectEvents, DisconnectNext
<1>2. \E f : isRun(f, n)
  <2>1. 0 \in G
    <3>1. \E f : isRun(f, 0)
      <4>1. isRun([i \in 0..0 |-> d], 0)
        OBVIOUS
      <4> QED
        BY <4>1, Zenon
    <3>2. 0 \in 0..n
      OBVIOUS
    <3> HIDE DEF isRun, n
    <3> QED
      BY <3>1, <3>2
  <2>2. ASSUME NEW k \in 1..n, k - 1 \in G PROVE k \in G
    <3>1. PICK f : isRun(f, k - 1)
      BY <2>2
    <3>2. k - 1 \in 0..(k - 1) /\ k \in 0..n /\ k \notin 0..(k - 1) /\ 0..k = (0..(k - 1)) \cup {k} /\ k # 0
      OBVIOUS
    <3>3. PICK g : g = [i \in 0..k |-> IF i = k THEN DisconnectNext(f[k - 1], events[n + 1 - k], height)
                                       ELSE f[i]]
      OBVIOUS
    <3>4. \A i \in 0..(k - 1) : g[i] = f[i]
      BY <3>2, <3>3
    <3>5. ASSUME NEW i \in 0..k PROVE g[i] = value(g, i)
      <4>1. CASE i = k
        BY <3>2, <3>3, <3>4, <4>1
      <4>2. CASE i # k
        <5>1. i \in 0..(k - 1) /\ (i # 0 => i - 1 \in 0..(k - 1))
          BY <4>2
        <5>2. f[i] = value(f, i)
          BY <3>1, <5>1, Zenon
        <5> QED
          BY <3>4, <5>1, <5>2, Zenon
      <4> QED
        BY <4>1, <4>2
    <3>6. isRun(g, k)
      <4> HIDE DEF value
      <4> QED
        BY <3>3, <3>5
    <3> QED
      BY <3>2, <3>6, Zenon
  <2>3. \A k \in 0..n : k \in G
    <3> HIDE DEF G, n
    <3>1. n \in Nat
      BY DEF n
    <3> QED
      BY <2>1, <2>2, <3>1, Loop!Steps
  <2> QED
    BY <2>3
<1>3. isRun(run, n)
  <2> HIDE DEF isRun
  <2> QED
    BY <1>2, Zenon
<1>4. \A i \in 0..n : run[i] = value(run, i)
  <2> HIDE DEF run
  <2> QED
    BY <1>3, Zenon
<1> HIDE DEF run
<1>5. run[0] = d /\ \A i \in 1..n : run[i] = DisconnectNext(run[i - 1], events[n + 1 - i], height)
  <2>1. 0 \in 0..n /\ \A i \in 1..n : i \in 0..n /\ i # 0
    OBVIOUS
  <2> QED
    BY <1>4, <2>1, Zenon
<1> QED
  BY <1>1, <1>5, Zenon

(* The deposits among the last i events.                                   *)
LastDeposits(events, i) ==
    {events[j].id : j \in {k \in 1..Len(events) : k > Len(events) - i /\ events[k].kind = "Deposit"}}

(* One deposit more.                                                       *)
LEMMA LastDepositsStep ==
    ASSUME NEW events, Len(events) \in Nat, NEW i \in 1..Len(events)
    PROVE  LastDeposits(events, i)
              = LastDeposits(events, i - 1) \cup DepositOf(events[Len(events) + 1 - i])
<1>1. PICK n \in Nat : n = Len(events)
  OBVIOUS
<1>2. \A j : j \in 1..n /\ j > n - i <=> (j \in 1..n /\ j > n - (i - 1)) \/ j = n + 1 - i
  BY <1>1
<1>3. PICK l : l = n + 1 - i
  OBVIOUS
<1>4. \A w : w \in LastDeposits(events, i) <=>
         \E j \in 1..n : j > n - i /\ events[j].kind = "Deposit" /\ w = events[j].id
  BY <1>1 DEF LastDeposits
<1>5. \A w : w \in LastDeposits(events, i - 1) <=>
         \E j \in 1..n : j > n - (i - 1) /\ events[j].kind = "Deposit" /\ w = events[j].id
  BY <1>1 DEF LastDeposits
<1>6. \A w : w \in DepositOf(events[l]) <=> events[l].kind = "Deposit" /\ w = events[l].id
  BY DEF DepositOf
<1>7. \A w : w \in LastDeposits(events, i) <=>
         w \in LastDeposits(events, i - 1) \/ w \in DepositOf(events[l])
  <2>1. ASSUME NEW w \in LastDeposits(events, i)
        PROVE  w \in LastDeposits(events, i - 1) \/ w \in DepositOf(events[l])
    <3>1. PICK j \in 1..n : j > n - i /\ events[j].kind = "Deposit" /\ w = events[j].id
      BY <1>4
    <3>2. j > n - (i - 1) \/ j = l
      BY <1>2, <1>3, <3>1
    <3> QED
      BY <1>5, <1>6, <3>1, <3>2, Zenon
  <2>2. ASSUME NEW w \in LastDeposits(events, i - 1) PROVE w \in LastDeposits(events, i)
    <3>1. PICK j \in 1..n : j > n - (i - 1) /\ events[j].kind = "Deposit" /\ w = events[j].id
      BY <1>5
    <3>2. j > n - i
      BY <1>2, <3>1
    <3> QED
      BY <1>4, <3>1, <3>2, Zenon
  <2>3. ASSUME NEW w \in DepositOf(events[l]) PROVE w \in LastDeposits(events, i)
    <3>1. l \in 1..n /\ l > n - i
      BY <1>2, <1>3
    <3> QED
      BY <1>4, <1>6, <3>1, Zenon
  <2> QED
    BY <2>1, <2>2, <2>3, Zenon
<1>8. LastDeposits(events, i) = LastDeposits(events, i - 1) \cup DepositOf(events[l])
  BY <1>7
<1> QED
  BY <1>1, <1>3, <1>8

(* All of them.                                                            *)
LEMMA LastDepositsAll ==
    ASSUME NEW events \in Seq(PegEvents)
    PROVE  /\ LastDeposits(events, Len(events)) = DepositsIn(events)
           /\ LastDeposits(events, 0) = {}
<1>1. DOMAIN events = 1..Len(events)
  OBVIOUS
<1>2. \A k \in 1..Len(events) : k > Len(events) - Len(events) /\ ~(k > Len(events) - 0)
  OBVIOUS
<1> QED
  BY <1>1, <1>2 DEF LastDeposits, DepositsIn

(* The events of the last block of a chain that created the outputs C.     *)
LEMMA UndoEventsOK ==
    ASSUME NEW d, NEW C, PegOK(d, C), NEW events \in Seq(PegEvents), NEW height \in Nat,
           NEW r, r = DisconnectEvents(d, events, height), r.ok
    PROVE  PegOK(r, C \ DepositsIn(events))
<1> DEFINE n == Len(events)
<1>1. n \in Nat
  OBVIOUS
<1>2. PICK f : /\ r = f[n] /\ f[0] = d
               /\ \A i \in 1..n : f[i] = DisconnectNext(f[i - 1], events[n + 1 - i], height)
  BY <1>1, DisconnectRuns
<1> DEFINE G == {i \in 0..n : f[i].ok => PegOK(f[i], C \ LastDeposits(events, i))}
<1>3. 0 \in G
  <2>1. C \ LastDeposits(events, 0) = C
    BY LastDepositsAll
  <2>2. 0 \in 0..n
    BY <1>1
  <2> HIDE DEF n
  <2> QED
    BY <1>2, <2>1, <2>2
<1>4. ASSUME NEW i \in 1..n, i - 1 \in G PROVE i \in G
  <2>1. i \in 0..n /\ n + 1 - i \in 1..Len(events)
    OBVIOUS
  <2>2. PICK x : x = f[i - 1]
    OBVIOUS
  <2>3. PICK y : y = f[i]
    OBVIOUS
  <2>4. PICK e \in PegEvents : e = events[n + 1 - i]
    BY <2>1, ElementOfSeq
  <2>5. PICK B : B = C \ LastDeposits(events, i - 1)
    OBVIOUS
  <2> SUFFICES ASSUME y.ok PROVE PegOK(y, C \ LastDeposits(events, i))
    BY <2>1, <2>3
  <2>6. y = DisconnectNext(x, e, height)
    BY <1>2, <2>2, <2>3, <2>4
  <2>7. x.ok /\ y = DisconnectEvent(x, e, height)
    BY <2>6 DEF DisconnectNext
  <2>8. PegOK(x, B)
    BY <1>4, <2>2, <2>5, <2>7
  <2>9. PegOK(y, B \ DepositOf(e))
    BY <2>7, <2>8, UndoEventOK
  <2>10. B \ DepositOf(e) = C \ LastDeposits(events, i)
    BY <1>1, <2>4, <2>5, LastDepositsStep
  <2> QED
    BY <2>9, <2>10
<1>5. n \in G
  <2> HIDE DEF G, n
  <2>1. \A i \in 0..n : i \in G
    BY <1>1, <1>3, <1>4, Loop!Steps
  <2> QED
    BY <1>1, <2>1
<1>6. LastDeposits(events, n) = DepositsIn(events)
  BY LastDepositsAll
<1> QED
  BY <1>2, <1>5, <1>6

(* The heights of the event blocks are kept apart from the peg.            *)
LEMMA ForgetOK ==
    ASSUME NEW d, NEW C, PegOK(d, C), NEW events, NEW height \in Nat,
           NEW r, r = ForgetEventBlocks(d, events, height)
    PROVE  PegOK(r, C)
<1>1. d \in Dbs /\ d.deposit_blocks \in Seq(Nat) /\ d.bundle_blocks \in Seq(Nat)
  BY DbFields DEF PegOK
<1>2. CASE r = Fail(d)
  <2>1. /\ r \in Dbs /\ r.bundles = d.bundles /\ r.pending = d.pending
        /\ r.utxos = d.utxos /\ r.stxos = d.stxos
    BY <1>1, <1>2 DEF Dbs, Fail
  <2> QED
    BY <2>1, PegSame
<1>3. CASE r # Fail(d)
  <2>1. PICK q : q = d.deposit_blocks
    OBVIOUS
  <2>2. PICK u : u = d.bundle_blocks
    OBVIOUS
  <2>3. PICK s, t : /\ s = (IF "Deposit" \in Kinds(events) THEN Front(q) ELSE q)
                    /\ t = (IF Kinds(events) \ {"Deposit"} # {} THEN Front(u) ELSE u)
    OBVIOUS
  <2>4. /\ "Deposit" \in Kinds(events) => q # <<>>
        /\ Kinds(events) \ {"Deposit"} # {} => u # <<>>
        /\ r = [d EXCEPT !.deposit_blocks = s, !.bundle_blocks = t]
    BY <1>3, <2>1, <2>2, <2>3 DEF ForgetEventBlocks
  <2>5. q \in Seq(Nat) /\ u \in Seq(Nat)
    BY <1>1, <2>1, <2>2
  <2>6. (q # <<>> => Front(q) \in Seq(Nat)) /\ (u # <<>> => Front(u) \in Seq(Nat))
    BY <2>5, FrontFacts
  <2>7. s \in Seq(Nat) /\ t \in Seq(Nat)
    BY <2>3, <2>4, <2>5, <2>6
  <2>8. /\ r \in Dbs /\ r.bundles = d.bundles /\ r.pending = d.pending
        /\ r.utxos = d.utxos /\ r.stxos = d.stxos
    BY <1>1, <2>4, <2>7 DEF Dbs
  <2> QED
    BY <2>8, PegSame
<1> QED
  BY <1>2, <1>3

(* The bundle that the block collected is dropped.                         *)
LEMMA DropOK ==
    ASSUME NEW d, NEW C, PegOK(d, C), NEW height \in Nat,
           NEW r, r = DropPending(d, height), r.ok
    PROVE  PegOK(r, C)
<1>1. d \in Dbs /\ ~Fail(d).ok
  BY FailFacts DEF PegOK
<1>2. CASE r = d
  BY <1>2
<1>3. CASE r # d
  <2>1. PICK m : m = d.pending
    OBVIOUS
  <2>2. PICK y : y = PopStatus(d, m)
    OBVIOUS
  <2>3. m # None /\ m \in DOMAIN d.bundles /\ r = [y EXCEPT !.pending = None]
    BY <1>1, <1>3, <2>1, <2>2 DEF DropPending
  <2>4. PICK b : b = d.bundles[m]
    OBVIOUS
  <2>5. PICK prev : prev = b.status[Len(b.status) - 1].value
    OBVIOUS
  <2>6. RecordOK(m, b) /\ b.info.kind = "Known" /\ Latest(b.status).value = "Pending"
    BY <2>1, <2>3, <2>4 DEF PegOK
  <2>7. /\ b.status \in Seq(Stamps) /\ Latest(b.status) = b.status[Len(b.status)]
        /\ LifeOK(b.status)
    BY <2>6, RecordFields DEF RecordOK
  <2>8. ~Holder(d.bundles, m)
    BY <2>3, <2>4, <2>6, <2>7, HolderByStatus
  <2>9. Popped(d, d, y, m, b, prev)
    BY <1>1, <2>2, <2>3, <2>4, <2>5, PopMove
  <2>10. ~Holder(y.bundles, m)
    <3> SUFFICES ASSUME Len(b.status) > 1 PROVE prev \notin {"Submitted", "Confirmed"}
      BY <2>9 DEF Popped
    <3>1. /\ b.status[Len(b.status)].value \in Follows(prev)
          /\ b.status[Len(b.status) - 1] \in Stamps
      BY <2>5, <2>7, LifeStep
    <3>2. prev \in Statuses /\ "Pending" \in Follows(prev)
      BY <2>5, <2>6, <2>7, <3>1 DEF Stamps
    <3> QED
      BY <3>2, BeforeSubmission
  <2>11. /\ y \in Dbs /\ SameOutputs(d, y) /\ Changed(d.bundles, y.bundles, m)
         /\ m \in DOMAIN y.bundles => RecordOK(m, y.bundles[m])
    BY <2>9 DEF Popped
  <2>12. /\ r \in Dbs /\ r.utxos = y.utxos /\ r.stxos = y.stxos /\ r.bundles = y.bundles
         /\ r.pending = None
    <3>1. y \in Dbs /\ None \in Bundles \cup {None} /\ r = [y EXCEPT !.pending = None]
      BY <2>3, <2>11
    <3> QED
      BY ONLY <3>1, PendingFacts
  <2>13. /\ r.utxos \cup r.stxos = C /\ r.utxos \cap r.stxos = {} /\ r.stxos = d.stxos
    BY <2>11, <2>12 DEF SameOutputs, PegOK
  <2>14. Divided(r.bundles, r.stxos)
    <3>1. Divided(d.bundles, d.stxos)
      BY DEF PegOK
    <3>2. Divided(y.bundles, d.stxos)
      BY <2>8, <2>10, <2>11, <3>1, DividedSame
    <3> QED
      BY <2>12, <2>13, <3>2
  <2>15. Changed(d.bundles, r.bundles, m) /\ (m \in DOMAIN r.bundles => RecordOK(m, r.bundles[m]))
    BY <2>11, <2>12
  <2> QED
    BY <2>12, <2>13, <2>14, <2>15, PegMove
<1> QED
  BY <1>2, <1>3

(* The peg data of the last block.                                         *)
LEMMA UndoPegOK ==
    ASSUME NEW d, NEW C, PegOK(d, C), NEW events \in Seq(PegEvents), NEW height \in Nat,
           NEW r, r = DisconnectPeg(d, events, height), r.ok
    PROVE  PegOK(r, C \ DepositsIn(events))
<1>1. PICK x : x = DisconnectEvents(d, events, height)
  OBVIOUS
<1>2. PICK y : y = ForgetEventBlocks(x, events, height)
  OBVIOUS
<1>3. x.ok /\ r = DropPending(y, height)
  BY <1>1, <1>2 DEF DisconnectPeg
<1>4. PICK D : D = C \ DepositsIn(events)
  OBVIOUS
<1>5. PegOK(x, D)
  BY <1>1, <1>3, <1>4, UndoEventsOK
<1>6. PegOK(y, D)
  BY <1>2, <1>5, ForgetOK
<1>7. PegOK(r, D)
  BY <1>3, <1>6, DropOK
<1> QED
  BY <1>4, <1>7

(* A block that is disconnected keeps the invariant.                       *)
LEMMA DisconnectStep ==
    ASSUME PInv, DisconnectTip
    PROVE  PInv'
<1>1. /\ PegOK(db, Created(blocks)) /\ ChainOK(blocks) /\ scope \in Scope
      /\ before \in Seq(Dbs) /\ Len(before) = Len(blocks) /\ blocks # <<>>
  BY DEF PInv, DisconnectTip
<1>2. PICK blk : blk = blocks[Len(blocks)]
  OBVIOUS
<1>3. PICK g : g = Front(blocks)
  OBVIOUS
<1>4. /\ ChainOK(g) /\ Created(g) = Created(blocks) \ Made(blk)
      /\ Len(g) = Len(blocks) - 1 /\ Len(blocks) \in Nat /\ Len(blocks) > 0
      /\ blk \in Blocks
  BY <1>1, <1>2, <1>3, ChainFront
<1>5. /\ blk.created \in SUBSET Withdrawals /\ blk.spent \in SUBSET Deposits
      /\ blk.events \in Seq(PegEvents)
  BY <1>4 DEF Blocks
<1>6. PICK height \in Nat : height = Len(blocks) - 1
  BY <1>4
<1>7. PICK C : C = Created(blocks)
  OBVIOUS
<1>8. PICK d, events, created, spent :
         d = db /\ events = blk.events /\ created = blk.created /\ spent = blk.spent
  OBVIOUS
<1>9. PICK x : x = DisconnectPeg(d, events, height)
  OBVIOUS
<1>10. PICK r : r = Disconnected
  OBVIOUS
<1>11. /\ r.ok /\ db' = r /\ blocks' = g /\ before' = Front(before)
       /\ scope' = [scope EXCEPT !.disconnects = @ - 1] /\ scope.disconnects > 0
  BY <1>3, <1>10 DEF DisconnectTip
<1>12. r = IF x.ok THEN DisconnectBody(x, created, spent) ELSE x
  BY <1>2, <1>6, <1>8, <1>9, <1>10 DEF Disconnected
<1>13. x.ok /\ r = DisconnectBody(x, created, spent)
  BY <1>11, <1>12
<1>14. PICK D : D = C \ DepositsIn(events)
  OBVIOUS
<1>15. PegOK(x, D)
  <2>1. PegOK(d, C) /\ events \in Seq(PegEvents)
    BY <1>1, <1>5, <1>7, <1>8
  <2> QED
    BY <1>9, <1>13, <1>14, <2>1, UndoPegOK
<1>16. PegOK(r, D \ created)
  <2>1. created \in SUBSET Withdrawals /\ spent \in SUBSET Deposits
    BY <1>5, <1>8
  <2> QED
    BY <1>11, <1>13, <1>15, <2>1, UndoBodyOK
<1>17. D \ created = Created(g)
  BY <1>4, <1>7, <1>8, <1>14 DEF Made
<1>18. before' \in Seq(Dbs) /\ Len(before') = Len(g)
  <2>1. Len(before) > 0
    BY <1>1, <1>4
  <2>2. Front(before) \in Seq(Dbs) /\ Len(Front(before)) = Len(before) - 1
    BY <1>1, <2>1, FrontFacts
  <2> QED
    BY <1>1, <1>4, <1>11, <2>2
<1>19. scope' \in Scope
  BY <1>1, <1>11 DEF Scope
<1>20. PegOK(db', Created(blocks')) /\ db'.ok /\ ChainOK(blocks')
  BY <1>4, <1>11, <1>16, <1>17
<1> QED
  BY <1>11, <1>18, <1>19, <1>20 DEF PInv

-----------------------------------------------------------------------------
(* The theorems.                                                           *)

(* The databases of the empty chain.                                       *)
LEMMA PegInit ==
    Init => PInv
<1> SUFFICES ASSUME Init PROVE PInv
  OBVIOUS
<1>1. /\ blocks = <<>> /\ before = <<>> /\ db = EmptyDb /\ scope \in Scope
  BY PegAssumption DEF Init
<1>2. NoBundles \in Tables /\ DOMAIN NoBundles = {}
  <2>1. NoBundles \in [{} -> Records] /\ {} \in SUBSET Bundles
    BY DEF NoBundles
  <2> QED
    BY <2>1 DEF Tables
<1>3. PICK T \in Tables : T = NoBundles /\ DOMAIN T = {}
  BY <1>2
<1>4. /\ db.ok /\ db.utxos = {} /\ db.stxos = {} /\ db.bundles = T /\ db.pending = None
      /\ db \in Dbs
  BY <1>1, <1>3 DEF EmptyDb, Dbs
<1>5. Created(blocks) = {}
  BY <1>1 DEF Created
<1>6. PegOK(db, Created(blocks))
  BY <1>3, <1>4, <1>5 DEF PegOK, Divided
<1>7. ChainOK(blocks)
  BY <1>1 DEF ChainOK
<1>8. before \in Seq(Dbs) /\ Len(before) = Len(blocks)
  BY <1>1
<1> QED
  BY <1>1, <1>4, <1>6, <1>7, <1>8 DEF PInv

(* Every step keeps the invariant.                                         *)
LEMMA PegStep ==
    ASSUME CrossFork = FALSE, PInv, [Next]_vars
    PROVE  PInv'
<1>1. CASE \E created \in SUBSET (Withdrawals \ (db.utxos \cup db.stxos)),
              spent \in SUBSET (db.utxos \cap Deposits),
              n \in 0..scope.events :
                \E events \in [1..n -> MainchainEvents] : ConnectTip(created, spent, events)
  BY <1>1, ConnectStep
<1>2. CASE DisconnectTip
  BY <1>2, DisconnectStep
<1>3. CASE UNCHANGED vars
  BY <1>3 DEF vars, PInv, PegOK, ChainOK, Created
<1> QED
  BY <1>1, <1>2, <1>3 DEF Next

(* The invariant holds.                                                    *)
LEMMA PegInvariant ==
    ASSUME CrossFork = FALSE
    PROVE  Spec => []PInv
<1>1. PInv /\ [Next]_vars => PInv'
  BY PegStep
<1> QED
  BY <1>1, PegInit, PTL DEF Spec

(* Every output that the chain created is in exactly one of utxos and      *)
(* stxos, whatever blocks connect_two_way_peg_data applied and             *)
(* disconnect took back, while the mainchain reports only bundles that the *)
(* connected chain proposed.                                               *)
THEOREM OutputsAlwaysConserved ==
    ASSUME CrossFork = FALSE
    PROVE  Spec => []Conservation
<1>1. PInv => Conservation
  BY DEF PInv, PegOK, Conservation
<1> QED
  BY <1>1, PegInvariant, PTL

(* A withdrawal is held by one bundle if it is spent.                      *)
LEMMA HoldersCounted ==
    ASSUME PInv, NEW w \in Withdrawals
    PROVE  Cardinality(Holders(w)) = IF w \in db.stxos THEN 1 ELSE 0
<1>1. PICK T : T = db.bundles
  OBVIOUS
<1>2. Divided(T, db.stxos)
  BY <1>1 DEF PInv, PegOK
<1>3. Holders(w) = {m \in DOMAIN T : HoldsIn(T, m) /\ w \in T[m].info.spend}
  BY <1>1 DEF Holders, Holds, HoldsIn, Status, Latest
<1>4. CASE w \in db.stxos
  <2>1. PICK m \in DOMAIN T : HoldsIn(T, m) /\ w \in T[m].info.spend
    BY <1>2, <1>4 DEF Divided
  <2>2. \A x \in DOMAIN T : HoldsIn(T, x) /\ w \in T[x].info.spend => x = m
    BY <1>2, <2>1 DEF Divided
  <2>3. Holders(w) = {m}
    BY <1>3, <2>1, <2>2
  <2>4. Cardinality({m}) = 1
    BY FS_Singleton
  <2> QED
    BY <1>4, <2>3, <2>4
<1>5. CASE w \notin db.stxos
  <2>1. \A x \in DOMAIN T : ~(HoldsIn(T, x) /\ w \in T[x].info.spend)
    BY <1>2, <1>5 DEF Divided
  <2>2. Holders(w) = {}
    BY <1>3, <2>1
  <2>3. Cardinality({}) = 0
    BY FS_EmptySet
  <2> QED
    BY <1>5, <2>2, <2>3
<1> QED
  BY <1>4, <1>5

(* The databases have their types.                                         *)
LEMMA PegTypes ==
    ASSUME PInv
    PROVE  TypeOK
<1>1. /\ db \in Dbs /\ db.ok /\ Len(before) = Len(blocks) /\ scope \in Scope
      /\ \A m \in DOMAIN db.bundles : RecordOK(m, db.bundles[m])
      /\ db.pending # None => db.pending \in DOMAIN db.bundles
  BY DEF PInv, PegOK
<1>2. db.utxos \subseteq Outputs /\ db.stxos \subseteq Outputs /\ db.bundles \in Tables
  BY <1>1, DbFields
<1>3. DOMAIN db.bundles \subseteq Bundles
  BY <1>2, TableType
<1>4. ASSUME NEW m \in DOMAIN db.bundles
      PROVE  /\ db.bundles[m].info.kind \in {"Known", "Unknown", "UnknownConfirmed"}
             /\ db.bundles[m].status # <<>>
             /\ \A i \in DOMAIN db.bundles[m].status :
                   /\ db.bundles[m].status[i].value \in Statuses
                   /\ db.bundles[m].status[i].height \in Nat
  <2>1. PICK b : b = db.bundles[m]
    OBVIOUS
  <2>2. RecordOK(m, b)
    BY <1>1, <2>1
  <2>3. /\ b.info.kind \in {"Known", "Unknown", "UnknownConfirmed"}
        /\ b.status \in Seq(Stamps) /\ Len(b.status) > 0
        /\ \A i \in 1..Len(b.status) : b.status[i] \in Stamps
    BY <2>2, RecordFields
  <2>4. b.status # <<>> /\ DOMAIN b.status = 1..Len(b.status)
    BY <2>3
  <2>5. \A i \in DOMAIN b.status : b.status[i].value \in Statuses /\ b.status[i].height \in Nat
    BY <2>3, <2>4 DEF Stamps
  <2> QED
    BY <2>1, <2>3, <2>4, <2>5
<1> QED
  BY <1>1, <1>2, <1>3, <1>4 DEF TypeOK

(* A withdrawal that is spent is held by exactly one bundle and one that   *)
(* is not by none: no failure, resubmission or reorganisation makes two    *)
(* bundles pay a withdrawal or strands one.                                *)
THEOREM WithdrawalsAlwaysHeldOnce ==
    ASSUME CrossFork = FALSE
    PROVE  Spec => []HeldOnce
<1>1. PInv => HeldOnce
  BY HoldersCounted, PegTypes DEF HeldOnce
<1> QED
  BY <1>1, PegInvariant, PTL

-----------------------------------------------------------------------------
(* Exact undo.  What the undo of a block leaves behind of it are statuses  *)
(* Pending: a bundle that was collected in the block that submitted the    *)
(* one before it is not dropped, and is collected again later.  Databases  *)
(* that differ only in how many of them lead a stack are alike.            *)

(* The first k statuses of bundle m are Pending, and no other.             *)
Leads(m, s, k) ==
    /\ \A i \in 1..k : m \in OwnBundles /\ s[i] = Stamped("Pending", m.height)
    /\ \A i \in (k + 1)..Len(s) : s[i].value # "Pending"

Stacked(m, s) == \E k \in 0..Len(s) : Leads(m, s, k)

Lead(m, s) == CHOOSE k \in 0..Len(s) : Leads(m, s, k)

(* What the mainchain reported of a bundle, without the statuses Pending.  *)
Rest(m, s) == [i \in 1..(Len(s) - Lead(m, s)) |-> s[i + Lead(m, s)]]

Live(T, m) == IF m \in DOMAIN T THEN Rest(m, T[m].status) ELSE <<>>

(* The last report of bundle m.                                            *)
LastTold(T, m) == Live(T, m)[Len(Live(T, m))].value

(* The record of a bundle of another chain.                                *)
Told(T, m) ==
    IF m \in DOMAIN T /\ T[m].info.kind # "Unknown" THEN T[m].info ELSE Unknown

Stacks(T) == \A m \in DOMAIN T : Stacked(m, T[m].status)

(* Tables of the same reports.                                             *)
Agree(T, U) ==
    /\ \A m \in Bundles : Live(T, m) = Live(U, m)
    /\ \A m \in UnknownBundles : Told(T, m) = Told(U, m)

(* Alike but for the pending slot and the event blocks.                    *)
Alike(d, e) ==
    /\ d.utxos = e.utxos /\ d.stxos = e.stxos /\ d.latest_failed = e.latest_failed
    /\ Agree(d.bundles, e.bundles)

Same(d, e) ==
    /\ Alike(d, e)
    /\ d.pending = e.pending
    /\ d.deposit_blocks = e.deposit_blocks /\ d.bundle_blocks = e.bundle_blocks

(* Heights of the statuses of bundle m in a block at the given height.     *)
LifeAt(m, s, height) ==
    /\ Ordered(s)
    /\ \A i \in 1..Len(s) : s[i].height =< height
    /\ m \in OwnBundles /\ s # <<>> =>
          m.height < height /\ \A i \in 1..Len(s) : m.height =< s[i].height

LivesAt(d, height) == \A m \in Bundles : LifeAt(m, Live(d.bundles, m), height)

(* A bundle that is noted as failed has failed.                            *)
FailuresAt(d, height) ==
    /\ Ordered(d.latest_failed)
    /\ \A i \in 1..Len(d.latest_failed) :
          LET s == Live(d.bundles, d.latest_failed[i].value)
          IN  /\ d.latest_failed[i].height =< height
              /\ \E j \in 1..Len(s) : s[j].value = "Failed"

(* The databases as a block at the given height finds them.                *)
FoundAt(d, height) ==
    /\ LivesAt(d, height)
    /\ FailuresAt(d, height)
    /\ d.pending # None => d.pending.height < height

(* A bundle that was last reported as submitted is in flight.              *)
InFlight(T, m) == Live(T, m) # <<>> /\ LastTold(T, m) \in SubmittedKinds

Linked(d, chain) == \A m \in Bundles : ChainReport(chain, m) = "Submitted" => InFlight(d.bundles, m)

(* Only one number of statuses Pending leads a stack.                      *)
LEMMA LeadFacts ==
    ASSUME NEW m, NEW s \in Seq(Stamps), NEW k \in 0..Len(s), Leads(m, s, k)
    PROVE  /\ Lead(m, s) = k
           /\ Rest(m, s) \in Seq(Stamps) /\ Len(Rest(m, s)) = Len(s) - k
           /\ \A i \in 1..(Len(s) - k) : Rest(m, s)[i] = s[i + k]
           /\ Stacked(m, s)
<1>1. ASSUME NEW l \in 0..Len(s), Leads(m, s, l) PROVE l = k
  <2>1. CASE l < k
    <3>1. l + 1 \in 1..k /\ l + 1 \in (l + 1)..Len(s)
      BY <2>1
    <3>2. s[l + 1].value = "Pending" /\ s[l + 1].value # "Pending"
      BY <1>1, <3>1 DEF Leads, Stamped
    <3> QED
      BY <3>2
  <2>2. CASE k < l
    <3>1. k + 1 \in 1..l /\ k + 1 \in (k + 1)..Len(s)
      BY <2>2
    <3>2. s[k + 1].value = "Pending" /\ s[k + 1].value # "Pending"
      BY <1>1, <3>1 DEF Leads, Stamped
    <3> QED
      BY <3>2
  <2> QED
    BY <2>1, <2>2
<1>2. Lead(m, s) \in 0..Len(s) /\ Leads(m, s, Lead(m, s))
  BY DEF Lead
<1>3. Lead(m, s) = k
  BY <1>1, <1>2
<1>4. PICK n : n \in Nat /\ n = Len(s) - k
  <2>1. Len(s) - k \in Nat
    OBVIOUS
  <2> QED
    BY <2>1, Zenon
<1>5. Rest(m, s) = [i \in 1..n |-> s[i + k]]
  BY <1>3, <1>4 DEF Rest
<1>6. \A i \in 1..n : i + k \in 1..Len(s)
  BY <1>4
<1>7. \A i \in 1..n : s[i + k] \in Stamps
  BY <1>6, ElementOfSeq
<1>8. Rest(m, s) \in Seq(Stamps) /\ Len(Rest(m, s)) = n
  BY <1>4, <1>5, <1>7
<1> QED
  BY <1>3, <1>4, <1>5, <1>8 DEF Stacked

(* The last statuses of a stack.                                           *)
LEMMA RestEnds ==
    ASSUME NEW m, NEW s \in Seq(Stamps), Stacked(m, s), NEW t, t = Rest(m, s)
    PROVE  /\ t \in Seq(Stamps) /\ Len(t) \in Nat /\ Len(t) =< Len(s)
           /\ t # <<>> => Len(t) > 0 /\ s[Len(s)] = t[Len(t)]
           /\ Len(t) > 1 => s[Len(s) - 1] = t[Len(t) - 1]
           /\ t = <<>> /\ Len(s) > 0 =>
                 m \in OwnBundles /\ s[Len(s)] = Stamped("Pending", m.height)
           /\ Len(t) = 1 /\ Len(s) > 1 =>
                 m \in OwnBundles /\ s[Len(s) - 1] = Stamped("Pending", m.height)
           /\ m \notin OwnBundles => Len(t) = Len(s)
           /\ \A i \in 1..Len(t) : t[i].value # "Pending"
<1>1. PICK k \in 0..Len(s) : Leads(m, s, k)
  BY DEF Stacked
<1>2. /\ t \in Seq(Stamps) /\ Len(t) = Len(s) - k
      /\ \A i \in 1..(Len(s) - k) : t[i] = s[i + k]
  BY <1>1, LeadFacts
<1>3. t # <<>> => Len(t) > 0 /\ s[Len(s)] = t[Len(t)]
  <2> SUFFICES ASSUME t # <<>> PROVE Len(t) > 0 /\ s[Len(s)] = t[Len(t)]
    OBVIOUS
  <2>1. Len(t) > 0
    BY <1>2
  <2>2. Len(t) \in 1..(Len(s) - k) /\ Len(t) + k = Len(s)
    BY <1>2, <2>1
  <2> QED
    BY <1>2, <2>1, <2>2
<1>4. Len(t) > 1 => s[Len(s) - 1] = t[Len(t) - 1]
  <2> SUFFICES ASSUME Len(t) > 1 PROVE s[Len(s) - 1] = t[Len(t) - 1]
    OBVIOUS
  <2>1. Len(t) - 1 \in 1..(Len(s) - k) /\ (Len(t) - 1) + k = Len(s) - 1
    BY <1>2
  <2> QED
    BY <1>2, <2>1
<1>5. t = <<>> /\ Len(s) > 0 => m \in OwnBundles /\ s[Len(s)] = Stamped("Pending", m.height)
  <2> SUFFICES ASSUME t = <<>>, Len(s) > 0
               PROVE  m \in OwnBundles /\ s[Len(s)] = Stamped("Pending", m.height)
    OBVIOUS
  <2>1. Len(t) = 0
    OBVIOUS
  <2>2. Len(s) \in 1..k
    BY <1>2, <2>1
  <2> QED
    BY <1>1, <2>2 DEF Leads
<1>6. Len(t) = 1 /\ Len(s) > 1 =>
         m \in OwnBundles /\ s[Len(s) - 1] = Stamped("Pending", m.height)
  <2> SUFFICES ASSUME Len(t) = 1, Len(s) > 1
               PROVE  m \in OwnBundles /\ s[Len(s) - 1] = Stamped("Pending", m.height)
    OBVIOUS
  <2>1. Len(s) - 1 \in 1..k
    BY <1>2
  <2> QED
    BY <1>1, <2>1 DEF Leads
<1>7. m \notin OwnBundles => k = 0
  <2> SUFFICES ASSUME k # 0 PROVE m \in OwnBundles
    OBVIOUS
  <2>1. 1 \in 1..k
    OBVIOUS
  <2> QED
    BY <1>1, <2>1 DEF Leads
<1>8. ASSUME NEW i \in 1..Len(t) PROVE t[i].value # "Pending"
  <2>1. i \in 1..(Len(s) - k) /\ i + k \in (k + 1)..Len(s)
    BY <1>2
  <2> QED
    BY <1>1, <1>2, <2>1 DEF Leads
<1> QED
  BY <1>2, <1>3, <1>4, <1>5, <1>6, <1>7, <1>8

(* A status that is reported ends the stack.                               *)
LEMMA RestAppend ==
    ASSUME NEW m, NEW s \in Seq(Stamps), Stacked(m, s), NEW e \in Stamps, e.value # "Pending",
           NEW g, g = Append(s, e)
    PROVE  Stacked(m, g) /\ Rest(m, g) = Append(Rest(m, s), e)
<1>1. PICK k \in 0..Len(s) : Leads(m, s, k)
  BY DEF Stacked
<1>2. /\ g \in Seq(Stamps) /\ Len(g) = Len(s) + 1
      /\ \A i \in 1..Len(s) : g[i] = s[i]
      /\ g[Len(s) + 1] = e
  BY Loop!AppendFacts
<1>3. k \in 0..Len(g)
  BY <1>2
<1>4. Leads(m, g, k)
  <2>1. \A i \in 1..k : i \in 1..Len(s)
    OBVIOUS
  <2>2. \A i \in (k + 1)..Len(g) : i = Len(s) + 1 \/ (i \in (k + 1)..Len(s) /\ i \in 1..Len(s))
    BY <1>2
  <2>3. \A i \in 1..k : m \in OwnBundles /\ g[i] = Stamped("Pending", m.height)
    BY <1>1, <1>2, <2>1 DEF Leads
  <2>4. \A i \in (k + 1)..Len(g) : g[i].value # "Pending"
    BY <1>1, <1>2, <2>2 DEF Leads
  <2> QED
    BY <2>3, <2>4 DEF Leads
<1>5. PICK t : t = Rest(m, s)
  OBVIOUS
<1>6. PICK u : u = Rest(m, g)
  OBVIOUS
<1>7. /\ t \in Seq(Stamps) /\ Len(t) = Len(s) - k
      /\ \A i \in 1..(Len(s) - k) : t[i] = s[i + k]
  BY <1>1, <1>5, LeadFacts
<1>8. /\ u \in Seq(Stamps) /\ Len(u) = Len(g) - k
      /\ \A i \in 1..(Len(g) - k) : u[i] = g[i + k]
      /\ Stacked(m, g)
  BY <1>2, <1>3, <1>4, <1>6, LeadFacts
<1>9. \A i \in 1..Len(t) : u[i] = t[i]
  <2>1. \A i \in 1..Len(t) : i \in 1..(Len(g) - k) /\ i \in 1..(Len(s) - k) /\ i + k \in 1..Len(s)
    BY <1>2, <1>7
  <2> QED
    BY <1>2, <1>7, <1>8, <2>1
<1>10. u[Len(t) + 1] = e
  <2>1. Len(t) + 1 \in 1..(Len(g) - k) /\ (Len(t) + 1) + k = Len(s) + 1
    BY <1>2, <1>7
  <2> QED
    BY <1>2, <1>8, <2>1
<1>11. Len(u) = Len(t) + 1
  BY <1>2, <1>7, <1>8
<1>12. u = Append(t, e)
  BY <1>7, <1>8, <1>9, <1>10, <1>11
<1> QED
  BY <1>5, <1>6, <1>8, <1>12

(* Another Pending of a bundle that nothing was reported of.               *)
LEMMA RestPending ==
    ASSUME NEW m \in OwnBundles, NEW s \in Seq(Stamps), Stacked(m, s), Rest(m, s) = <<>>,
           NEW e \in Stamps, e = Stamped("Pending", m.height), NEW g, g = Append(s, e)
    PROVE  Stacked(m, g) /\ Rest(m, g) = <<>>
<1>1. PICK k \in 0..Len(s) : Leads(m, s, k)
  BY DEF Stacked
<1>2. /\ g \in Seq(Stamps) /\ Len(g) = Len(s) + 1
      /\ \A i \in 1..Len(s) : g[i] = s[i]
      /\ g[Len(s) + 1] = e
  BY Loop!AppendFacts
<1>3. Len(Rest(m, s)) = Len(s) - k
  BY <1>1, LeadFacts
<1>4. k = Len(s)
  BY <1>3
<1>5. Len(g) \in 0..Len(g) /\ \A i \in 1..Len(g) : i = Len(s) + 1 \/ i \in 1..k
  BY <1>2, <1>4
<1>6. Leads(m, g, Len(g))
  <2>1. \A i \in 1..Len(g) : m \in OwnBundles /\ g[i] = Stamped("Pending", m.height)
    BY <1>1, <1>2, <1>4, <1>5 DEF Leads
  <2>2. (Len(g) + 1)..Len(g) = {}
    BY <1>2
  <2> QED
    BY <2>1, <2>2 DEF Leads
<1>7. Rest(m, g) \in Seq(Stamps) /\ Len(Rest(m, g)) = Len(g) - Len(g) /\ Stacked(m, g)
  BY <1>2, <1>5, <1>6, LeadFacts
<1> QED
  BY <1>2, <1>7

(* The last status is taken back.                                          *)
LEMMA RestFront ==
    ASSUME NEW m, NEW s \in Seq(Stamps), Len(s) > 0, Stacked(m, s), NEW g, g = Front(s)
    PROVE  /\ Stacked(m, g)
           /\ Rest(m, s) = <<>> => Rest(m, g) = <<>>
           /\ \A t \in Seq(Stamps), e \in Stamps : Rest(m, s) = Append(t, e) => Rest(m, g) = t
<1>1. PICK k \in 0..Len(s) : Leads(m, s, k)
  BY DEF Stacked
<1>2. /\ g \in Seq(Stamps) /\ Len(g) = Len(s) - 1
      /\ \A i \in 1..(Len(s) - 1) : g[i] = s[i]
  BY FrontFacts
<1>3. PICK v : v = Rest(m, s)
  OBVIOUS
<1>4. /\ v \in Seq(Stamps) /\ Len(v) = Len(s) - k
      /\ \A i \in 1..(Len(s) - k) : v[i] = s[i + k]
  BY <1>1, <1>3, LeadFacts
<1>5. CASE k = Len(s)
  <2>1. Leads(m, g, Len(g)) /\ Len(g) \in 0..Len(g)
    <3>1. (Len(g) + 1)..Len(g) = {} /\ \A i \in 1..Len(g) : i \in 1..(Len(s) - 1) /\ i \in 1..k
      BY <1>2, <1>5
    <3> QED
      BY <1>1, <1>2, <3>1 DEF Leads
  <2>2. Rest(m, g) \in Seq(Stamps) /\ Len(Rest(m, g)) = Len(g) - Len(g) /\ Stacked(m, g)
    BY <1>2, <2>1, LeadFacts
  <2>3. Rest(m, g) = <<>>
    BY <1>2, <2>2
  <2>4. \A t \in Seq(Stamps), e \in Stamps : v # Append(t, e)
    BY <1>4, <1>5
  <2> QED
    BY <1>3, <2>2, <2>3, <2>4
<1>6. CASE k < Len(s)
  <2>1. k \in 0..Len(g)
    BY <1>2, <1>6
  <2>2. Leads(m, g, k)
    <3>1. /\ \A i \in 1..k : i \in 1..(Len(s) - 1)
          /\ \A i \in (k + 1)..Len(g) : i \in (k + 1)..Len(s) /\ i \in 1..(Len(s) - 1)
      BY <1>2, <1>6
    <3> QED
      BY <1>1, <1>2, <3>1 DEF Leads
  <2>3. PICK u : u = Rest(m, g)
    OBVIOUS
  <2>4. /\ u \in Seq(Stamps) /\ Len(u) = Len(g) - k
        /\ \A i \in 1..(Len(g) - k) : u[i] = g[i + k]
        /\ Stacked(m, g)
    BY <1>2, <2>1, <2>2, <2>3, LeadFacts
  <2>5. ASSUME NEW t \in Seq(Stamps), NEW e \in Stamps, v = Append(t, e) PROVE u = t
    <3>1. Len(v) = Len(t) + 1 /\ \A i \in 1..Len(t) : v[i] = t[i]
      BY <2>5
    <3>2. Len(u) = Len(t)
      BY <1>2, <1>4, <2>4, <3>1
    <3>3. \A i \in 1..Len(t) : /\ i \in 1..(Len(g) - k) /\ i \in 1..(Len(s) - k)
                               /\ i + k \in 1..(Len(s) - 1)
      BY <1>2, <2>4, <3>2
    <3>4. \A i \in 1..Len(t) : u[i] = t[i]
      BY <1>2, <1>4, <2>4, <3>1, <3>3
    <3> QED
      BY <2>4, <3>2, <3>4
  <2>6. v # <<>>
    BY <1>4, <1>6
  <2> QED
    BY <1>3, <2>3, <2>4, <2>5, <2>6
<1> QED
  BY <1>5, <1>6

-----------------------------------------------------------------------------
(* Tables of stacks.                                                       *)

(* Sound databases.                                                        *)
Sound(d) == PegOK(d, d.utxos \cup d.stxos) /\ d.ok /\ Stacks(d.bundles)

(* What was reported of a bundle.                                          *)
LEMMA LiveType ==
    ASSUME NEW d, Sound(d), NEW m,
           NEW t, t = Live(d.bundles, m)
    PROVE  /\ t \in Seq(Stamps) /\ Len(t) \in Nat
           /\ t # <<>> => m \in DOMAIN d.bundles /\ Len(t) > 0
<1>1. CASE m \notin DOMAIN d.bundles
  BY <1>1 DEF Live
<1>2. CASE m \in DOMAIN d.bundles
  <2>1. PICK s : s = d.bundles[m].status
    OBVIOUS
  <2>2. RecordOK(m, d.bundles[m]) /\ t = Rest(m, s) /\ Stacked(m, s)
    BY <1>2, <2>1 DEF Sound, PegOK, Live, Stacks
  <2>3. s \in Seq(Stamps)
    BY <2>1, <2>2, RecordFields
  <2>4. t \in Seq(Stamps) /\ Len(t) \in Nat
    BY <2>2, <2>3, RestEnds
  <2> QED
    BY <1>2, <2>4
<1> QED
  BY <1>1, <1>2

(* The record of a bundle and what was reported of it.                     *)
LEMMA LiveRecord ==
    ASSUME NEW d, Sound(d), NEW m \in DOMAIN d.bundles,
           NEW b, b = d.bundles[m], NEW s, s = b.status, NEW t, t = Live(d.bundles, m)
    PROVE  /\ RecordOK(m, b) /\ s \in Seq(Stamps) /\ Len(s) \in Nat /\ Len(s) > 0
           /\ Stacked(m, s) /\ t = Rest(m, s)
           /\ t # <<>> <=> Latest(s).value # "Pending"
           /\ t # <<>> => Latest(s) = t[Len(t)]
           /\ b.info.kind = "Known" <=> m \in OwnBundles
           /\ m \in OwnBundles => b.info.spend = m.spend /\ Len(t) < Len(s)
<1>3. RecordOK(m, b) /\ t = Rest(m, s) /\ Stacked(m, s)
  BY DEF Sound, PegOK, Live, Stacks
<1>4. /\ s \in Seq(Stamps) /\ Len(s) \in Nat /\ Len(s) > 0 /\ Latest(s) = s[Len(s)]
      /\ b.info.kind \in {"Known", "Unknown", "UnknownConfirmed"}
  BY <1>3, RecordFields
<1>5. /\ t \in Seq(Stamps) /\ Len(t) \in Nat /\ Len(t) =< Len(s)
      /\ t # <<>> => Len(t) > 0 /\ s[Len(s)] = t[Len(t)]
      /\ t = <<>> => s[Len(s)] = Stamped("Pending", m.height)
      /\ \A i \in 1..Len(t) : t[i].value # "Pending"
  BY <1>3, <1>4, RestEnds
<1>6. b.info.kind = "Known" <=> m \in OwnBundles
  BY <1>3, <1>4, PegAssumption DEF RecordOK
<1>7. t # <<>> <=> Latest(s).value # "Pending"
  <2>1. t # <<>> => Len(t) \in 1..Len(t)
    BY <1>5
  <2> QED
    BY <1>4, <1>5, <2>1 DEF Stamped
<1>8. m \in OwnBundles => b.info.spend = m.spend /\ Len(t) < Len(s)
  <2> SUFFICES ASSUME m \in OwnBundles PROVE b.info.spend = m.spend /\ Len(t) < Len(s)
    OBVIOUS
  <2>1. b.info.spend = m.spend /\ s[1].value = "Pending"
    BY <1>3, <1>6 DEF RecordOK, LifeOK
  <2>2. PICK k \in 0..Len(s) : Leads(m, s, k)
    BY <1>3 DEF Stacked
  <2>3. Len(t) = Len(s) - k
    BY <1>3, <1>4, <2>2, LeadFacts
  <2>4. k # 0
    <3> SUFFICES ASSUME k = 0 PROVE FALSE
      OBVIOUS
    <3>1. 1 \in (k + 1)..Len(s)
      BY <1>4
    <3> QED
      BY <2>1, <2>2, <3>1 DEF Leads
  <2> QED
    BY <1>4, <2>1, <2>3, <2>4
<1> QED
  BY <1>3, <1>4, <1>5, <1>6, <1>7, <1>8

(* Nothing was reported of the other bundles.                              *)
Others(T, U, m) == \A n : n # m => Live(U, n) = Live(T, n) /\ Told(U, n) = Told(T, n)

LEMMA OthersLive ==
    ASSUME NEW T, NEW U, NEW m, Changed(T, U, m)
    PROVE  /\ Others(T, U, m)
           /\ Stacks(T) /\ (m \in DOMAIN U => Stacked(m, U[m].status)) => Stacks(U)
<1>1. \A n : n # m => (n \in DOMAIN U <=> n \in DOMAIN T)
  BY DEF Changed
<1>2. \A n \in DOMAIN T : n # m => U[n] = T[n]
  BY DEF Changed
<1>3. \A n : n # m => Live(U, n) = Live(T, n) /\ Told(U, n) = Told(T, n)
  BY <1>1, <1>2 DEF Live, Told
<1>4. Stacks(T) /\ (m \in DOMAIN U => Stacked(m, U[m].status)) => Stacks(U)
  BY <1>1, <1>2 DEF Stacks
<1> QED
  BY <1>3, <1>4 DEF Others

(* From T to U the status e of bundle m was reported, and nothing else.    *)
Moved(T, U, m, e) ==
    /\ m \in DOMAIN U /\ Stacks(U)
    /\ Live(U, m) = Append(Live(T, m), e)
    /\ Others(T, U, m)

(* A status is written on top of the stack s of bundle m.                  *)
LEMMA PutMoves ==
    ASSUME NEW d, Sound(d), NEW m \in Bundles,
           NEW s, s = IF m \in DOMAIN d.bundles THEN d.bundles[m].status ELSE <<>>,
           NEW e \in Stamps, e.value # "Pending", NEW info \in Infos,
           NEW x \in Dbs, x.bundles = d.bundles,
           NEW c, c = PutBundle(x, m, info, Append(s, e))
    PROVE  /\ Moved(d.bundles, c.bundles, m, e)
           /\ Told(c.bundles, m) = IF info.kind = "Unknown" THEN Unknown ELSE info
           /\ c \in Dbs /\ SameOutputs(x, c)
<1>1. s \in Seq(Stamps) /\ Stacked(m, s) /\ Rest(m, s) = Live(d.bundles, m)
  <2>1. CASE m \in DOMAIN d.bundles
    BY <2>1, LiveRecord
  <2>2. CASE m \notin DOMAIN d.bundles
    <3>1. s \in Seq(Stamps) /\ Len(s) = 0
      BY <2>2
    <3>2. 0 \in 0..Len(s) /\ Leads(m, s, 0)
      BY <3>1 DEF Leads
    <3>3. Rest(m, s) \in Seq(Stamps) /\ Len(Rest(m, s)) = Len(s) - 0 /\ Stacked(m, s)
      BY <3>1, <3>2, LeadFacts, Zenon
    <3>4. Rest(m, s) = <<>>
      BY <3>1, <3>3
    <3> QED
      BY <2>2, <3>1, <3>3, <3>4 DEF Live
  <2> QED
    BY <2>1, <2>2
<1>2. PICK g : g = Append(s, e)
  OBVIOUS
<1>3. g \in Seq(Stamps) /\ Stacked(m, g) /\ Rest(m, g) = Append(Live(d.bundles, m), e)
  <2>1. g \in Seq(Stamps)
    BY <1>1, <1>2
  <2>2. Stacked(m, g) /\ Rest(m, g) = Append(Rest(m, s), e)
    BY <1>1, <1>2, RestAppend
  <2> QED
    BY <1>1, <2>1, <2>2
<1>4. /\ c \in Dbs /\ DOMAIN c.bundles = DOMAIN x.bundles \cup {m}
      /\ c.bundles[m] = [info |-> info, status |-> g]
      /\ Changed(x.bundles, c.bundles, m) /\ SameOutputs(x, c)
  <2>1. c = PutBundle(x, m, info, g)
    BY <1>2
  <2> QED
    BY <1>3, <2>1, PutBundleFacts
<1>5. c.bundles[m].status = g /\ c.bundles[m].info = info /\ m \in DOMAIN c.bundles
  BY <1>4
<1>6. Changed(d.bundles, c.bundles, m)
  BY <1>4
<1>7. Others(d.bundles, c.bundles, m) /\ Stacks(c.bundles)
  BY <1>3, <1>5, <1>6, OthersLive DEF Sound
<1>8. /\ Live(c.bundles, m) = Append(Live(d.bundles, m), e)
      /\ Told(c.bundles, m) = IF info.kind = "Unknown" THEN Unknown ELSE info
  BY <1>3, <1>5 DEF Live, Told
<1> QED
  BY <1>4, <1>5, <1>7, <1>8 DEF Moved

(* The status e of bundle m was reported last, after those in t.           *)
Topped(T, m, t, e) == Live(T, m) = Append(t, e)

(* ... in the stack s of the bundle: the one on top, and the one below it. *)
TopStatus(m, s, t, e) ==
    /\ s \in Seq(Stamps) /\ Len(s) \in Nat \ {0} /\ Latest(s) = e
    /\ t # <<>> => Len(s) > 1 /\ s[Len(s) - 1] = t[Len(t)]
    /\ t = <<>> /\ m \in OwnBundles => Len(s) > 1 /\ s[Len(s) - 1].value = "Pending"
    /\ m \notin OwnBundles => (t = <<>> <=> Len(s) = 1)

LEMMA TopFacts ==
    ASSUME NEW x, Sound(x), NEW m,
           NEW t \in Seq(Stamps), NEW e \in Stamps, Topped(x.bundles, m, t, e),
           NEW s, s = x.bundles[m].status
    PROVE  m \in DOMAIN x.bundles /\ TopStatus(m, s, t, e)
<1>1. PICK u : u = Live(x.bundles, m)
  OBVIOUS
<1>2. /\ u = Append(t, e) /\ Len(u) = Len(t) + 1 /\ u # <<>> /\ u[Len(u)] = e /\ Len(t) \in Nat
      /\ \A i \in 1..Len(t) : u[i] = t[i]
  BY <1>1, Loop!AppendFacts DEF Topped
<1>3. m \in DOMAIN x.bundles
  BY <1>1, <1>2, LiveType
<1>4. PICK b : b = x.bundles[m]
  OBVIOUS
<1>5. /\ s \in Seq(Stamps) /\ Len(s) > 0 /\ Stacked(m, s) /\ u = Rest(m, s) /\ Latest(s) = u[Len(u)]
      /\ m \in OwnBundles => Len(u) < Len(s)
  <2>1. s = b.status
    BY <1>4
  <2>2. /\ RecordOK(m, b) /\ s \in Seq(Stamps) /\ Len(s) \in Nat /\ Len(s) > 0
        /\ Stacked(m, s) /\ u = Rest(m, s)
        /\ u # <<>> <=> Latest(s).value # "Pending"
        /\ u # <<>> => Latest(s) = u[Len(u)]
        /\ b.info.kind = "Known" <=> m \in OwnBundles
        /\ m \in OwnBundles => b.info.spend = m.spend /\ Len(u) < Len(s)
    BY <1>1, <1>3, <1>4, <2>1, LiveRecord
  <2> QED
    BY <1>2, <2>2
<1>6. /\ Len(u) =< Len(s)
      /\ Len(u) > 1 => s[Len(s) - 1] = u[Len(u) - 1]
      /\ Len(u) = 1 /\ Len(s) > 1 => s[Len(s) - 1] = Stamped("Pending", m.height)
      /\ m \notin OwnBundles => Len(u) = Len(s)
  BY <1>5, RestEnds
<1>7. t # <<>> => Len(t) > 0
  OBVIOUS
<1>8. t # <<>> => Len(s) > 1 /\ s[Len(s) - 1] = t[Len(t)]
  <2> SUFFICES ASSUME t # <<>> PROVE Len(s) > 1 /\ s[Len(s) - 1] = t[Len(t)]
    OBVIOUS
  <2>1. Len(u) > 1 /\ Len(u) - 1 = Len(t) /\ Len(t) \in 1..Len(t)
    BY <1>2, <1>7
  <2> QED
    BY <1>2, <1>5, <1>6, <2>1
<1>9. t = <<>> => Len(u) = 1
  BY <1>2
<1>10. t = <<>> /\ m \in OwnBundles => Len(s) > 1 /\ s[Len(s) - 1].value = "Pending"
  <2> SUFFICES ASSUME t = <<>>, m \in OwnBundles
               PROVE  Len(s) > 1 /\ s[Len(s) - 1].value = "Pending"
    OBVIOUS
  <2>1. Len(u) = 1 /\ Len(s) > 1
    BY <1>5, <1>9
  <2>2. s[Len(s) - 1] = Stamped("Pending", m.height)
    BY <1>6, <2>1
  <2> QED
    BY <2>1, <2>2 DEF Stamped
<1>11. m \notin OwnBundles => (t = <<>> <=> Len(s) = 1)
  <2>1. t # <<>> => Len(u) # 1
    BY <1>2, <1>7
  <2> QED
    BY <1>6, <1>9, <2>1, Zenon
<1>12. Len(s) \in Nat \ {0}
  BY <1>5
<1> QED
  BY <1>2, <1>3, <1>5, <1>8, <1>10, <1>11, <1>12 DEF TopStatus

(* The status on top of a stack is taken back.                             *)
LEMMA PopMoves ==
    ASSUME NEW x, Sound(x), NEW m \in Bundles,
           NEW t \in Seq(Stamps), NEW e \in Stamps, Topped(x.bundles, m, t, e),
           NEW z \in Dbs, z.bundles = x.bundles, NEW y, y = PopStatus(z, m)
    PROVE  /\ y \in Dbs /\ SameOutputs(z, y) /\ Stacks(y.bundles)
           /\ Live(y.bundles, m) = t
           /\ Others(x.bundles, y.bundles, m)
           /\ m \in UnknownBundles =>
                 Told(y.bundles, m) = IF t = <<>> THEN Unknown ELSE Told(x.bundles, m)
<1>1. PICK s : s = x.bundles[m].status
  OBVIOUS
<1>2. /\ m \in DOMAIN x.bundles /\ s \in Seq(Stamps) /\ Len(s) \in Nat \ {0}
      /\ t # <<>> => Len(s) > 1
      /\ m \notin OwnBundles => (t = <<>> <=> Len(s) = 1)
  <2>1. m \in DOMAIN x.bundles /\ TopStatus(m, s, t, e)
    BY <1>1, TopFacts
  <2> QED
    BY <2>1, Zenon DEF TopStatus
<1>3. /\ RecordOK(m, x.bundles[m]) /\ Stacked(m, s) /\ Live(x.bundles, m) = Rest(m, s)
  BY <1>1, <1>2, LiveRecord
<1>4. /\ y \in Dbs /\ Changed(z.bundles, y.bundles, m) /\ SameOutputs(z, y)
      /\ Len(s) = 1 => m \notin DOMAIN y.bundles
      /\ Len(s) > 1 => /\ m \in DOMAIN y.bundles
                       /\ y.bundles[m].info = x.bundles[m].info
                       /\ y.bundles[m].status = Front(s)
  BY <1>1, <1>2, <1>3, PopStatusFacts
<1>5. Len(s) = 1 \/ Len(s) > 1
  <2>1. \A k \in Nat \ {0} : k = 1 \/ k > 1
    OBVIOUS
  <2> QED
    BY <1>2, <2>1, Zenon
<1>6. Stacked(m, Front(s)) /\ Rest(m, Front(s)) = t
  <2>1. Len(s) > 0
    BY <1>2
  <2>2. PICK g : g = Front(s)
    OBVIOUS
  <2>3. /\ Stacked(m, g)
        /\ \A u \in Seq(Stamps), v \in Stamps : Rest(m, s) = Append(u, v) => Rest(m, g) = u
    BY <1>2, <1>3, <2>1, <2>2, RestFront
  <2> QED
    BY <1>3, <2>2, <2>3, Zenon DEF Topped
<1>7. Others(x.bundles, y.bundles, m) /\ Stacks(y.bundles)
  <2>1. m \in DOMAIN y.bundles => Stacked(m, y.bundles[m].status)
    BY <1>4, <1>6, <1>5, Zenon
  <2> QED
    BY <1>4, <2>1, OthersLive DEF Sound
<1>8. Live(y.bundles, m) = t
  BY <1>2, <1>4, <1>6, <1>5, Zenon DEF Live
<1>9. m \in UnknownBundles => m \notin OwnBundles
  BY PegAssumption
<1>10. m \in UnknownBundles =>
          Told(y.bundles, m) = IF t = <<>> THEN Unknown ELSE Told(x.bundles, m)
  BY <1>2, <1>4, <1>5, <1>9, Zenon DEF Told
<1> QED
  BY <1>4, <1>7, <1>8, <1>10

(* The last report of a bundle, in databases that are alike.               *)
LEMMA ToppedIn ==
    ASSUME NEW d, NEW c, NEW x, Alike(x, c), NEW m \in Bundles, NEW e,
           Moved(d.bundles, c.bundles, m, e), NEW t, t = Live(d.bundles, m)
    PROVE  Topped(x.bundles, m, t, e)
  BY DEF Alike, Agree, Moved, Topped

(* A bundle of another chain is in the table when it was reported.         *)
LEMMA UnknownLive ==
    ASSUME NEW d, Sound(d), NEW m \in UnknownBundles, Live(d.bundles, m) = <<>>
    PROVE  m \notin DOMAIN d.bundles /\ Told(d.bundles, m) = Unknown
<1>1. m \notin DOMAIN d.bundles
  <2> SUFFICES ASSUME m \in DOMAIN d.bundles PROVE FALSE
    OBVIOUS
  <2>1. PICK b : b = d.bundles[m]
    OBVIOUS
  <2>2. PICK s : s = b.status
    OBVIOUS
  <2>3. PICK t : t = Live(d.bundles, m)
    OBVIOUS
  <2>4. s \in Seq(Stamps) /\ Len(s) > 0 /\ Stacked(m, s) /\ t = Rest(m, s)
    BY <2>1, <2>2, <2>3, LiveRecord
  <2>5. m \notin OwnBundles
    BY PegAssumption
  <2>6. Len(t) = Len(s)
    BY <2>4, <2>5, RestEnds
  <2> QED
    BY <2>3, <2>4, <2>6
<1> QED
  BY <1>1 DEF Told

(* The last report of bundle m is taken back.                              *)
LEMMA UndoPop ==
    ASSUME NEW d, Sound(d), NEW c, NEW m \in Bundles, NEW e \in Stamps,
           Moved(d.bundles, c.bundles, m, e),
           m \in UnknownBundles => Told(c.bundles, m) = Told(d.bundles, m),
           NEW x, Sound(x), Alike(x, c), NEW z \in Dbs, z.bundles = x.bundles,
           NEW y, y = PopStatus(z, m)
    PROVE  y \in Dbs /\ SameOutputs(z, y) /\ Stacks(y.bundles) /\ Agree(y.bundles, d.bundles)
<1>1. PICK t : t = Live(d.bundles, m)
  OBVIOUS
<1>2. t \in Seq(Stamps)
  BY <1>1, LiveType
<1>3. Topped(x.bundles, m, t, e)
  BY <1>1, ToppedIn
<1>4. /\ y \in Dbs /\ SameOutputs(z, y) /\ Stacks(y.bundles)
      /\ Live(y.bundles, m) = t
      /\ Others(x.bundles, y.bundles, m)
      /\ m \in UnknownBundles =>
            Told(y.bundles, m) = IF t = <<>> THEN Unknown ELSE Told(x.bundles, m)
  BY <1>2, <1>3, PopMoves
<1>5. \A n \in Bundles : Live(y.bundles, n) = Live(d.bundles, n)
  BY <1>1, <1>4, Zenon DEF Others, Moved, Alike, Agree
<1>6. \A n \in UnknownBundles : Told(y.bundles, n) = Told(d.bundles, n)
  <2>1. ASSUME m \in UnknownBundles PROVE Told(y.bundles, m) = Told(d.bundles, m)
    <3>1. Told(x.bundles, m) = Told(d.bundles, m)
      BY <2>1 DEF Alike, Agree
    <3>2. t = <<>> => Told(d.bundles, m) = Unknown
      BY <1>1, <2>1, UnknownLive
    <3> QED
      BY <1>4, <2>1, <3>1, <3>2, Zenon
  <2> QED
    BY <1>4, <2>1, Zenon DEF Others, Moved, Alike, Agree
<1> QED
  BY <1>4, <1>5, <1>6 DEF Agree

-----------------------------------------------------------------------------
(* What connecting an event does, as far as its undo depends on it.        *)

KeepsBlocks(d, c) == c.deposit_blocks = d.deposit_blocks /\ c.bundle_blocks = d.bundle_blocks

(* Either the pending bundle takes its outputs, or no output moves.        *)
SubmittedTo(d, c, m, e) ==
    /\ Moved(d.bundles, c.bundles, m, e) /\ e.value \in SubmittedKinds
    /\ m \in UnknownBundles => Told(c.bundles, m) = Told(d.bundles, m)
    /\ c.latest_failed = d.latest_failed /\ KeepsBlocks(d, c)
    /\ \/ /\ d.pending = m /\ c.pending = None
          /\ m \in OwnBundles /\ Live(d.bundles, m) = <<>> /\ m.spend \subseteq d.utxos
          /\ c.utxos = d.utxos \ m.spend /\ c.stxos = d.stxos \cup m.spend
       \/ /\ d.pending # m /\ c.pending = d.pending
          /\ m \in OwnBundles => /\ Live(d.bundles, m) # <<>>
                                 /\ LastTold(d.bundles, m) = "Failed"
          /\ c.utxos = d.utxos /\ c.stxos = d.stxos

LEMMA SubmittedMoves ==
    ASSUME NEW d, Sound(d), NEW m \in Bundles, NEW height \in Nat,
           m \in DOMAIN d.bundles \/ m \in UnknownBundles,
           NEW c, c = ConnectSubmitted(d, m, height), c.ok
    PROVE  \E e \in Stamps : e.height = height /\ SubmittedTo(d, c, m, e)
<1>1. PICK C : PegOK(d, C)
  BY DEF Sound
<1>2. d \in Dbs /\ ~Fail(d).ok
  BY <1>1, FailFacts DEF PegOK
<1>3. PICK b : b = d.bundles[m]
  OBVIOUS
<1>4. PICK s : s = IF m \in DOMAIN d.bundles THEN b.status ELSE <<>>
  OBVIOUS
<1>5. PICK t : t = Live(d.bundles, m)
  OBVIOUS
<1>6. m \in DOMAIN d.bundles =>
         /\ s = b.status /\ b.info \in Infos /\ b.info.spend \subseteq Outputs
         /\ t # <<>> <=> Latest(b.status).value # "Pending"
         /\ t # <<>> => Latest(b.status) = t[Len(t)]
         /\ b.info.kind = "Known" <=> m \in OwnBundles
         /\ m \in OwnBundles => b.info.spend = m.spend
  <2> SUFFICES ASSUME m \in DOMAIN d.bundles
               PROVE  /\ s = b.status /\ b.info \in Infos /\ b.info.spend \subseteq Outputs
                      /\ t # <<>> <=> Latest(b.status).value # "Pending"
                      /\ t # <<>> => Latest(b.status) = t[Len(t)]
                      /\ b.info.kind = "Known" <=> m \in OwnBundles
                      /\ m \in OwnBundles => b.info.spend = m.spend
    OBVIOUS
  <2>1. s = b.status
    BY <1>4
  <2>2. /\ RecordOK(m, b)
        /\ t # <<>> <=> Latest(s).value # "Pending"
        /\ t # <<>> => Latest(s) = t[Len(t)]
        /\ b.info.kind = "Known" <=> m \in OwnBundles
        /\ m \in OwnBundles => b.info.spend = m.spend
    BY <1>3, <1>5, <2>1, LiveRecord
  <2>3. b.info \in Infos /\ b.info.spend \subseteq Outputs
    BY <2>2, RecordFields
  <2> QED
    BY <2>1, <2>2, <2>3
<1>7. s = IF m \in DOMAIN d.bundles THEN d.bundles[m].status ELSE <<>>
  BY <1>3, <1>4
<1>8. CASE d.pending = m
  <2>1. m \in DOMAIN d.bundles /\ b.info.kind = "Known" /\ Latest(b.status).value = "Pending"
    BY <1>1, <1>3, <1>8, PegAssumption DEF PegOK
  <2>2. PICK e : e = Stamped("Submitted", height)
    OBVIOUS
  <2>3. PICK x : x = Spend(d, b.info.spend)
    OBVIOUS
  <2>4. PICK y : y = PutBundle(x, m, b.info, Append(s, e))
    OBVIOUS
  <2>5. b.info.spend \subseteq d.utxos /\ c = [y EXCEPT !.pending = None]
    BY <1>2, <1>3, <1>6, <1>8, <2>1, <2>2, <2>3, <2>4 DEF ConnectSubmitted
  <2>6. e \in Stamps /\ e.value = "Submitted" /\ e.height = height
    BY <2>2, StampType DEF Statuses, Stamped
  <2>7. /\ x \in Dbs /\ x.utxos = d.utxos \ b.info.spend /\ x.stxos = d.stxos \cup b.info.spend
        /\ x.bundles = d.bundles /\ x.latest_failed = d.latest_failed /\ KeepsBlocks(d, x)
    BY <1>2, <1>6, <2>1, <2>3, SpendFacts DEF KeepsBlocks
  <2>8. Moved(d.bundles, y.bundles, m, e) /\ y \in Dbs /\ SameOutputs(x, y)
    BY <1>6, <1>7, <2>1, <2>4, <2>6, <2>7, PutMoves
  <2>9. /\ c.utxos = y.utxos /\ c.stxos = y.stxos /\ c.bundles = y.bundles
        /\ c.pending = None /\ c.latest_failed = y.latest_failed /\ KeepsBlocks(y, c)
    BY <2>5, <2>8, PendingFacts DEF KeepsBlocks
  <2>10. /\ c.utxos = d.utxos \ m.spend /\ c.stxos = d.stxos \cup m.spend
         /\ c.latest_failed = d.latest_failed /\ KeepsBlocks(d, c)
    BY <1>6, <2>1, <2>7, <2>8, <2>9 DEF SameOutputs, KeepsBlocks
  <2>11. m \in OwnBundles /\ t = <<>> /\ m.spend \subseteq d.utxos
    BY <1>6, <2>1, <2>5
  <2>12. m \notin UnknownBundles
    BY <2>11, PegAssumption
  <2>13. SubmittedTo(d, c, m, e)
    BY <1>5, <1>8, <2>6, <2>8, <2>9, <2>10, <2>11, <2>12 DEF SubmittedTo, SubmittedKinds
  <2> QED
    BY <2>6, <2>13
<1>9. CASE d.pending # m /\ m \in DOMAIN d.bundles
  <2>1. PICK e : e = Stamped("SubmittedUnexpected", height)
    OBVIOUS
  <2>2. /\ Latest(b.status).value = "Failed" /\ b.info.kind # "UnknownConfirmed"
        /\ c = PutBundle(d, m, b.info, Append(s, e))
    BY <1>2, <1>3, <1>6, <1>9, <2>1 DEF ConnectSubmitted
  <2>3. e \in Stamps /\ e.value = "SubmittedUnexpected" /\ e.height = height
    BY <2>1, StampType DEF Statuses, Stamped
  <2>4. /\ Moved(d.bundles, c.bundles, m, e) /\ SameOutputs(d, c)
        /\ Told(c.bundles, m) = IF b.info.kind = "Unknown" THEN Unknown ELSE b.info
    BY <1>2, <1>6, <1>7, <1>9, <2>2, <2>3, PutMoves
  <2>5. Told(c.bundles, m) = Told(d.bundles, m)
    BY <1>3, <1>9, <2>4 DEF Told
  <2>6. t # <<>> /\ LastTold(d.bundles, m) = "Failed"
    BY <1>5, <1>6, <1>9, <2>2 DEF LastTold
  <2>7. SubmittedTo(d, c, m, e)
    BY <1>5, <1>9, <2>3, <2>4, <2>5, <2>6
       DEF SubmittedTo, SubmittedKinds, SameOutputs, KeepsBlocks
  <2> QED
    BY <2>3, <2>7
<1>10. CASE d.pending # m /\ m \notin DOMAIN d.bundles
  <2>1. PICK e : e = Stamped("Submitted", height)
    OBVIOUS
  <2>2. e \in Stamps /\ e.value = "Submitted" /\ e.height = height
    BY <2>1, StampType DEF Statuses, Stamped
  <2>3. <<e>> = Append(s, e)
    BY <1>4, <1>10
  <2>4. PICK info \in Infos : info = Unknown /\ info.kind = "Unknown"
    <3>1. Unknown \in Infos /\ Unknown.kind = "Unknown"
      BY DEF Infos, Unknown
    <3> QED
      BY <3>1
  <2>5. c = PutBundle(d, m, info, Append(s, e)) /\ m \in UnknownBundles /\ m \notin OwnBundles
    BY <1>10, <2>1, <2>3, <2>4, PegAssumption DEF ConnectSubmitted
  <2>6. /\ Moved(d.bundles, c.bundles, m, e) /\ SameOutputs(d, c)
        /\ Told(c.bundles, m) = Unknown
    BY <1>2, <1>7, <2>2, <2>4, <2>5, PutMoves
  <2>7. Told(d.bundles, m) = Unknown
    BY <1>10 DEF Told
  <2>8. SubmittedTo(d, c, m, e)
    BY <1>10, <2>2, <2>5, <2>6, <2>7
       DEF SubmittedTo, SubmittedKinds, SameOutputs, KeepsBlocks
  <2> QED
    BY <2>2, <2>8
<1> QED
  BY <1>8, <1>9, <1>10

(* Undone events: y is what their undo makes of x, when d is as before.    *)
Undone(x, y, d) == y.ok /\ Stacks(y.bundles) /\ Alike(y, d) /\ KeepsBlocks(x, y)

(* The undo of a submission.                                               *)
LEMMA UndoSubmittedExact ==
    ASSUME NEW d, Sound(d), NEW m \in Bundles, NEW height \in Nat, NEW c,
           NEW e \in Stamps, e.height = height, SubmittedTo(d, c, m, e),
           NEW x, Sound(x), Alike(x, c), NEW y, y = DisconnectSubmitted(x, m, height)
    PROVE  /\ Undone(x, y, d)
           /\ y.pending = IF c.pending # d.pending THEN d.pending ELSE x.pending
<1>1. PICK C, D : PegOK(d, C) /\ PegOK(x, D)
  BY DEF Sound
<1>2. x \in Dbs /\ x.ok /\ d.utxos \cap d.stxos = {}
  BY <1>1 DEF PegOK, Sound
<1>3. PICK t : t = Live(d.bundles, m)
  OBVIOUS
<1>4. t \in Seq(Stamps)
  BY <1>3, LiveType
<1>5. PICK b : b = x.bundles[m]
  OBVIOUS
<1>6. PICK s : s = b.status
  OBVIOUS
<1>7. /\ Moved(d.bundles, c.bundles, m, e) /\ e.value \in SubmittedKinds
      /\ m \in UnknownBundles => Told(c.bundles, m) = Told(d.bundles, m)
      /\ c.latest_failed = d.latest_failed
  BY DEF SubmittedTo
<1>8. m \in DOMAIN x.bundles /\ TopStatus(m, s, t, e)
  <2>1. Topped(x.bundles, m, t, e)
    BY <1>3, <1>7, ToppedIn
  <2>2. s = x.bundles[m].status
    BY <1>5, <1>6
  <2> QED
    BY <1>4, <2>1, <2>2, TopFacts
<1>9. /\ b.info.kind = "Known" <=> m \in OwnBundles
      /\ m \in OwnBundles => b.info.spend = m.spend
  <2>1. PICK u : u = Live(x.bundles, m)
    OBVIOUS
  <2> QED
    BY <1>5, <1>6, <1>8, <2>1, LiveRecord
<1>10. Latest(s).value \in SubmittedKinds /\ Latest(s).height = height
  BY <1>7, <1>8 DEF TopStatus
<1>11. x.utxos = c.utxos /\ x.stxos = c.stxos /\ x.latest_failed = c.latest_failed
  BY DEF Alike
<1>12. CASE /\ d.pending = m /\ c.pending = None
            /\ m \in OwnBundles /\ Live(d.bundles, m) = <<>> /\ m.spend \subseteq d.utxos
            /\ c.utxos = d.utxos \ m.spend /\ c.stxos = d.stxos \cup m.spend
  <2>1. b.info.kind = "Known" /\ Len(s) > 1 /\ s[Len(s) - 1].value = "Pending"
    BY <1>3, <1>8, <1>9, <1>12 DEF TopStatus
  <2>2. b.info.spend = m.spend /\ m.spend \subseteq Outputs /\ m.spend \subseteq x.stxos
    BY <1>9, <1>11, <1>12 DEF OwnBundles, Outputs
  <2>3. PICK z : z = Unspend(x, m.spend)
    OBVIOUS
  <2>4. PICK v : v = PopStatus(z, m)
    OBVIOUS
  <2>5. y = [v EXCEPT !.pending = m]
    BY <1>5, <1>6, <1>8, <1>10, <2>1, <2>2, <2>3, <2>4 DEF DisconnectSubmitted
  <2>6. /\ z \in Dbs /\ z.utxos = x.utxos \cup m.spend /\ z.stxos = x.stxos \ m.spend
        /\ z.ok /\ z.bundles = x.bundles /\ z.latest_failed = x.latest_failed
        /\ KeepsBlocks(x, z)
    BY <1>2, <2>2, <2>3, UnspendFacts DEF KeepsBlocks
  <2>7. v \in Dbs /\ SameOutputs(z, v) /\ Stacks(v.bundles) /\ Agree(v.bundles, d.bundles)
    BY <1>7, <2>4, <2>6, UndoPop
  <2>8. /\ y.utxos = v.utxos /\ y.stxos = v.stxos /\ y.bundles = v.bundles /\ y.ok = v.ok
        /\ y.pending = m /\ y.latest_failed = v.latest_failed /\ KeepsBlocks(v, y)
    BY <2>5, <2>7, PendingFacts DEF KeepsBlocks
  <2>9. y.utxos = d.utxos /\ y.stxos = d.stxos
    <3>1. y.utxos = (d.utxos \ m.spend) \cup m.spend /\ y.stxos = (d.stxos \cup m.spend) \ m.spend
      BY <1>11, <1>12, <2>6, <2>7, <2>8 DEF SameOutputs
    <3> QED
      BY <1>2, <1>12, <3>1
  <2>10. y.ok /\ y.latest_failed = d.latest_failed /\ KeepsBlocks(x, y)
    BY <1>7, <1>11, <2>6, <2>7, <2>8 DEF SameOutputs, KeepsBlocks
  <2>11. m # None
    BY PegAssumption
  <2> QED
    BY <1>12, <2>7, <2>8, <2>9, <2>10, <2>11 DEF Undone, Alike
<1>13. CASE /\ d.pending # m /\ c.pending = d.pending
            /\ m \in OwnBundles => /\ Live(d.bundles, m) # <<>>
                                   /\ LastTold(d.bundles, m) = "Failed"
            /\ c.utxos = d.utxos /\ c.stxos = d.stxos
  <2>1. ~(b.info.kind = "Known" /\ Len(s) > 1 /\ s[Len(s) - 1].value = "Pending")
    <3> SUFFICES ASSUME m \in OwnBundles PROVE s[Len(s) - 1].value # "Pending"
      BY <1>9
    <3>1. s[Len(s) - 1].value = "Failed"
      BY <1>3, <1>8, <1>13 DEF TopStatus, LastTold
    <3> QED
      BY <3>1
  <2>2. y = PopStatus(x, m)
    BY <1>5, <1>6, <1>8, <1>10, <2>1 DEF DisconnectSubmitted
  <2>3. y \in Dbs /\ SameOutputs(x, y) /\ Stacks(y.bundles) /\ Agree(y.bundles, d.bundles)
    BY <1>2, <1>7, <2>2, UndoPop
  <2> QED
    BY <1>2, <1>7, <1>11, <1>13, <2>3 DEF Undone, Alike, SameOutputs, KeepsBlocks
<1> QED
  BY <1>12, <1>13 DEF SubmittedTo

(* The record of a bundle of another chain that was paid is taken back.    *)
LEMMA UndoPut ==
    ASSUME NEW d, Sound(d), NEW c, NEW m \in UnknownBundles, NEW e \in Stamps,
           Moved(d.bundles, c.bundles, m, e), Told(d.bundles, m) = Unknown,
           NEW x, Sound(x), Alike(x, c), NEW z \in Dbs, z.bundles = x.bundles,
           NEW s, s = x.bundles[m].status, NEW y, y = PutBundle(z, m, Unknown, Front(s))
    PROVE  y \in Dbs /\ SameOutputs(z, y) /\ Stacks(y.bundles) /\ Agree(y.bundles, d.bundles)
<1>1. PICK t : t = Live(d.bundles, m)
  OBVIOUS
<1>2. t \in Seq(Stamps) /\ m \in Bundles
  BY <1>1, LiveType DEF Bundles
<1>3. Topped(x.bundles, m, t, e)
  BY <1>1, <1>2, ToppedIn
<1>4. m \in DOMAIN x.bundles /\ TopStatus(m, s, t, e)
  BY <1>2, <1>3, TopFacts
<1>5. PICK b : b = x.bundles[m]
  OBVIOUS
<1>6. PICK g : g = Front(s)
  OBVIOUS
<1>7. PICK info \in Infos : info = Unknown /\ info.kind = "Unknown"
  <2>1. Unknown \in Infos /\ Unknown.kind = "Unknown"
    BY DEF Infos, Unknown
  <2> QED
    BY <2>1
<1>8. s \in Seq(Stamps) /\ Len(s) > 0 /\ Stacked(m, s) /\ Live(x.bundles, m) = Rest(m, s)
  <2>1. s = b.status
    BY <1>5
  <2>2. PICK u : u = Live(x.bundles, m)
    OBVIOUS
  <2> QED
    BY <1>4, <1>5, <2>1, <2>2, LiveRecord
<1>9. g \in Seq(Stamps)
  BY <1>6, <1>8, FrontFacts
<1>10. Stacked(m, g) /\ Rest(m, g) = t
  <2>1. /\ Stacked(m, g)
        /\ \A u \in Seq(Stamps), v \in Stamps : Rest(m, s) = Append(u, v) => Rest(m, g) = u
    BY <1>6, <1>8, RestFront
  <2> QED
    BY <1>2, <1>3, <1>8, <2>1, Zenon DEF Topped
<1>11. y = PutBundle(z, m, info, g)
  BY <1>6, <1>7
<1>12. /\ y \in Dbs /\ DOMAIN y.bundles = DOMAIN z.bundles \cup {m}
       /\ y.bundles[m] = [info |-> info, status |-> g]
       /\ Changed(z.bundles, y.bundles, m) /\ SameOutputs(z, y)
  BY <1>2, <1>9, <1>11, PutBundleFacts
<1>13. y.bundles[m].status = g /\ y.bundles[m].info.kind = "Unknown" /\ m \in DOMAIN y.bundles
  BY <1>7, <1>12
<1>14. Others(x.bundles, y.bundles, m) /\ Stacks(y.bundles)
  BY <1>10, <1>12, <1>13, OthersLive DEF Sound
<1>15. Live(y.bundles, m) = t /\ Told(y.bundles, m) = Unknown
  BY <1>10, <1>13 DEF Live, Told
<1>16. \A n \in Bundles : Live(y.bundles, n) = Live(d.bundles, n)
  BY <1>1, <1>14, <1>15, Zenon DEF Others, Moved, Alike, Agree
<1>17. \A n \in UnknownBundles : Told(y.bundles, n) = Told(d.bundles, n)
  BY <1>14, <1>15, Zenon DEF Others, Moved, Alike, Agree
<1> QED
  BY <1>12, <1>14, <1>16, <1>17 DEF Agree

(* A confirmation: no output moves, an unexpected bundle takes its outputs *)
(* now, or a bundle of another chain takes everything.                     *)
ConfirmedTo(d, c, m, e) ==
    /\ Moved(d.bundles, c.bundles, m, e) /\ e.value = "Confirmed" /\ InFlight(d.bundles, m)
    /\ c.latest_failed = d.latest_failed /\ c.pending = d.pending /\ KeepsBlocks(d, c)
    /\ \/ /\ m \in OwnBundles /\ LastTold(d.bundles, m) = "Submitted"
          /\ c.utxos = d.utxos /\ c.stxos = d.stxos
       \/ /\ m \in OwnBundles /\ LastTold(d.bundles, m) = "SubmittedUnexpected"
          /\ m.spend \subseteq d.utxos
          /\ c.utxos = d.utxos \ m.spend /\ c.stxos = d.stxos \cup m.spend
       \/ /\ m \in UnknownBundles /\ Told(d.bundles, m) = Unknown
          /\ Told(c.bundles, m) = UnknownConfirmed(d.utxos)
          /\ c.utxos = d.utxos \ d.utxos /\ c.stxos = d.stxos \cup d.utxos

(* The record of a bundle in flight.                                       *)
LEMMA FlightRecord ==
    ASSUME NEW d, Sound(d), NEW m, InFlight(d.bundles, m), NEW b, b = d.bundles[m]
    PROVE  /\ m \in DOMAIN d.bundles /\ b.info \in Infos /\ b.info.spend \subseteq Outputs
           /\ b.info.kind \in {"Known", "Unknown", "UnknownConfirmed"}
           /\ Latest(b.status).value = LastTold(d.bundles, m)
           /\ b.info.kind = "Known" => m \in OwnBundles /\ b.info.spend = m.spend
           /\ b.info.kind # "Known" => m \in UnknownBundles
<1>1. PICK t : t = Live(d.bundles, m)
  OBVIOUS
<1>2. t # <<>> /\ LastTold(d.bundles, m) = t[Len(t)].value
  BY <1>1 DEF InFlight, LastTold
<1>3. m \in DOMAIN d.bundles
  BY <1>1, <1>2, LiveType
<1>4. PICK s : s = b.status
  OBVIOUS
<1>5. RecordOK(m, b) /\ (t # <<>> => Latest(s) = t[Len(t)])
  BY <1>1, <1>3, <1>4, LiveRecord
<1>6. /\ b.info \in Infos /\ b.info.spend \subseteq Outputs
      /\ b.info.kind \in {"Known", "Unknown", "UnknownConfirmed"}
  BY <1>5, RecordFields
<1> QED
  BY <1>2, <1>3, <1>4, <1>5, <1>6 DEF RecordOK

LEMMA ConfirmedMoves ==
    ASSUME NEW d, Sound(d), NEW m \in Bundles, NEW height \in Nat, InFlight(d.bundles, m),
           NEW c, c = ConnectConfirmed(d, m, height), c.ok
    PROVE  \E e \in Stamps : e.height = height /\ ConfirmedTo(d, c, m, e)
<1>1. d \in Dbs /\ ~Fail(d).ok /\ d.utxos \subseteq Outputs
  BY FailFacts, DbFields DEF PegOK, Sound
<1>2. PICK b : b = d.bundles[m]
  OBVIOUS
<1>3. PICK last : last = LastTold(d.bundles, m)
  OBVIOUS
<1>4. /\ m \in DOMAIN d.bundles /\ b.info \in Infos /\ b.info.spend \subseteq Outputs
      /\ b.info.kind \in {"Known", "Unknown", "UnknownConfirmed"}
      /\ Latest(b.status).value = last
      /\ b.info.kind = "Known" => m \in OwnBundles /\ b.info.spend = m.spend
      /\ b.info.kind # "Known" => m \in UnknownBundles
  BY <1>2, <1>3, FlightRecord
<1>5. last \in SubmittedKinds
  BY <1>3 DEF InFlight
<1>6. PICK s : s = IF m \in DOMAIN d.bundles THEN d.bundles[m].status ELSE <<>>
  OBVIOUS
<1>7. s = b.status
  BY <1>2, <1>4, <1>6
<1>8. PICK e : e = Stamped("Confirmed", height)
  OBVIOUS
<1>9. e \in Stamps /\ e.value = "Confirmed" /\ e.height = height
  BY <1>8, StampType DEF Statuses, Stamped
<1>10. CASE b.info.kind = "Known" /\ last = "Submitted"
  <2>1. c = PutBundle(d, m, b.info, Append(s, e))
    BY <1>1, <1>2, <1>4, <1>7, <1>8, <1>10 DEF ConnectConfirmed, SubmittedKinds
  <2>2. Moved(d.bundles, c.bundles, m, e) /\ SameOutputs(d, c)
    BY <1>1, <1>4, <1>6, <1>9, <2>1, PutMoves
  <2>3. ConfirmedTo(d, c, m, e)
    BY <1>3, <1>4, <1>9, <1>10, <2>2 DEF ConfirmedTo, SameOutputs, KeepsBlocks
  <2> QED
    BY <1>9, <2>3
<1>11. CASE b.info.kind = "Known" /\ last = "SubmittedUnexpected"
  <2>1. PICK x : x = Spend(d, m.spend)
    OBVIOUS
  <2>2. m.spend \subseteq d.utxos /\ c = PutBundle(x, m, b.info, Append(s, e))
    BY <1>1, <1>2, <1>4, <1>7, <1>8, <1>11, <2>1 DEF ConnectConfirmed, SubmittedKinds
  <2>3. /\ x \in Dbs /\ x.utxos = d.utxos \ m.spend /\ x.stxos = d.stxos \cup m.spend
        /\ x.bundles = d.bundles /\ x.latest_failed = d.latest_failed /\ KeepsBlocks(d, x)
        /\ x.pending = d.pending
    <3>1. m.spend \subseteq Outputs
      BY <1>4, <1>11
    <3> QED
      BY <1>1, <2>1, <3>1, SpendFacts DEF KeepsBlocks
  <2>4. Moved(d.bundles, c.bundles, m, e) /\ SameOutputs(x, c)
    BY <1>4, <1>6, <1>9, <2>2, <2>3, PutMoves
  <2>5. ConfirmedTo(d, c, m, e)
    BY <1>3, <1>4, <1>9, <1>11, <2>2, <2>3, <2>4 DEF ConfirmedTo, SameOutputs, KeepsBlocks
  <2> QED
    BY <1>9, <2>5
<1>12. CASE b.info.kind = "Unknown"
  <2>1. PICK x : x = Spend(d, d.utxos)
    OBVIOUS
  <2>2. PICK info \in Infos : info = UnknownConfirmed(d.utxos) /\ info.kind = "UnknownConfirmed"
    <3>1. UnknownConfirmed(d.utxos) \in Infos /\ UnknownConfirmed(d.utxos).kind = "UnknownConfirmed"
      BY <1>1 DEF Infos, UnknownConfirmed
    <3> QED
      BY <3>1
  <2>3. c = PutBundle(x, m, info, Append(s, e))
    BY <1>1, <1>2, <1>4, <1>5, <1>7, <1>8, <1>12, <2>1, <2>2 DEF ConnectConfirmed, SubmittedKinds
  <2>4. /\ x \in Dbs /\ x.utxos = d.utxos \ d.utxos /\ x.stxos = d.stxos \cup d.utxos
        /\ x.bundles = d.bundles /\ x.latest_failed = d.latest_failed /\ KeepsBlocks(d, x)
        /\ x.pending = d.pending
    BY <1>1, <2>1, SpendFacts DEF KeepsBlocks
  <2>5. /\ Moved(d.bundles, c.bundles, m, e) /\ SameOutputs(x, c)
        /\ Told(c.bundles, m) = info
    BY <1>6, <1>9, <2>2, <2>3, <2>4, PutMoves
  <2>6. Told(d.bundles, m) = Unknown
    BY <1>2, <1>12 DEF Told
  <2>7. ConfirmedTo(d, c, m, e)
    BY <1>4, <1>9, <1>12, <2>2, <2>4, <2>5, <2>6 DEF ConfirmedTo, SameOutputs, KeepsBlocks
  <2> QED
    BY <1>9, <2>7
<1>13. b.info.kind # "UnknownConfirmed"
  BY <1>1, <1>2, <1>4, <1>5 DEF ConnectConfirmed, SubmittedKinds
<1> QED
  BY <1>4, <1>5, <1>10, <1>11, <1>12, <1>13 DEF SubmittedKinds

(* The record b of a bundle whose last report is e, in databases alike.    *)
Reported(x, m, b, t, e) ==
    /\ m \in DOMAIN x.bundles /\ t \in Seq(Stamps) /\ TopStatus(m, b.status, t, e)
    /\ b.info.kind = "Known" <=> m \in OwnBundles
    /\ b.info.kind = "Known" => b.info.spend = m.spend
    /\ b.info.spend \subseteq Outputs
    /\ b.info.kind = "Known" /\ e.value = "Confirmed" => m.spend \subseteq x.stxos

LEMMA AlikeRecord ==
    ASSUME NEW d, Sound(d), NEW c, NEW m \in Bundles, NEW e \in Stamps,
           Moved(d.bundles, c.bundles, m, e), NEW x, Sound(x), Alike(x, c),
           NEW t, t = Live(d.bundles, m), NEW b, b = x.bundles[m]
    PROVE  Reported(x, m, b, t, e)
<1> DEFINE s == b.status
<1>1. t \in Seq(Stamps)
  BY LiveType
<1>2. m \in DOMAIN x.bundles /\ TopStatus(m, s, t, e)
  <2>1. Topped(x.bundles, m, t, e)
    BY ToppedIn
  <2>2. s = x.bundles[m].status
    OBVIOUS
  <2> QED
    BY <1>1, <2>1, <2>2, TopFacts
<1>3. /\ RecordOK(m, b)
      /\ b.info.kind = "Known" <=> m \in OwnBundles
      /\ m \in OwnBundles => b.info.spend = m.spend
  <2>1. PICK u : u = Live(x.bundles, m)
    OBVIOUS
  <2> QED
    BY <1>2, <2>1, LiveRecord
<1>4. b.info.spend \subseteq Outputs
  BY <1>3, RecordFields
<1>5. b.info.kind = "Known" /\ e.value = "Confirmed" => m.spend \subseteq x.stxos
  <2> SUFFICES ASSUME b.info.kind = "Known", e.value = "Confirmed"
               PROVE  m.spend \subseteq x.stxos
    OBVIOUS
  <2>1. s[Len(s)].value = "Confirmed"
    BY <1>2 DEF TopStatus, Latest
  <2>2. HoldsIn(x.bundles, m)
    BY <2>1 DEF HoldsIn
  <2>3. b.info.spend \subseteq x.stxos
    BY <1>2, <2>2 DEF Sound, PegOK, Divided
  <2> QED
    BY <1>3, <2>3
<1> QED
  BY <1>1, <1>2, <1>3, <1>4, <1>5 DEF Reported

(* The undo of a confirmation.                                             *)
LEMMA UndoConfirmedExact ==
    ASSUME NEW d, Sound(d), NEW m \in Bundles, NEW height \in Nat, NEW c,
           NEW e \in Stamps, e.height = height, ConfirmedTo(d, c, m, e),
           NEW x, Sound(x), Alike(x, c), NEW y, y = DisconnectConfirmed(x, m, height)
    PROVE  Undone(x, y, d) /\ y.pending = x.pending
<1>1. x \in Dbs /\ x.ok /\ d.utxos \cap d.stxos = {} /\ d \in Dbs
  BY DEF PegOK, Sound
<1>2. PICK t : t = Live(d.bundles, m)
  OBVIOUS
<1>3. PICK b : b = x.bundles[m]
  OBVIOUS
<1>4. PICK s : s = b.status
  OBVIOUS
<1>5. /\ Moved(d.bundles, c.bundles, m, e) /\ e.value = "Confirmed"
      /\ c.latest_failed = d.latest_failed
  BY DEF ConfirmedTo
<1>6. t # <<>> /\ LastTold(d.bundles, m) = t[Len(t)].value /\ t[Len(t)].value \in SubmittedKinds
  BY <1>2 DEF ConfirmedTo, InFlight, LastTold
<1>7. /\ m \in DOMAIN x.bundles /\ TopStatus(m, s, t, e)
      /\ b.info.kind = "Known" <=> m \in OwnBundles
      /\ b.info.kind = "Known" => b.info.spend = m.spend
      /\ b.info.spend \subseteq Outputs
      /\ b.info.kind = "Known" /\ e.value = "Confirmed" => m.spend \subseteq x.stxos
  <2>1. Reported(x, m, b, t, e)
    BY <1>2, <1>3, <1>5, AlikeRecord
  <2> QED
    BY <1>4, <2>1 DEF Reported
<1>8. PICK prev : prev = s[Len(s) - 1].value
  OBVIOUS
<1>9. /\ Latest(s).value = "Confirmed" /\ Latest(s).height = height
      /\ Len(s) # 1 /\ prev = LastTold(d.bundles, m) /\ prev \in SubmittedKinds
  <2>1. Latest(s) = e /\ Len(s) \in Nat /\ Len(s) > 1 /\ s[Len(s) - 1] = t[Len(t)]
    BY <1>6, <1>7 DEF TopStatus
  <2>2. \A k \in Nat : k > 1 => k # 1
    OBVIOUS
  <2> QED
    BY <1>5, <1>6, <1>8, <2>1, <2>2, Zenon
<1>10. Latest(s).value \notin SubmittedKinds
  BY <1>9 DEF SubmittedKinds
<1>11. x.utxos = c.utxos /\ x.stxos = c.stxos /\ x.latest_failed = c.latest_failed
  BY DEF Alike
<1>12. CASE /\ m \in OwnBundles /\ LastTold(d.bundles, m) = "Submitted"
            /\ c.utxos = d.utxos /\ c.stxos = d.stxos
  <2>1. b.info.kind = "Known" /\ b.info.spend \subseteq x.stxos /\ prev # "SubmittedUnexpected"
    BY <1>5, <1>7, <1>9, <1>12
  <2>2. y = PopStatus(x, m)
    BY <1>3, <1>4, <1>7, <1>8, <1>9, <1>10, <2>1 DEF DisconnectConfirmed
  <2>3. m \notin UnknownBundles
    BY <1>12, PegAssumption
  <2>4. y \in Dbs /\ SameOutputs(x, y) /\ Stacks(y.bundles) /\ Agree(y.bundles, d.bundles)
    BY <1>1, <1>5, <2>2, <2>3, UndoPop
  <2> QED
    BY <1>1, <1>5, <1>11, <1>12, <2>4 DEF Undone, Alike, SameOutputs, KeepsBlocks
<1>13. CASE /\ m \in OwnBundles /\ LastTold(d.bundles, m) = "SubmittedUnexpected"
            /\ m.spend \subseteq d.utxos
            /\ c.utxos = d.utxos \ m.spend /\ c.stxos = d.stxos \cup m.spend
  <2>1. /\ b.info.kind = "Known" /\ b.info.spend = m.spend /\ m.spend \subseteq Outputs
        /\ b.info.spend \subseteq x.stxos /\ prev = "SubmittedUnexpected"
    BY <1>5, <1>7, <1>9, <1>13
  <2>2. PICK z : z = Unspend(x, m.spend)
    OBVIOUS
  <2>3. y = PopStatus(z, m)
    BY <1>3, <1>4, <1>7, <1>8, <1>9, <1>10, <2>1, <2>2 DEF DisconnectConfirmed
  <2>4. /\ z \in Dbs /\ z.utxos = x.utxos \cup m.spend /\ z.stxos = x.stxos \ m.spend
        /\ z.ok /\ z.bundles = x.bundles /\ z.latest_failed = x.latest_failed
        /\ KeepsBlocks(x, z) /\ z.pending = x.pending
    BY <1>1, <2>1, <2>2, UnspendFacts DEF KeepsBlocks
  <2>5. m \notin UnknownBundles
    BY <1>13, PegAssumption
  <2>6. y \in Dbs /\ SameOutputs(z, y) /\ Stacks(y.bundles) /\ Agree(y.bundles, d.bundles)
    BY <1>5, <2>3, <2>4, <2>5, UndoPop
  <2>7. y.utxos = d.utxos /\ y.stxos = d.stxos
    <3>1. y.utxos = (d.utxos \ m.spend) \cup m.spend /\ y.stxos = (d.stxos \cup m.spend) \ m.spend
      BY <1>11, <1>13, <2>4, <2>6 DEF SameOutputs
    <3> QED
      BY <1>1, <1>13, <3>1
  <2> QED
    BY <1>5, <1>11, <2>4, <2>6, <2>7 DEF Undone, Alike, SameOutputs, KeepsBlocks
<1>14. CASE /\ m \in UnknownBundles /\ Told(d.bundles, m) = Unknown
            /\ Told(c.bundles, m) = UnknownConfirmed(d.utxos)
            /\ c.utxos = d.utxos \ d.utxos /\ c.stxos = d.stxos \cup d.utxos
  <2>1. b.info.kind = "UnknownConfirmed" /\ b.info.spend = d.utxos
    <3>1. Told(x.bundles, m) = UnknownConfirmed(d.utxos)
      BY <1>14 DEF Alike, Agree
    <3>2. UnknownConfirmed(d.utxos) # Unknown
      BY DEF UnknownConfirmed, Unknown
    <3>3. b.info = UnknownConfirmed(d.utxos)
      BY <1>3, <1>7, <3>1, <3>2 DEF Told
    <3> QED
      BY <3>3 DEF UnknownConfirmed
  <2>2. d.utxos \subseteq Outputs /\ d.utxos \subseteq x.stxos
    BY <1>1, <1>11, <1>14, DbFields
  <2>3. PICK z : z = Unspend(x, d.utxos)
    OBVIOUS
  <2>4. y = PutBundle(z, m, Unknown, Front(s))
    BY <1>3, <1>4, <1>7, <1>8, <1>9, <1>10, <2>1, <2>2, <2>3 DEF DisconnectConfirmed
  <2>5. /\ z \in Dbs /\ z.utxos = x.utxos \cup d.utxos /\ z.stxos = x.stxos \ d.utxos
        /\ z.ok /\ z.bundles = x.bundles /\ z.latest_failed = x.latest_failed
        /\ KeepsBlocks(x, z) /\ z.pending = x.pending
    BY <1>1, <2>2, <2>3, UnspendFacts DEF KeepsBlocks
  <2>6. s = x.bundles[m].status
    BY <1>3, <1>4
  <2>7. y \in Dbs /\ SameOutputs(z, y) /\ Stacks(y.bundles) /\ Agree(y.bundles, d.bundles)
    BY <1>5, <1>14, <2>4, <2>5, <2>6, UndoPut
  <2>8. y.utxos = d.utxos /\ y.stxos = d.stxos
    <3>1. /\ y.utxos = (d.utxos \ d.utxos) \cup d.utxos
          /\ y.stxos = (d.stxos \cup d.utxos) \ d.utxos
      BY <1>11, <1>14, <2>5, <2>7 DEF SameOutputs
    <3> QED
      BY <1>1, <3>1
  <2> QED
    BY <1>5, <1>11, <2>5, <2>7, <2>8 DEF Undone, Alike, SameOutputs, KeepsBlocks
<1> QED
  BY <1>12, <1>13, <1>14 DEF ConfirmedTo

(* A failure: the outputs of a bundle that held them are given back, and   *)
(* the failure is noted; otherwise no output moves.                        *)
FailedTo(d, c, m, e) ==
    /\ Moved(d.bundles, c.bundles, m, e) /\ e.value = "Failed" /\ InFlight(d.bundles, m)
    /\ m \in UnknownBundles => Told(c.bundles, m) = Told(d.bundles, m)
    /\ c.pending = d.pending /\ KeepsBlocks(d, c)
    /\ \/ /\ m \in OwnBundles => LastTold(d.bundles, m) = "SubmittedUnexpected"
          /\ c.utxos = d.utxos /\ c.stxos = d.stxos /\ c.latest_failed = d.latest_failed
       \/ /\ m \in OwnBundles /\ LastTold(d.bundles, m) = "Submitted"
          /\ m.spend \subseteq d.stxos
          /\ c.utxos = d.utxos \cup m.spend /\ c.stxos = d.stxos \ m.spend
          /\ c.latest_failed = Append(d.latest_failed, Stamped(m, e.height))

(* The failures are replaced.                                              *)
LEMMA FailedKeeps ==
    ASSUME NEW d \in Dbs, NEW s \in Seq([value : Bundles, height : Nat]),
           NEW r, r = [d EXCEPT !.latest_failed = s]
    PROVE  /\ r \in Dbs /\ r.utxos = d.utxos /\ r.stxos = d.stxos /\ r.bundles = d.bundles
           /\ r.ok = d.ok /\ r.pending = d.pending /\ r.latest_failed = s
           /\ r.deposit_blocks = d.deposit_blocks /\ r.bundle_blocks = d.bundle_blocks
  BY DEF Dbs

LEMMA FailedMoves ==
    ASSUME NEW d, Sound(d), NEW m \in Bundles, NEW height \in Nat, InFlight(d.bundles, m),
           NEW c, c = ConnectFailed(d, m, height), c.ok
    PROVE  \E e \in Stamps : e.height = height /\ FailedTo(d, c, m, e)
<1>1. d \in Dbs /\ ~Fail(d).ok /\ d.latest_failed \in Seq([value : Bundles, height : Nat])
  BY FailFacts, DbFields DEF PegOK, Sound
<1>2. PICK b : b = d.bundles[m]
  OBVIOUS
<1>3. PICK last : last = LastTold(d.bundles, m)
  OBVIOUS
<1>4. /\ m \in DOMAIN d.bundles /\ b.info \in Infos /\ b.info.spend \subseteq Outputs
      /\ b.info.kind \in {"Known", "Unknown", "UnknownConfirmed"}
      /\ Latest(b.status).value = last
      /\ b.info.kind = "Known" => m \in OwnBundles /\ b.info.spend = m.spend
      /\ b.info.kind # "Known" => m \in UnknownBundles
  BY <1>2, <1>3, FlightRecord
<1>5. last \in SubmittedKinds
  BY <1>3 DEF InFlight
<1>6. PICK s : s = IF m \in DOMAIN d.bundles THEN d.bundles[m].status ELSE <<>>
  OBVIOUS
<1>7. s = b.status
  BY <1>2, <1>4, <1>6
<1>8. PICK e : e = Stamped("Failed", height)
  OBVIOUS
<1>9. e \in Stamps /\ e.value = "Failed" /\ e.height = height
  BY <1>8, StampType DEF Statuses, Stamped
<1>10. CASE b.info.kind # "Known" \/ last = "SubmittedUnexpected"
  <2>1. c = PutBundle(d, m, b.info, Append(s, e))
    BY <1>1, <1>2, <1>4, <1>5, <1>7, <1>8, <1>10 DEF ConnectFailed, SubmittedKinds
  <2>2. /\ Moved(d.bundles, c.bundles, m, e) /\ SameOutputs(d, c)
        /\ Told(c.bundles, m) = IF b.info.kind = "Unknown" THEN Unknown ELSE b.info
    BY <1>1, <1>4, <1>6, <1>9, <2>1, PutMoves
  <2>3. Told(c.bundles, m) = Told(d.bundles, m)
    BY <1>2, <1>4, <2>2 DEF Told
  <2>4. m \in OwnBundles => last = "SubmittedUnexpected"
    BY <1>4, <1>10, PegAssumption
  <2>5. FailedTo(d, c, m, e)
    BY <1>3, <1>9, <2>2, <2>3, <2>4 DEF FailedTo, SameOutputs, KeepsBlocks
  <2> QED
    BY <1>9, <2>5
<1>11. CASE b.info.kind = "Known" /\ last = "Submitted"
  <2>1. PICK x : x = Unspend(d, m.spend)
    OBVIOUS
  <2>2. PICK y : y = PutBundle(x, m, b.info, Append(s, e))
    OBVIOUS
  <2>3. c = [y EXCEPT !.latest_failed = Append(@, Stamped(m, height))]
    BY <1>1, <1>2, <1>4, <1>5, <1>7, <1>8, <1>11, <2>1, <2>2 DEF ConnectFailed, SubmittedKinds
  <2>4. /\ x \in Dbs /\ x.utxos = d.utxos \cup m.spend /\ x.stxos = d.stxos \ m.spend
        /\ x.bundles = d.bundles /\ x.latest_failed = d.latest_failed /\ KeepsBlocks(d, x)
        /\ x.pending = d.pending
    <3>1. m.spend \subseteq Outputs
      BY <1>4, <1>11
    <3> QED
      BY <1>1, <2>1, <3>1, UnspendFacts DEF KeepsBlocks
  <2>5. Moved(d.bundles, y.bundles, m, e) /\ y \in Dbs /\ SameOutputs(x, y)
    BY <1>4, <1>6, <1>9, <2>2, <2>4, PutMoves
  <2>6. PICK f : f = Append(d.latest_failed, Stamped(m, height))
    OBVIOUS
  <2>7. f \in Seq([value : Bundles, height : Nat]) /\ c = [y EXCEPT !.latest_failed = f]
    <3>1. Stamped(m, height) \in [value : Bundles, height : Nat]
      BY DEF Stamped
    <3>2. y.latest_failed = d.latest_failed
      BY <2>4, <2>5 DEF SameOutputs
    <3> QED
      BY <1>1, <2>3, <2>6, <3>1, <3>2
  <2>8. /\ c.utxos = y.utxos /\ c.stxos = y.stxos /\ c.bundles = y.bundles
        /\ c.pending = y.pending /\ c.latest_failed = f /\ KeepsBlocks(y, c)
    BY <2>5, <2>7, FailedKeeps DEF KeepsBlocks
  <2>9. m.spend \subseteq d.stxos
    <3>1. HoldsIn(d.bundles, m)
      BY <1>2, <1>4, <1>11 DEF HoldsIn, Latest
    <3> QED
      BY <1>2, <1>4, <1>11, <3>1 DEF Sound, PegOK, Divided
  <2>10. m \notin UnknownBundles /\ m \in OwnBundles
    BY <1>4, <1>11, PegAssumption
  <2>11. /\ c.utxos = d.utxos \cup m.spend /\ c.stxos = d.stxos \ m.spend
         /\ c.pending = d.pending /\ KeepsBlocks(d, c)
    BY <2>4, <2>5, <2>8 DEF SameOutputs, KeepsBlocks
  <2>12. FailedTo(d, c, m, e)
    BY <1>3, <1>9, <1>11, <2>5, <2>6, <2>8, <2>9, <2>10, <2>11 DEF FailedTo
  <2> QED
    BY <1>9, <2>12
<1> QED
  BY <1>4, <1>5, <1>10, <1>11 DEF SubmittedKinds

(* The undo of a failure.                                                  *)
LEMMA UndoFailedExact ==
    ASSUME NEW d, Sound(d), NEW m \in Bundles, NEW height \in Nat, NEW c,
           NEW e \in Stamps, e.height = height, FailedTo(d, c, m, e),
           NEW x, Sound(x), Alike(x, c), NEW y, y = DisconnectFailed(x, m, height)
    PROVE  Undone(x, y, d) /\ y.pending = x.pending
<1>1. /\ x \in Dbs /\ x.ok /\ d.utxos \cap d.stxos = {} /\ d \in Dbs
      /\ d.latest_failed \in Seq([value : Bundles, height : Nat])
  BY DbFields DEF PegOK, Sound
<1>2. PICK t : t = Live(d.bundles, m)
  OBVIOUS
<1>3. PICK b : b = x.bundles[m]
  OBVIOUS
<1>4. PICK s : s = b.status
  OBVIOUS
<1>5. /\ Moved(d.bundles, c.bundles, m, e) /\ e.value = "Failed"
      /\ m \in UnknownBundles => Told(c.bundles, m) = Told(d.bundles, m)
  BY DEF FailedTo
<1>6. t # <<>> /\ LastTold(d.bundles, m) = t[Len(t)].value /\ t[Len(t)].value \in SubmittedKinds
  BY <1>2 DEF FailedTo, InFlight, LastTold
<1>7. /\ m \in DOMAIN x.bundles /\ TopStatus(m, s, t, e)
      /\ b.info.kind = "Known" <=> m \in OwnBundles
      /\ b.info.kind = "Known" => b.info.spend = m.spend
      /\ b.info.spend \subseteq Outputs
  <2>1. Reported(x, m, b, t, e)
    BY <1>2, <1>3, <1>5, AlikeRecord
  <2> QED
    BY <1>4, <2>1 DEF Reported
<1>8. PICK prev : prev = s[Len(s) - 1].value
  OBVIOUS
<1>9. /\ Latest(s).value = "Failed" /\ Latest(s).height = height
      /\ Len(s) # 1 /\ prev = LastTold(d.bundles, m) /\ prev \in SubmittedKinds
  <2>1. Latest(s) = e /\ Len(s) \in Nat /\ Len(s) > 1 /\ s[Len(s) - 1] = t[Len(t)]
    BY <1>6, <1>7 DEF TopStatus
  <2>2. \A k \in Nat : k > 1 => k # 1
    OBVIOUS
  <2> QED
    BY <1>5, <1>6, <1>8, <2>1, <2>2, Zenon
<1>10. x.utxos = c.utxos /\ x.stxos = c.stxos /\ x.latest_failed = c.latest_failed
  BY DEF Alike
<1>11. CASE /\ m \in OwnBundles => LastTold(d.bundles, m) = "SubmittedUnexpected"
            /\ c.utxos = d.utxos /\ c.stxos = d.stxos /\ c.latest_failed = d.latest_failed
  <2>1. b.info.kind # "Known" \/ prev = "SubmittedUnexpected"
    BY <1>7, <1>9, <1>11
  <2>2. y = PopStatus(x, m)
    BY <1>3, <1>4, <1>7, <1>8, <1>9, <2>1 DEF DisconnectFailed
  <2>3. y \in Dbs /\ SameOutputs(x, y) /\ Stacks(y.bundles) /\ Agree(y.bundles, d.bundles)
    BY <1>1, <1>5, <2>2, UndoPop
  <2> QED
    BY <1>1, <1>10, <1>11, <2>3 DEF Undone, Alike, SameOutputs, KeepsBlocks
<1>12. CASE /\ m \in OwnBundles /\ LastTold(d.bundles, m) = "Submitted"
            /\ m.spend \subseteq d.stxos
            /\ c.utxos = d.utxos \cup m.spend /\ c.stxos = d.stxos \ m.spend
            /\ c.latest_failed = Append(d.latest_failed, Stamped(m, e.height))
  <2>1. /\ b.info.kind = "Known" /\ b.info.spend = m.spend /\ m.spend \subseteq Outputs
        /\ m.spend \subseteq x.utxos /\ prev = "Submitted"
    BY <1>7, <1>9, <1>10, <1>12
  <2>2. PICK f : f = x.latest_failed
    OBVIOUS
  <2>3. /\ f \in Seq([value : Bundles, height : Nat]) /\ Len(f) > 0 /\ f # <<>>
        /\ Latest(f) = Stamped(m, height) /\ Front(f) = d.latest_failed
    <3>1. Stamped(m, height) \in [value : Bundles, height : Nat]
      BY DEF Stamped
    <3>2. f = Append(d.latest_failed, Stamped(m, height))
      BY <1>10, <1>12, <2>2
    <3>3. Latest(f) = Stamped(m, height) /\ Len(f) = Len(d.latest_failed) + 1
      BY <1>1, <3>1, <3>2 DEF Latest
    <3>4. Front(f) = d.latest_failed
      BY <1>1, <3>1, <3>2 DEF Front
    <3> QED
      BY <1>1, <3>1, <3>2, <3>3, <3>4
  <2>4. PICK z : z = Spend(x, m.spend)
    OBVIOUS
  <2>5. PICK v : v = PopStatus(z, m)
    OBVIOUS
  <2>6. y = [v EXCEPT !.latest_failed = Front(@)]
    BY <1>3, <1>4, <1>7, <1>8, <1>9, <2>1, <2>2, <2>3, <2>4, <2>5 DEF DisconnectFailed
  <2>7. /\ z \in Dbs /\ z.utxos = x.utxos \ m.spend /\ z.stxos = x.stxos \cup m.spend
        /\ z.ok /\ z.bundles = x.bundles /\ z.latest_failed = x.latest_failed
        /\ KeepsBlocks(x, z) /\ z.pending = x.pending
    BY <1>1, <2>1, <2>4, SpendFacts DEF KeepsBlocks
  <2>8. m \notin UnknownBundles
    BY <1>12, PegAssumption
  <2>9. v \in Dbs /\ SameOutputs(z, v) /\ Stacks(v.bundles) /\ Agree(v.bundles, d.bundles)
    BY <1>5, <2>5, <2>7, <2>8, UndoPop
  <2>10. y = [v EXCEPT !.latest_failed = d.latest_failed]
    BY <2>2, <2>3, <2>6, <2>7, <2>9 DEF SameOutputs
  <2>11. /\ y.utxos = v.utxos /\ y.stxos = v.stxos /\ y.bundles = v.bundles /\ y.ok = v.ok
         /\ y.pending = v.pending /\ y.latest_failed = d.latest_failed /\ KeepsBlocks(v, y)
    BY <1>1, <2>9, <2>10, FailedKeeps DEF KeepsBlocks
  <2>12. y.utxos = d.utxos /\ y.stxos = d.stxos
    <3>1. y.utxos = (d.utxos \cup m.spend) \ m.spend /\ y.stxos = (d.stxos \ m.spend) \cup m.spend
      BY <1>10, <1>12, <2>7, <2>9, <2>11 DEF SameOutputs
    <3> QED
      BY <1>1, <1>12, <3>1
  <2> QED
    BY <2>7, <2>9, <2>11, <2>12 DEF Undone, Alike, SameOutputs, KeepsBlocks
<1> QED
  BY <1>11, <1>12 DEF FailedTo

-----------------------------------------------------------------------------
(* Events.                                                                 *)

(* What the mainchain may report to databases d.                           *)
Expected(d, event, height) ==
    /\ height = 0 => (d.utxos \cup d.stxos) \cap Withdrawals = {}
    /\ event.kind = "Deposit" => event.id \notin d.utxos \cup d.stxos
    /\ event.kind # "Deposit" => event.id \in DOMAIN d.bundles \/ event.id \in UnknownBundles
    /\ event.kind \in {"Confirmed", "Failed"} => InFlight(d.bundles, event.id)

DepositedTo(d, c, id) ==
    /\ id \notin d.utxos \cup d.stxos
    /\ c.utxos = d.utxos \cup {id} /\ c.stxos = d.stxos /\ c.bundles = d.bundles
    /\ c.pending = d.pending /\ c.latest_failed = d.latest_failed /\ KeepsBlocks(d, c)

EventTo(d, c, event, height) ==
    \/ event.kind = "Deposit" /\ DepositedTo(d, c, event.id)
    \/ /\ event.kind # "Deposit" /\ event.id \in Bundles
       /\ \E e \in Stamps :
             /\ e.height = height
             /\ \/ event.kind = "Submitted" /\ SubmittedTo(d, c, event.id, e)
                \/ event.kind = "Confirmed" /\ ConfirmedTo(d, c, event.id, e)
                \/ event.kind = "Failed" /\ FailedTo(d, c, event.id, e)

LEMMA EventMoves ==
    ASSUME NEW d, Sound(d), NEW event \in PegEvents, NEW height \in Nat,
           Expected(d, event, height), NEW c, c = ConnectEvent(d, event, height), c.ok
    PROVE  /\ Sound(c) /\ EventTo(d, c, event, height)
           /\ DOMAIN d.bundles \subseteq DOMAIN c.bundles
           /\ c.utxos \cup c.stxos = (d.utxos \cup d.stxos) \cup DepositOf(event)
<1>1. PICK C : C = d.utxos \cup d.stxos
  OBVIOUS
<1>2. PegOK(d, C) /\ Stacks(d.bundles) /\ d \in Dbs
  BY <1>1 DEF Sound, PegOK
<1>3. PegOK(c, C \cup DepositOf(event)) /\ DOMAIN d.bundles \subseteq DOMAIN c.bundles
  BY <1>1, <1>2, EventOK DEF Expected
<1>4. c.utxos \cup c.stxos = C \cup DepositOf(event)
  BY <1>3 DEF PegOK
<1>5. /\ event.kind \in {"Deposit", "Submitted", "Confirmed", "Failed"}
      /\ event.kind # "Deposit" => event.id \in Bundles
  BY DEF PegEvents
<1>6. EventTo(d, c, event, height) /\ Stacks(c.bundles)
  <2>1. CASE event.kind = "Deposit"
    <3>1. c = [d EXCEPT !.utxos = @ \cup {event.id}]
      BY <2>1 DEF ConnectEvent
    <3>2. /\ c.utxos = d.utxos \cup {event.id} /\ c.stxos = d.stxos /\ c.bundles = d.bundles
          /\ c.pending = d.pending /\ c.latest_failed = d.latest_failed /\ KeepsBlocks(d, c)
      BY <1>2, <3>1 DEF Dbs, KeepsBlocks
    <3> QED
      BY <1>2, <2>1, <3>2 DEF EventTo, DepositedTo, Expected
  <2>2. CASE event.kind # "Deposit"
    <3>1. PICK m \in Bundles : m = event.id
      BY <1>5, <2>2
    <3>2. CASE event.kind = "Submitted"
      <4>1. c = ConnectSubmitted(d, m, height)
        BY <3>1, <3>2 DEF ConnectEvent
      <4>2. m \in DOMAIN d.bundles \/ m \in UnknownBundles
        BY <2>2, <3>1 DEF Expected
      <4>3. PICK e \in Stamps : e.height = height /\ SubmittedTo(d, c, m, e)
        BY <4>1, <4>2, SubmittedMoves
      <4> QED
        BY <2>2, <3>1, <3>2, <4>3 DEF EventTo, SubmittedTo, Moved
    <3>3. CASE event.kind = "Confirmed"
      <4>1. c = ConnectConfirmed(d, m, height) /\ InFlight(d.bundles, m)
        BY <3>1, <3>3 DEF ConnectEvent, Expected
      <4>2. PICK e \in Stamps : e.height = height /\ ConfirmedTo(d, c, m, e)
        BY <4>1, ConfirmedMoves
      <4> QED
        BY <2>2, <3>1, <3>3, <4>2 DEF EventTo, ConfirmedTo, Moved
    <3>4. CASE event.kind = "Failed"
      <4>1. c = ConnectFailed(d, m, height) /\ InFlight(d.bundles, m)
        BY <3>1, <3>4 DEF ConnectEvent, Expected
      <4>2. PICK e \in Stamps : e.height = height /\ FailedTo(d, c, m, e)
        BY <4>1, FailedMoves
      <4> QED
        BY <2>2, <3>1, <3>4, <4>2 DEF EventTo, FailedTo, Moved
    <3> QED
      BY <1>5, <2>2, <3>2, <3>3, <3>4
  <2> QED
    BY <2>1, <2>2
<1>7. Sound(c)
  BY <1>3, <1>4, <1>6 DEF Sound
<1> QED
  BY <1>1, <1>3, <1>4, <1>6, <1>7

(* What the event did is undone.                                           *)
LEMMA UndoEventExact ==
    ASSUME NEW d, Sound(d), NEW event \in PegEvents, NEW height \in Nat, NEW c,
           EventTo(d, c, event, height), NEW x, Sound(x), Alike(x, c),
           NEW y, y = DisconnectEvent(x, event, height)
    PROVE  /\ Sound(y) /\ Undone(x, y, d)
           /\ y.pending = IF c.pending # d.pending THEN d.pending ELSE x.pending
           /\ c.pending = d.pending \/ c.pending = None
<1>1. PICK C : C = x.utxos \cup x.stxos
  OBVIOUS
<1>2. PegOK(x, C) /\ x \in Dbs /\ x.ok /\ Stacks(x.bundles)
  BY <1>1 DEF Sound, PegOK
<1>3. /\ Undone(x, y, d)
      /\ y.pending = IF c.pending # d.pending THEN d.pending ELSE x.pending
      /\ c.pending = d.pending \/ c.pending = None
  <2>1. CASE event.kind = "Deposit" /\ DepositedTo(d, c, event.id)
    <3>1. x.utxos = d.utxos \cup {event.id} /\ x.stxos = d.stxos
      BY <2>1 DEF DepositedTo, Alike
    <3>2. y = [x EXCEPT !.utxos = @ \ {event.id}]
      BY <2>1, <3>1 DEF DisconnectEvent
    <3>3. /\ y.utxos = x.utxos \ {event.id} /\ y.stxos = x.stxos /\ y.bundles = x.bundles
          /\ y.ok /\ y.pending = x.pending /\ y.latest_failed = x.latest_failed
          /\ KeepsBlocks(x, y)
      BY <1>2, <3>2 DEF Dbs, KeepsBlocks
    <3>4. y.utxos = d.utxos
      BY <2>1, <3>1, <3>3 DEF DepositedTo
    <3> QED
      BY <1>2, <2>1, <3>1, <3>3, <3>4 DEF Undone, Alike, DepositedTo
  <2>2. CASE event.kind # "Deposit" /\ event.id \in Bundles
    <3>1. PICK m \in Bundles : m = event.id
      BY <2>2
    <3>2. PICK e \in Stamps :
             /\ e.height = height
             /\ \/ event.kind = "Submitted" /\ SubmittedTo(d, c, m, e)
                \/ event.kind = "Confirmed" /\ ConfirmedTo(d, c, m, e)
                \/ event.kind = "Failed" /\ FailedTo(d, c, m, e)
      BY <2>2, <3>1 DEF EventTo
    <3>3. CASE event.kind = "Submitted" /\ SubmittedTo(d, c, m, e)
      <4>1. y = DisconnectSubmitted(x, m, height)
        BY <3>1, <3>3 DEF DisconnectEvent
      <4> QED
        BY <3>2, <3>3, <4>1, UndoSubmittedExact DEF SubmittedTo
    <3>4. CASE event.kind = "Confirmed" /\ ConfirmedTo(d, c, m, e)
      <4>1. y = DisconnectConfirmed(x, m, height)
        BY <3>1, <3>4 DEF DisconnectEvent
      <4>2. Undone(x, y, d) /\ y.pending = x.pending
        BY <3>2, <3>4, <4>1, UndoConfirmedExact
      <4> QED
        BY <3>4, <4>2 DEF ConfirmedTo
    <3>5. CASE event.kind = "Failed" /\ FailedTo(d, c, m, e)
      <4>1. y = DisconnectFailed(x, m, height)
        BY <3>1, <3>5 DEF DisconnectEvent
      <4>2. Undone(x, y, d) /\ y.pending = x.pending
        BY <3>2, <3>5, <4>1, UndoFailedExact
      <4> QED
        BY <3>5, <4>2 DEF FailedTo
    <3> QED
      BY <3>2, <3>3, <3>4, <3>5
  <2> QED
    BY <2>1, <2>2 DEF EventTo
<1>4. PegOK(y, C \ DepositOf(event))
  BY <1>2, <1>3, UndoEventOK DEF Undone
<1>5. y.utxos \cup y.stxos = C \ DepositOf(event)
  BY <1>4 DEF PegOK
<1>6. Sound(y)
  BY <1>3, <1>4, <1>5 DEF Sound, Undone
<1> QED
  BY <1>3, <1>6

-----------------------------------------------------------------------------
(* Heights.                                                                *)

(* A status or failure at the height of the block is put on a stack.       *)
LEMMA OrderedAppend ==
    ASSUME NEW S, \A a \in S : a.height \in Nat, NEW s \in Seq(S), NEW height \in Nat,
           Ordered(s), \A i \in 1..Len(s) : s[i].height =< height,
           NEW e \in S, e.height = height, NEW g, g = Append(s, e)
    PROVE  Ordered(g) /\ \A i \in 1..Len(g) : g[i].height =< height
<1>1. /\ g \in Seq(S) /\ Len(g) = Len(s) + 1 /\ Len(s) \in Nat
      /\ \A i \in 1..Len(s) : g[i] = s[i]
      /\ g[Len(s) + 1] = e
  BY Loop!AppendFacts
<1>2. \A i \in 1..Len(g) : i \in 1..Len(s) \/ i = Len(s) + 1
  BY <1>1
<1>3. \A i \in 1..Len(g) : g[i].height =< height
  BY <1>1, <1>2
<1>4. ASSUME NEW i \in 2..Len(g) PROVE g[i - 1].height =< g[i].height
  <2>1. CASE i \in 2..Len(s)
    <3>1. i \in 1..Len(s) /\ i - 1 \in 1..Len(s)
      BY <1>1, <2>1
    <3> QED
      BY <1>1, <2>1, <3>1 DEF Ordered
  <2>2. CASE i = Len(s) + 1
    <3>1. i - 1 \in 1..Len(s)
      BY <1>1, <2>2
    <3> QED
      BY <1>1, <2>2, <3>1
  <2> QED
    BY <1>1, <2>1, <2>2
<1> QED
  BY <1>3, <1>4 DEF Ordered

(* ... of bundle m.                                                        *)
LEMMA LifeAtAppend ==
    ASSUME NEW m, NEW t \in Seq(Stamps), NEW height \in Nat, LifeAt(m, t, height),
           NEW e \in Stamps, e.height = height,
           m \in OwnBundles => t # <<>> \/ m.height < height,
           NEW g, g = Append(t, e)
    PROVE  LifeAt(m, g, height)
<1>1. \A a \in Stamps : a.height \in Nat
  BY DEF Stamps
<1>2. Ordered(g) /\ \A i \in 1..Len(g) : g[i].height =< height
  BY <1>1, OrderedAppend DEF LifeAt
<1>3. ASSUME m \in OwnBundles, NEW i \in 1..Len(g)
      PROVE  m.height < height /\ m.height =< g[i].height
  <2>1. m.height < height /\ m.height \in Nat
    BY <1>3 DEF LifeAt, OwnBundles
  <2>2. /\ Len(g) = Len(t) + 1 /\ Len(t) \in Nat
        /\ \A j \in 1..Len(t) : g[j] = t[j]
        /\ g[Len(t) + 1] = e
    BY Loop!AppendFacts
  <2>3. CASE i \in 1..Len(t)
    <3>1. t # <<>>
      BY <2>3
    <3> QED
      BY <1>3, <2>1, <2>2, <2>3, <3>1 DEF LifeAt
  <2>4. CASE i = Len(t) + 1
    BY <2>1, <2>2, <2>4
  <2> QED
    BY <2>2, <2>3, <2>4
<1>4. g # <<>> => 1 \in 1..Len(g)
  OBVIOUS
<1> QED
  BY <1>2, <1>3, <1>4 DEF LifeAt

(* An event that is not a deposit reports something of bundle m.           *)
EventStep(d, c, m, e) ==
    /\ Moved(d.bundles, c.bundles, m, e)
    /\ \/ c.latest_failed = d.latest_failed
       \/ e.value = "Failed" /\ c.latest_failed = Append(d.latest_failed, Stamped(m, e.height))
    /\ c.pending = d.pending \/ c.pending = None
    /\ m \in OwnBundles => Live(d.bundles, m) # <<>> \/ d.pending = m

LEMMA EventSteps ==
    ASSUME NEW d, NEW c, NEW event, NEW height, EventTo(d, c, event, height),
           event.kind # "Deposit"
    PROVE  /\ event.id \in Bundles
           /\ \E e \in Stamps :
                 /\ e.height = height /\ EventStep(d, c, event.id, e)
                 /\ event.kind = "Submitted" => e.value \in SubmittedKinds
  BY DEF EventTo, SubmittedTo, ConfirmedTo, FailedTo, EventStep, InFlight

(* A block finds the databases as the events before left them.             *)
LEMMA EventFound ==
    ASSUME NEW d, Sound(d), NEW height \in Nat, FoundAt(d, height),
           NEW event \in PegEvents, NEW c, Sound(c), EventTo(d, c, event, height)
    PROVE  FoundAt(c, height)
<1>1. CASE event.kind = "Deposit"
  <2>1. c.bundles = d.bundles /\ c.pending = d.pending /\ c.latest_failed = d.latest_failed
    BY <1>1 DEF EventTo, DepositedTo
  <2> QED
    BY <2>1 DEF FoundAt, LivesAt, FailuresAt
<1>2. CASE event.kind # "Deposit"
  <2>1. PICK m \in Bundles : m = event.id
    BY <1>2, EventSteps
  <2>2. PICK e \in Stamps : e.height = height /\ EventStep(d, c, m, e)
    BY <1>2, <2>1, EventSteps
  <2>3. PICK t : t = Live(d.bundles, m)
    OBVIOUS
  <2>4. PICK u : u = Live(c.bundles, m)
    OBVIOUS
  <2>5. t \in Seq(Stamps) /\ u = Append(t, e)
    BY <2>2, <2>3, <2>4, LiveType DEF EventStep, Moved
  <2>6. \A n : n # m => Live(c.bundles, n) = Live(d.bundles, n)
    BY <2>2 DEF EventStep, Moved, Others
  <2>7. c.pending # None => c.pending.height < height
    BY <2>2 DEF EventStep, FoundAt
  <2>8. LivesAt(c, height)
    <3>1. m \in OwnBundles => t # <<>> \/ m.height < height
      <4>1. m # None
        BY PegAssumption
      <4> QED
        BY <2>2, <2>3, <4>1 DEF EventStep, FoundAt
    <3>2. LifeAt(m, t, height)
      BY <2>3 DEF FoundAt, LivesAt
    <3>3. LifeAt(m, u, height)
      BY <2>2, <2>5, <3>1, <3>2, LifeAtAppend
    <3>4. ASSUME NEW n \in Bundles PROVE LifeAt(n, Live(c.bundles, n), height)
      <4>1. CASE n = m
        BY <2>4, <3>3, <4>1
      <4>2. CASE n # m
        BY <2>6, <4>2 DEF FoundAt, LivesAt
      <4> QED
        BY <4>1, <4>2
    <3> QED
      BY <3>4 DEF LivesAt
  <2>9. FailuresAt(c, height)
    <3> DEFINE Entries == [value : Bundles, height : Nat]
               Fell(T, v) == \E j \in 1..Len(Live(T, v)) : Live(T, v)[j].value = "Failed"
    <3>1. PICK lf : lf = d.latest_failed
      OBVIOUS
    <3>2. PICK lg : lg = c.latest_failed
      OBVIOUS
    <3>3. lf \in Seq(Entries) /\ Ordered(lf) /\ \A i \in 1..Len(lf) : lf[i].height =< height
      <4>1. d \in Dbs
        BY DEF Sound, PegOK
      <4> QED
        BY <3>1, <4>1, DbFields DEF FoundAt, FailuresAt
    <3>4. \A i \in 1..Len(lf) : Fell(d.bundles, lf[i].value)
      BY <3>1 DEF FoundAt, FailuresAt
    <3>5. ASSUME NEW v, Fell(d.bundles, v) PROVE Fell(c.bundles, v)
      <4>1. CASE v = m
        <5>1. PICK j \in 1..Len(t) : t[j].value = "Failed"
          BY <2>3, <3>5, <4>1
        <5>2. j \in 1..Len(u) /\ u[j] = t[j]
          BY <2>5
        <5> QED
          BY <2>4, <4>1, <5>1, <5>2
      <4>2. CASE v # m
        BY <2>6, <3>5, <4>2
      <4> QED
        BY <4>1, <4>2
    <3>6. CASE lg = lf
      <4> HIDE DEF Fell
      <4>1. \A i \in 1..Len(lg) : Fell(c.bundles, lg[i].value)
        BY <3>4, <3>5, <3>6
      <4> QED
        BY <3>2, <3>3, <3>6, <4>1 DEF FailuresAt, Fell
    <3>7. CASE e.value = "Failed" /\ lg = Append(lf, Stamped(m, height))
      <4>1. PICK x \in Entries : x = Stamped(m, height) /\ x.height = height /\ x.value = m
        <5>1. /\ Stamped(m, height) \in Entries
              /\ Stamped(m, height).height = height /\ Stamped(m, height).value = m
          BY DEF Stamped
        <5> QED
          BY <5>1
      <4>2. Ordered(lg) /\ \A i \in 1..Len(lg) : lg[i].height =< height
        <5>1. \A a \in Entries : a.height \in Nat
          OBVIOUS
        <5> HIDE DEF Entries, Fell
        <5> QED
          BY <3>3, <3>7, <4>1, <5>1, OrderedAppend
      <4>3. Fell(c.bundles, m)
        <5>1. Len(t) + 1 \in 1..Len(u) /\ u[Len(t) + 1] = e
          BY <2>5
        <5> QED
          BY <2>4, <3>7, <5>1
      <4>4. /\ Len(lg) = Len(lf) + 1 /\ Len(lf) \in Nat
            /\ \A j \in 1..Len(lf) : lg[j] = lf[j]
            /\ lg[Len(lf) + 1] = x
        <5> HIDE DEF Entries, Fell
        <5> QED
          BY <3>3, <3>7, <4>1, Loop!AppendFacts
      <4> HIDE DEF Fell
      <4>5. ASSUME NEW i \in 1..Len(lg) PROVE Fell(c.bundles, lg[i].value)
        <5>1. CASE i \in 1..Len(lf)
          BY <3>4, <3>5, <4>4, <5>1
        <5>2. CASE i = Len(lf) + 1
          BY <4>1, <4>3, <4>4, <5>2
        <5> QED
          BY <4>4, <5>1, <5>2
      <4> QED
        BY <3>2, <4>2, <4>5 DEF FailuresAt, Fell
    <3> QED
      BY <2>2, <3>1, <3>2, <3>6, <3>7 DEF EventStep
  <2> QED
    BY <2>7, <2>8, <2>9 DEF FoundAt
<1> QED
  BY <1>1, <1>2

(* The last failure in a stack is at height g.                             *)
LastFailure(s, g) ==
    \E j \in 1..Len(s) :
        /\ s[j].value = "Failed" /\ s[j].height = g
        /\ \A k \in (j + 1)..Len(s) : s[k].value # "Failed"

Failures(s) == {i \in 1..Len(s) : s[i].value = "Failed"}

LEMMA LastFailureAt ==
    ASSUME NEW s, Len(s) \in Nat, NEW j \in 1..Len(s), s[j].value = "Failed"
    PROVE  \A g : LastFailure(s, g) <=> g = s[Max(Failures(s))].height
<1>1. PICK I : I = Failures(s)
  OBVIOUS
<1>2. I \subseteq 0..Len(s) /\ I # {}
  BY <1>1 DEF Failures
<1>3. \E i \in I : \A k \in I : k <= i
  BY <1>2, Loop!GreatestBelow
<1>4. PICK l : l = Max(I)
  OBVIOUS
<1>5. l \in I /\ \A k \in I : l >= k
  <2>1. \E i \in I : \A k \in I : i >= k
    BY <1>2, <1>3
  <2> QED
    BY <1>4, <2>1 DEF Max
<1>6. l \in 1..Len(s) /\ s[l].value = "Failed" /\ \A k \in (l + 1)..Len(s) : s[k].value # "Failed"
  <2>1. l \in 1..Len(s) /\ s[l].value = "Failed"
    BY <1>1, <1>5 DEF Failures
  <2>2. ASSUME NEW k \in (l + 1)..Len(s), s[k].value = "Failed" PROVE FALSE
    <3>1. k \in I
      BY <1>1, <2>1, <2>2 DEF Failures
    <3> QED
      BY <1>5, <2>1, <2>2, <3>1
  <2> QED
    BY <2>1, <2>2
<1>7. ASSUME NEW i \in 1..Len(s), s[i].value = "Failed",
             \A k \in (i + 1)..Len(s) : s[k].value # "Failed"
      PROVE  i = l
  <2>1. i \in I
    BY <1>1, <1>7 DEF Failures
  <2>2. l \notin (i + 1)..Len(s)
    BY <1>6, <1>7
  <2> QED
    BY <1>5, <1>6, <2>1, <2>2
<1>8. \A g : LastFailure(s, g) <=> g = s[l].height
  BY <1>6, <1>7 DEF LastFailure
<1> QED
  BY <1>1, <1>4, <1>8

(* The statuses Pending that lead a stack are no failures.                 *)
LEMMA LastFailureRest ==
    ASSUME NEW m, NEW s \in Seq(Stamps), Stacked(m, s), NEW t, t = Rest(m, s), NEW g,
           LastFailure(t, g)
    PROVE  LastFailure(s, g)
<1>1. PICK k \in 0..Len(s) : Leads(m, s, k)
  BY DEF Stacked
<1>2. /\ t \in Seq(Stamps) /\ Len(t) = Len(s) - k
      /\ \A i \in 1..(Len(s) - k) : t[i] = s[i + k]
  BY <1>1, LeadFacts
<1>3. PICK j \in 1..Len(t) :
         /\ t[j].value = "Failed" /\ t[j].height = g
         /\ \A i \in (j + 1)..Len(t) : t[i].value # "Failed"
  BY DEF LastFailure
<1>4. j + k \in 1..Len(s) /\ s[j + k] = t[j]
  BY <1>2
<1>5. ASSUME NEW i \in (j + k + 1)..Len(s) PROVE s[i].value # "Failed"
  <2>1. i - k \in (j + 1)..Len(t) /\ i - k \in 1..(Len(s) - k) /\ (i - k) + k = i
    BY <1>2
  <2> QED
    BY <1>2, <1>3, <2>1
<1> QED
  BY <1>3, <1>4, <1>5 DEF LastFailure

(* One more report.                                                        *)
LEMMA LastFailureAppend ==
    ASSUME NEW t \in Seq(Stamps), NEW e \in Stamps, NEW u, u = Append(t, e)
    PROVE  /\ e.value = "Failed" => LastFailure(u, e.height)
           /\ e.value # "Failed" => \A g : LastFailure(t, g) => LastFailure(u, g)
<1>1. /\ Len(u) = Len(t) + 1 /\ Len(t) \in Nat
      /\ \A j \in 1..Len(t) : u[j] = t[j]
      /\ u[Len(t) + 1] = e
  BY Loop!AppendFacts
<1>2. e.value = "Failed" => LastFailure(u, e.height)
  <2>1. Len(u) \in 1..Len(u) /\ (Len(u) + 1)..Len(u) = {}
    BY <1>1
  <2> QED
    BY <1>1, <2>1 DEF LastFailure
<1>3. ASSUME e.value # "Failed", NEW g, LastFailure(t, g) PROVE LastFailure(u, g)
  <2>1. PICK j \in 1..Len(t) :
           /\ t[j].value = "Failed" /\ t[j].height = g
           /\ \A i \in (j + 1)..Len(t) : t[i].value # "Failed"
    BY <1>3 DEF LastFailure
  <2>2. j \in 1..Len(u) /\ u[j] = t[j]
    BY <1>1
  <2>3. ASSUME NEW i \in (j + 1)..Len(u) PROVE u[i].value # "Failed"
    <3>1. i = Len(t) + 1 \/ (i \in (j + 1)..Len(t) /\ i \in 1..Len(t))
      BY <1>1
    <3> QED
      BY <1>1, <1>3, <2>1, <3>1
  <2> QED
    BY <2>1, <2>2, <2>3 DEF LastFailure
<1> QED
  BY <1>2, <1>3

(* The height of the latest failure, from what was reported.               *)
LEMMA FailureHeight ==
    ASSUME NEW d, Sound(d), NEW height, FailuresAt(d, height), d.latest_failed # <<>>,
           NEW v, v = Latest(d.latest_failed).value, NEW g, g = LatestFailureHeight(d)
    PROVE  /\ LastFailure(Live(d.bundles, v), g)
           /\ \A h : LastFailure(Live(d.bundles, v), h) => h = g
           /\ v \in Bundles
<1>1. PICK lf : lf = d.latest_failed
  OBVIOUS
<1>2. lf \in Seq([value : Bundles, height : Nat]) /\ Len(lf) \in 1..Len(lf) /\ lf[Len(lf)].value = v
  <2>1. d \in Dbs
    BY DEF Sound, PegOK
  <2>2. lf \in Seq([value : Bundles, height : Nat]) /\ lf # <<>>
    BY <1>1, <2>1, DbFields
  <2> QED
    BY <1>1, <2>2 DEF Latest
<1>3. v \in Bundles
  <2>1. lf[Len(lf)] \in [value : Bundles, height : Nat]
    BY <1>2, ElementOfSeq
  <2> QED
    BY <1>2, <2>1
<1>4. PICK t : t = Live(d.bundles, v)
  OBVIOUS
<1>5. PICK j \in 1..Len(t) : t[j].value = "Failed"
  BY <1>1, <1>2, <1>4 DEF FailuresAt
<1>6. t \in Seq(Stamps) /\ Len(t) \in Nat /\ (t # <<>> => v \in DOMAIN d.bundles)
  BY <1>4, LiveType
<1>7. v \in DOMAIN d.bundles
  BY <1>5, <1>6
<1>8. PICK b : b = d.bundles[v]
  OBVIOUS
<1>9. PICK s : s = b.status
  OBVIOUS
<1>10. s \in Seq(Stamps) /\ Len(s) \in Nat /\ Stacked(v, s) /\ t = Rest(v, s)
  BY <1>4, <1>7, <1>8, <1>9, LiveRecord
<1>11. PICK h : h = t[Max(Failures(t))].height
  OBVIOUS
<1>12. \A x : LastFailure(t, x) <=> x = h
  BY <1>5, <1>6, <1>11, LastFailureAt
<1>13. LastFailure(s, h)
  <2>1. LastFailure(t, h)
    BY <1>12
  <2> QED
    BY <1>10, <2>1, LastFailureRest
<1>14. PICK i \in 1..Len(s) : s[i].value = "Failed"
  BY <1>13 DEF LastFailure
<1>15. \A x : LastFailure(s, x) <=> x = s[Max(Failures(s))].height
  BY <1>10, <1>14, LastFailureAt
<1>16. Failures(s) # {}
  BY <1>14 DEF Failures
<1>17. g = s[Max(Failures(s))].height
  BY <1>1, <1>2, <1>8, <1>9, <1>16 DEF LatestFailureHeight, SelectLastInSeq, Failures
<1>18. g = h
  BY <1>13, <1>15, <1>17
<1> QED
  BY <1>3, <1>4, <1>12, <1>18

LEMMA FailureBound ==
    ASSUME NEW d, Sound(d), NEW height \in Nat, FoundAt(d, height),
           NEW g, g = LatestFailureHeight(d)
    PROVE  g \in Nat /\ g =< height
<1>1. CASE d.latest_failed = <<>>
  BY <1>1 DEF LatestFailureHeight
<1>2. CASE d.latest_failed # <<>>
  <2>1. PICK v : v = Latest(d.latest_failed).value
    OBVIOUS
  <2>2. LastFailure(Live(d.bundles, v), g) /\ v \in Bundles
    BY <1>2, <2>1, FailureHeight DEF FoundAt
  <2>3. PICK t : t = Live(d.bundles, v)
    OBVIOUS
  <2>4. t \in Seq(Stamps) /\ LifeAt(v, t, height)
    BY <2>2, <2>3, LiveType DEF FoundAt, LivesAt
  <2>5. PICK j \in 1..Len(t) : t[j].height = g
    BY <2>2, <2>3 DEF LastFailure
  <2>6. t[j] \in Stamps
    BY <2>4, ElementOfSeq
  <2> QED
    BY <2>4, <2>5, <2>6 DEF LifeAt, Stamps
<1> QED
  BY <1>1, <1>2

(* The latest failure is where it was or in this block.                    *)
LEMMA EventFailure ==
    ASSUME NEW d, Sound(d), NEW height \in Nat, FoundAt(d, height),
           NEW event \in PegEvents, NEW c, Sound(c), FoundAt(c, height),
           EventTo(d, c, event, height)
    PROVE  LatestFailureHeight(d) =< LatestFailureHeight(c)
<1>1. PICK g : g = LatestFailureHeight(d)
  OBVIOUS
<1>2. PICK h : h = LatestFailureHeight(c)
  OBVIOUS
<1>3. g \in Nat /\ g =< height /\ h \in Nat
  BY <1>1, <1>2, FailureBound
<1>4. CASE event.kind = "Deposit"
  <2>1. c.bundles = d.bundles /\ c.latest_failed = d.latest_failed
    BY <1>4 DEF EventTo, DepositedTo
  <2>2. h = g
    BY <1>1, <1>2, <2>1 DEF LatestFailureHeight
  <2> QED
    BY <1>1, <1>2, <1>3, <2>2
<1>5. CASE event.kind # "Deposit"
  <2>1. PICK m \in Bundles : m = event.id
    BY <1>5, EventSteps
  <2>2. PICK e \in Stamps : e.height = height /\ EventStep(d, c, m, e)
    BY <1>5, <2>1, EventSteps
  <2>3. PICK t : t = Live(d.bundles, m)
    OBVIOUS
  <2>4. PICK u : u = Live(c.bundles, m)
    OBVIOUS
  <2>5. t \in Seq(Stamps) /\ u = Append(t, e)
    BY <2>2, <2>3, <2>4, LiveType DEF EventStep, Moved
  <2>6. /\ e.value = "Failed" => LastFailure(u, height)
        /\ e.value # "Failed" => \A x : LastFailure(t, x) => LastFailure(u, x)
    BY <2>2, <2>5, LastFailureAppend
  <2>7. CASE d.latest_failed = <<>>
    <3>1. g = 0
      BY <1>1, <2>7 DEF LatestFailureHeight
    <3> QED
      BY <1>1, <1>2, <1>3, <3>1
  <2>8. CASE d.latest_failed # <<>> /\ c.latest_failed = d.latest_failed
    <3>1. PICK v : v = Latest(d.latest_failed).value
      OBVIOUS
    <3>2. LastFailure(Live(d.bundles, v), g)
      BY <1>1, <2>8, <3>1, FailureHeight DEF FoundAt
    <3>3. \A x : LastFailure(Live(c.bundles, v), x) => x = h
      <4>1. c.latest_failed # <<>> /\ v = Latest(c.latest_failed).value
        BY <2>8, <3>1
      <4>2. FailuresAt(c, height)
        BY DEF FoundAt
      <4> QED
        BY <1>2, <4>1, <4>2, FailureHeight
    <3>4. CASE v = m
      <4>1. e.value = "Failed" => h = height
        BY <2>4, <2>6, <3>3, <3>4
      <4>2. e.value # "Failed" => h = g
        BY <2>3, <2>4, <2>6, <3>2, <3>3, <3>4
      <4> QED
        BY <1>1, <1>2, <1>3, <4>1, <4>2
    <3>5. CASE v # m
      <4>1. Live(c.bundles, v) = Live(d.bundles, v)
        BY <2>2, <3>5 DEF EventStep, Moved, Others
      <4>2. h = g
        BY <3>2, <3>3, <4>1
      <4> QED
        BY <1>1, <1>2, <1>3, <4>2
    <3> QED
      BY <3>4, <3>5
  <2>9. CASE e.value = "Failed" /\ c.latest_failed = Append(d.latest_failed, Stamped(m, e.height))
    <3>1. c.latest_failed # <<>> /\ Latest(c.latest_failed).value = m
      <4>1. PICK x \in [value : Bundles, height : Nat] : x = Stamped(m, e.height) /\ x.value = m
        <5>1. /\ Stamped(m, e.height) \in [value : Bundles, height : Nat]
              /\ Stamped(m, e.height).value = m
          BY <2>2 DEF Stamped
        <5> QED
          BY <5>1
      <4>2. PICK lf \in Seq([value : Bundles, height : Nat]) : lf = d.latest_failed
        <5>1. d \in Dbs
          BY DEF Sound, PegOK
        <5> QED
          BY <5>1, DbFields
      <4>3. PICK lg : lg = c.latest_failed
        OBVIOUS
      <4>4. lg = Append(lf, x)
        BY <2>9, <4>1, <4>2, <4>3
      <4>5. lg # <<>> /\ lg[Len(lg)] = x
        BY <4>1, <4>4
      <4> QED
        BY <4>1, <4>3, <4>5 DEF Latest
    <3>2. \A x : LastFailure(Live(c.bundles, m), x) => x = h
      BY <1>2, <3>1, FailureHeight DEF FoundAt
    <3>3. h = height
      BY <2>4, <2>6, <2>9, <3>2
    <3> QED
      BY <1>1, <1>2, <1>3, <3>3
  <2> QED
    BY <2>2, <2>7, <2>8, <2>9 DEF EventStep
<1> QED
  BY <1>4, <1>5

(* Databases that are alike.                                               *)
LEMMA AlikeFound ==
    ASSUME NEW x, Sound(x), NEW d, Sound(d), Alike(x, d), NEW height, FoundAt(d, height)
    PROVE  LivesAt(x, height) /\ FailuresAt(x, height)
           /\ LatestFailureHeight(x) = LatestFailureHeight(d)
<1>1. \A m \in Bundles : Live(x.bundles, m) = Live(d.bundles, m)
  BY DEF Alike, Agree
<1>2. LivesAt(x, height)
  BY <1>1 DEF FoundAt, LivesAt
<1>3. PICK lf \in Seq([value : Bundles, height : Nat]) : lf = d.latest_failed
  <2>1. d \in Dbs
    BY DEF Sound, PegOK
  <2> QED
    BY <2>1, DbFields
<1>4. x.latest_failed = lf
  BY <1>3 DEF Alike
<1>5. \A i \in 1..Len(lf) : lf[i].value \in Bundles
  <2> SUFFICES ASSUME NEW i \in 1..Len(lf) PROVE lf[i].value \in Bundles
    OBVIOUS
  <2>1. lf[i] \in [value : Bundles, height : Nat]
    BY ElementOfSeq
  <2> QED
    BY <2>1
<1>6. FailuresAt(d, height)
  BY DEF FoundAt
<1>7. FailuresAt(x, height)
  BY <1>1, <1>3, <1>4, <1>5, <1>6 DEF FailuresAt
<1>8. LatestFailureHeight(x) = LatestFailureHeight(d)
  <2>1. CASE lf = <<>>
    BY <1>3, <1>4, <2>1 DEF LatestFailureHeight
  <2>2. CASE lf # <<>>
    <3>1. PICK v : v = Latest(lf).value
      OBVIOUS
    <3>2. PICK g : g = LatestFailureHeight(d)
      OBVIOUS
    <3>3. PICK h : h = LatestFailureHeight(x)
      OBVIOUS
    <3>4. v \in Bundles /\ \A y : LastFailure(Live(d.bundles, v), y) => y = g
      BY <1>3, <1>6, <2>2, <3>1, <3>2, FailureHeight
    <3>5. LastFailure(Live(x.bundles, v), h)
      BY <1>4, <1>7, <2>2, <3>1, <3>3, FailureHeight
    <3> QED
      BY <1>1, <3>2, <3>3, <3>4, <3>5
  <2> QED
    BY <2>1, <2>2
<1> QED
  BY <1>2, <1>7, <1>8

-----------------------------------------------------------------------------
(* What the mainchain reported last.                                       *)

(* The greatest of the indices of a sequence that are in S.                *)
LEMMA MaxIndex ==
    ASSUME NEW n \in Nat, NEW S, S \subseteq 1..n, S # {}
    PROVE  /\ Max(S) \in S
           /\ n \in S => Max(S) = n
<1>1. \E i \in S : \A k \in S : k <= i
  <2>1. S \subseteq 0..n
    OBVIOUS
  <2> QED
    BY <2>1, Loop!GreatestBelow
<1>2. \E i \in S : \A k \in S : i >= k
  BY <1>1
<1>3. Max(S) \in S /\ \A k \in S : Max(S) >= k
  BY <1>2 DEF Max
<1>4. Max(S) \in 1..n
  BY <1>3
<1> QED
  BY <1>3, <1>4

(* One more event: of another bundle, or the last one about m.             *)
LEMMA ReportAppend ==
    ASSUME NEW p \in Seq(PegEvents), NEW q \in Seq(PegEvents), NEW m, Len(q) = Len(p) + 1,
           \A j \in 1..Len(p) : q[j] = p[j]
    PROVE  LastReport(q, m) = IF q[Len(q)].id = m THEN q[Len(q)].kind ELSE LastReport(p, m)
<1>1. PICK n \in Nat : n = Len(p)
  OBVIOUS
<1>2. PICK P : P = {i \in 1..n : p[i].id = m}
  OBVIOUS
<1>3. PICK Q : Q = {i \in 1..(n + 1) : q[i].id = m}
  OBVIOUS
<1>4. DOMAIN p = 1..n /\ DOMAIN q = 1..(n + 1) /\ Len(q) = n + 1
  BY <1>1
<1>5. /\ LastReport(p, m) = IF P = {} THEN "None" ELSE p[Max(P)].kind
      /\ LastReport(q, m) = IF Q = {} THEN "None" ELSE q[Max(Q)].kind
  BY <1>2, <1>3, <1>4 DEF LastReport
<1>6. CASE q[n + 1].id = m
  <2>1. n + 1 \in Nat /\ n + 1 \in Q /\ Q \subseteq 1..(n + 1)
    BY <1>3, <1>6
  <2>2. Max(Q) = n + 1
    BY <2>1, MaxIndex
  <2> QED
    BY <1>4, <1>5, <1>6, <2>1, <2>2
<1>7. CASE q[n + 1].id # m
  <2>1. \A i : i \in 1..(n + 1) <=> i \in 1..n \/ i = n + 1
    OBVIOUS
  <2>2. Q = P
    BY <1>1, <1>2, <1>3, <1>7, <2>1
  <2>3. P \subseteq 1..n
    BY <1>2
  <2>4. P # {} => Max(P) \in 1..n
    BY <2>3, MaxIndex
  <2>5. P # {} => q[Max(P)] = p[Max(P)]
    BY <1>1, <2>4
  <2> QED
    BY <1>4, <1>5, <1>7, <2>2, <2>5
<1> QED
  BY <1>6, <1>7

(* The last report of m in the blocks of a chain and the events after it.  *)
ReportedTo(chain, events, m) ==
    IF LastReport(events, m) = "None" THEN ChainReport(chain, m) ELSE LastReport(events, m)

(* No event is called None.                                                *)
LEMMA ReportKinds ==
    ASSUME NEW p \in Seq(PegEvents), NEW m
    PROVE  LastReport(p, m) \in {"None", "Deposit", "Submitted", "Confirmed", "Failed"}
<1>1. PICK n \in Nat : n = Len(p)
  OBVIOUS
<1>2. PICK P : P = {i \in 1..n : p[i].id = m}
  OBVIOUS
<1>3. LastReport(p, m) = IF P = {} THEN "None" ELSE p[Max(P)].kind
  <2>1. DOMAIN p = 1..n
    BY <1>1
  <2> QED
    BY <1>2, <2>1 DEF LastReport
<1>4. P # {} => Max(P) \in 1..Len(p)
  <2>1. P \subseteq 1..n
    BY <1>2
  <2> QED
    BY <1>1, <2>1, MaxIndex
<1>5. P # {} => p[Max(P)] \in PegEvents
  BY <1>4, ElementOfSeq
<1> QED
  BY <1>3, <1>5 DEF PegEvents

(* The events of a block that is connected.                                *)
LEMMA ChainReportAppend ==
    ASSUME NEW c \in Seq(Blocks), NEW blk \in Blocks, NEW g, g = Append(c, blk), NEW m
    PROVE  ChainReport(g, m) = ReportedTo(c, blk.events, m)
<1>1. PICK n \in Nat : n = Len(c)
  OBVIOUS
<1>2. /\ g \in Seq(Blocks) /\ Len(g) = n + 1
      /\ \A i \in 1..n : g[i] = c[i]
      /\ g[n + 1] = blk
  BY <1>1, Loop!AppendFacts
<1>3. PICK P : P = {i \in 1..n : LastReport(c[i].events, m) # "None"}
  OBVIOUS
<1>4. PICK Q : Q = {i \in 1..(n + 1) : LastReport(g[i].events, m) # "None"}
  OBVIOUS
<1>5. DOMAIN c = 1..n /\ DOMAIN g = 1..(n + 1)
  BY <1>1, <1>2
<1>6. /\ ChainReport(c, m) = IF P = {} THEN "None" ELSE LastReport(c[Max(P)].events, m)
      /\ ChainReport(g, m) = IF Q = {} THEN "None" ELSE LastReport(g[Max(Q)].events, m)
  BY <1>3, <1>4, <1>5 DEF ChainReport
<1>7. CASE LastReport(blk.events, m) # "None"
  <2>1. n + 1 \in Nat /\ n + 1 \in Q /\ Q \subseteq 1..(n + 1)
    BY <1>2, <1>4, <1>7
  <2>2. Max(Q) = n + 1
    BY <2>1, MaxIndex
  <2> QED
    BY <1>2, <1>6, <1>7, <2>1, <2>2 DEF ReportedTo
<1>8. CASE LastReport(blk.events, m) = "None"
  <2>1. \A i : i \in 1..(n + 1) <=> i \in 1..n \/ i = n + 1
    OBVIOUS
  <2>2. Q = P
    BY <1>2, <1>3, <1>4, <1>8, <2>1
  <2>3. P \subseteq 1..n
    BY <1>3
  <2>4. P # {} => Max(P) \in 1..n
    BY <2>3, MaxIndex
  <2>5. P # {} => g[Max(P)] = c[Max(P)]
    BY <1>2, <2>4
  <2> QED
    BY <1>6, <1>8, <2>2, <2>5 DEF ReportedTo
<1> QED
  BY <1>7, <1>8

(* The first events of a block.                                            *)
LEMMA ReportPrefix ==
    ASSUME NEW events \in Seq(PegEvents), NEW m
    PROVE  /\ LastReport(SubSeq(events, 1, 0), m) = "None"
           /\ SubSeq(events, 1, Len(events)) = events
           /\ \A i \in 1..Len(events) :
                 LastReport(SubSeq(events, 1, i), m) =
                    IF events[i].id = m THEN events[i].kind
                    ELSE LastReport(SubSeq(events, 1, i - 1), m)
<1>1. LastReport(SubSeq(events, 1, 0), m) = "None"
  <2>1. PICK p : p = SubSeq(events, 1, 0)
    OBVIOUS
  <2>2. p \in Seq(PegEvents) /\ Len(p) = 0
    BY <2>1, Loop!PrefixFacts
  <2>3. {i \in DOMAIN p : p[i].id = m} = {}
    BY <2>2
  <2> QED
    BY <2>1, <2>3 DEF LastReport
<1>2. SubSeq(events, 1, Len(events)) = events
  BY SubSeqFull
<1>3. ASSUME NEW i \in 1..Len(events)
      PROVE  LastReport(SubSeq(events, 1, i), m) =
                IF events[i].id = m THEN events[i].kind
                ELSE LastReport(SubSeq(events, 1, i - 1), m)
  <2>1. PICK p : p = SubSeq(events, 1, i - 1)
    OBVIOUS
  <2>2. PICK q : q = SubSeq(events, 1, i)
    OBVIOUS
  <2>3. i \in 0..Len(events) /\ i - 1 \in 0..Len(events) /\ (i - 1) + 1 = i
    OBVIOUS
  <2>4. p \in Seq(PegEvents) /\ Len(p) = i - 1 /\ \A j \in 1..(i - 1) : p[j] = events[j]
    BY <2>1, <2>3, Loop!PrefixFacts
  <2>5. q \in Seq(PegEvents) /\ Len(q) = i /\ \A j \in 1..i : q[j] = events[j]
    BY <2>2, <2>3, Loop!PrefixFacts
  <2>6. Len(q) = Len(p) + 1 /\ (\A j \in 1..Len(p) : q[j] = p[j]) /\ q[Len(q)] = events[i]
    BY <2>4, <2>5
  <2>7. LastReport(q, m) = IF q[Len(q)].id = m THEN q[Len(q)].kind ELSE LastReport(p, m)
    BY <2>4, <2>5, <2>6, ReportAppend
  <2> QED
    BY <2>1, <2>2, <2>6, <2>7
<1> QED
  BY <1>1, <1>2, <1>3

(* The events of a block so far, and one more.                             *)
LEMMA ReportedStep ==
    ASSUME NEW events \in Seq(PegEvents), NEW chain, NEW m, NEW i \in 1..Len(events)
    PROVE  ReportedTo(chain, SubSeq(events, 1, i), m) =
              IF events[i].id = m THEN events[i].kind
              ELSE ReportedTo(chain, SubSeq(events, 1, i - 1), m)
<1>1. LastReport(SubSeq(events, 1, i), m) =
         IF events[i].id = m THEN events[i].kind ELSE LastReport(SubSeq(events, 1, i - 1), m)
  BY ReportPrefix
<1>2. events[i] \in PegEvents
  BY ElementOfSeq
<1>3. events[i].kind # "None"
  BY <1>2 DEF PegEvents
<1> QED
  BY <1>1, <1>3 DEF ReportedTo

(* A bundle that was last reported as submitted, in a block or after it,   *)
(* is in flight.                                                           *)
FlightAfter(T, chain, events) ==
    \A m \in Bundles : ReportedTo(chain, events, m) = "Submitted" => InFlight(T, m)

LEMMA EventFlight ==
    ASSUME NEW d, Sound(d), NEW c, NEW height \in Nat,
           NEW events \in Seq(PegEvents), NEW i \in 1..Len(events), NEW chain,
           EventTo(d, c, events[i], height),
           FlightAfter(d.bundles, chain, SubSeq(events, 1, i - 1))
    PROVE  FlightAfter(c.bundles, chain, SubSeq(events, 1, i))
<1>1. SUFFICES ASSUME NEW m \in Bundles,
                      ReportedTo(chain, SubSeq(events, 1, i), m) = "Submitted"
               PROVE  InFlight(c.bundles, m)
  BY DEF FlightAfter
<1>2. PICK event : event = events[i]
  OBVIOUS
<1>3. "Submitted" = IF event.id = m THEN event.kind
                    ELSE ReportedTo(chain, SubSeq(events, 1, i - 1), m)
  BY <1>1, <1>2, ReportedStep
<1>4. CASE event.id = m
  <2>1. event.kind = "Submitted" /\ EventTo(d, c, event, height)
    BY <1>2, <1>3, <1>4
  <2>2. PICK e \in Stamps : EventStep(d, c, m, e) /\ e.value \in SubmittedKinds
    BY <1>4, <2>1, EventSteps
  <2>3. PICK t : t = Live(d.bundles, m)
    OBVIOUS
  <2>4. PICK u : u = Live(c.bundles, m)
    OBVIOUS
  <2>5. t \in Seq(Stamps) /\ u = Append(t, e)
    BY <2>2, <2>3, <2>4, LiveType DEF EventStep, Moved
  <2>6. u # <<>> /\ u[Len(u)] = e
    BY <2>5
  <2> QED
    BY <2>2, <2>4, <2>6 DEF InFlight, LastTold
<1>5. CASE event.id # m
  <2>1. InFlight(d.bundles, m)
    BY <1>3, <1>5 DEF FlightAfter
  <2>2. Live(c.bundles, m) = Live(d.bundles, m)
    <3>1. CASE event.kind = "Deposit"
      <4>1. c.bundles = d.bundles
        BY <1>2, <3>1 DEF EventTo, DepositedTo
      <4> QED
        BY <4>1
    <3>2. CASE event.kind # "Deposit"
      <4>1. PICK e \in Stamps : EventStep(d, c, event.id, e)
        BY <1>2, <3>2, EventSteps
      <4> QED
        BY <1>5, <4>1 DEF EventStep, Moved, Others
    <3> QED
      BY <3>1, <3>2
  <2> QED
    BY <2>1, <2>2 DEF InFlight, LastTold
<1> QED
  BY <1>4, <1>5

-----------------------------------------------------------------------------
(* The events of a block.                                                  *)

(* What connecting the events made of d, one after the other.              *)
Run(f, d, events, height) ==
    /\ f[0] = d
    /\ \A i \in 0..Len(events) : Sound(f[i])
    /\ \A i \in 1..Len(events) : EventTo(f[i - 1], f[i], events[i], height)

(* An event that the mainchain may report to d after the blocks of a chain *)
(* and the events before it.                                               *)
Admitted(d, chain, events, i) ==
    IF events[i].kind = "Deposit"
    THEN /\ events[i].id \notin d.utxos \cup d.stxos
         /\ \A j \in 1..(i - 1) : events[j] # events[i]
    ELSE /\ events[i].id \in DOMAIN d.bundles \/ events[i].id \in UnknownBundles
         /\ events[i].kind \in {"Confirmed", "Failed"} =>
               ReportedTo(chain, SubSeq(events, 1, i - 1), events[i].id) = "Submitted"

(* If no error is left in the end, there was none before.                  *)
LEMMA RunsOk ==
    ASSUME NEW f, NEW n \in Nat, NEW events, NEW height,
           \A i \in 1..n : f[i] = ConnectNext(f[i - 1], events[i], height), f[n].ok
    PROVE  \A i \in 0..n : f[i].ok
<1> DEFINE G == {k \in 0..n : f[n - k].ok}
<1>1. 0 \in G
  OBVIOUS
<1>2. ASSUME NEW k \in 1..n, k - 1 \in G PROVE k \in G
  <2>1. n - (k - 1) \in 1..n /\ (n - (k - 1)) - 1 = n - k /\ k \in 0..n
    OBVIOUS
  <2>2. f[n - (k - 1)].ok
    BY <1>2
  <2>3. f[n - (k - 1)] = ConnectNext(f[n - k], events[n - (k - 1)], height)
    BY <2>1
  <2>4. f[n - k].ok
    BY <2>2, <2>3 DEF ConnectNext
  <2> QED
    BY <2>1, <2>4
<1>3. \A k \in 0..n : k \in G
  <2> HIDE DEF G
  <2> QED
    BY <1>1, <1>2, Loop!Steps
<1>4. ASSUME NEW i \in 0..n PROVE f[i].ok
  <2>1. n - i \in 0..n /\ n - (n - i) = i
    OBVIOUS
  <2> QED
    BY <1>3, <2>1
<1> QED
  BY <1>4

(* The databases x after the first i events.                               *)
After(x, d, chain, events, height, i) ==
    /\ Sound(x) /\ FoundAt(x, height)
    /\ LatestFailureHeight(d) =< LatestFailureHeight(x)
    /\ FlightAfter(x.bundles, chain, SubSeq(events, 1, i))
    /\ x.utxos \cup x.stxos = (d.utxos \cup d.stxos) \cup FirstDeposits(events, i)
    /\ DOMAIN d.bundles \subseteq DOMAIN x.bundles
    /\ KeepsBlocks(d, x)

(* One event more.                                                         *)
LEMMA AfterNext ==
    ASSUME NEW d, Sound(d), NEW height \in Nat, FoundAt(d, height), NEW chain,
           NEW events \in Seq(PegEvents), NEW i \in 1..Len(events),
           height = 0 => (d.utxos \cup d.stxos) \cap Withdrawals = {},
           Admitted(d, chain, events, i),
           NEW x, After(x, d, chain, events, height, i - 1),
           NEW y, y = ConnectEvent(x, events[i], height), y.ok
    PROVE  After(y, d, chain, events, height, i) /\ EventTo(x, y, events[i], height)
<1>1. i \in Nat /\ i > 0 /\ i - 1 \in 0..Len(events) /\ i \in 0..Len(events)
  OBVIOUS
<1>2. PICK event \in PegEvents : event = events[i]
  BY ElementOfSeq
<1>3. PICK C : C = d.utxos \cup d.stxos
  OBVIOUS
<1>4. PICK B : B = C \cup FirstDeposits(events, i - 1)
  OBVIOUS
<1>5. /\ Sound(x) /\ FoundAt(x, height) /\ x.utxos \cup x.stxos = B
      /\ FlightAfter(x.bundles, chain, SubSeq(events, 1, i - 1))
      /\ DOMAIN d.bundles \subseteq DOMAIN x.bundles
      /\ LatestFailureHeight(d) =< LatestFailureHeight(x)
      /\ KeepsBlocks(d, x)
  BY <1>3, <1>4 DEF After
<1>6. height = 0 => B \cap Withdrawals = {}
  BY <1>1, <1>3, <1>4, FirstDepositsAll, PegAssumption
<1>7. event.kind = "Deposit" => event.id \notin B
  <2> SUFFICES ASSUME event.kind = "Deposit", event.id \in B PROVE FALSE
    OBVIOUS
  <2>1. event.id \notin C /\ \A j \in 1..(i - 1) : events[j] # event
    BY <1>2, <1>3 DEF Admitted
  <2>2. PICK j \in 1..(i - 1) : events[j].kind = "Deposit" /\ events[j].id = event.id
    BY <1>4, <2>1 DEF FirstDeposits
  <2>3. j \in 1..Len(events)
    BY <1>1
  <2>4. events[j] \in PegEvents
    BY <2>3, ElementOfSeq
  <2>5. events[j] = event
    BY <2>2, <2>4 DEF PegEvents
  <2> QED
    BY <2>1, <2>5
<1>8. event.kind # "Deposit" => event.id \in DOMAIN x.bundles \/ event.id \in UnknownBundles
  BY <1>2, <1>5 DEF Admitted
<1>9. event.kind \in {"Confirmed", "Failed"} => InFlight(x.bundles, event.id)
  <2> SUFFICES ASSUME event.kind \in {"Confirmed", "Failed"} PROVE InFlight(x.bundles, event.id)
    OBVIOUS
  <2>1. event.id \in Bundles
    BY DEF PegEvents
  <2>2. ReportedTo(chain, SubSeq(events, 1, i - 1), event.id) = "Submitted"
    BY <1>2 DEF Admitted
  <2> QED
    BY <1>5, <2>1, <2>2 DEF FlightAfter
<1>10. Expected(x, event, height)
  BY <1>5, <1>6, <1>7, <1>8, <1>9 DEF Expected
<1>11. /\ Sound(y) /\ EventTo(x, y, event, height)
       /\ DOMAIN x.bundles \subseteq DOMAIN y.bundles
       /\ y.utxos \cup y.stxos = B \cup DepositOf(event)
  BY <1>2, <1>5, <1>10, EventMoves
<1>12. FoundAt(y, height)
  BY <1>5, <1>11, EventFound
<1>13. LatestFailureHeight(d) =< LatestFailureHeight(y)
  <2>1. LatestFailureHeight(x) =< LatestFailureHeight(y)
    BY <1>5, <1>11, <1>12, EventFailure
  <2>2. /\ LatestFailureHeight(d) \in Nat /\ LatestFailureHeight(x) \in Nat
        /\ LatestFailureHeight(y) \in Nat
    BY <1>5, <1>11, <1>12, FailureBound
  <2> QED
    BY <1>5, <2>1, <2>2
<1>14. FlightAfter(y.bundles, chain, SubSeq(events, 1, i))
  BY <1>2, <1>5, <1>11, EventFlight
<1>15. B \cup DepositOf(event) = C \cup FirstDeposits(events, i)
  BY <1>1, <1>2, <1>4, FirstDepositsStep
<1>16. KeepsBlocks(d, y)
  <2>1. KeepsBlocks(x, y)
    BY <1>11 DEF EventTo, DepositedTo, SubmittedTo, ConfirmedTo, FailedTo
  <2> QED
    BY <1>5, <2>1 DEF KeepsBlocks
<1>17. After(y, d, chain, events, height, i)
  BY <1>3, <1>5, <1>11, <1>12, <1>13, <1>14, <1>15, <1>16 DEF After
<1> QED
  BY <1>2, <1>11, <1>17

(* All events of a block.                                                  *)
LEMMA ConnectRun ==
    ASSUME NEW d, Sound(d), NEW height \in Nat, FoundAt(d, height), NEW chain, Linked(d, chain),
           NEW events \in Seq(PegEvents),
           height = 0 => (d.utxos \cup d.stxos) \cap Withdrawals = {},
           \A i \in 1..Len(events) : Admitted(d, chain, events, i),
           NEW r, r = ConnectEvents(d, events, height), r.ok
    PROVE  /\ After(r, d, chain, events, height, Len(events))
           /\ \E f : r = f[Len(events)] /\ Run(f, d, events, height)
<1>1. PICK n \in Nat : n = Len(events)
  OBVIOUS
<1>2. PICK f : /\ r = f[n] /\ f[0] = d
               /\ \A i \in 1..n : f[i] = ConnectNext(f[i - 1], events[i], height)
  BY <1>1, ConnectRuns
<1>3. \A i \in 0..n : f[i].ok
  <2>1. /\ \A i \in 1..n : f[i] = ConnectNext(f[i - 1], events[i], height)
        /\ f[n].ok
    BY <1>2
  <2> QED
    BY ONLY n \in Nat, <2>1, RunsOk, Zenon
<1> DEFINE G == {i \in 0..n : After(f[i], d, chain, events, height, i)}
<1>4. 0 \in G
  <2>1. FirstDeposits(events, 0) = {}
    BY FirstDepositsAll
  <2>2. FlightAfter(d.bundles, chain, SubSeq(events, 1, 0))
    <3>1. \A m : LastReport(SubSeq(events, 1, 0), m) = "None"
      BY ReportPrefix
    <3> QED
      BY <3>1 DEF FlightAfter, ReportedTo, Linked
  <2>3. LatestFailureHeight(d) =< LatestFailureHeight(d)
    BY FailureBound
  <2>4. After(d, d, chain, events, height, 0)
    BY <2>1, <2>2, <2>3 DEF After, KeepsBlocks
  <2> QED
    BY <1>2, <2>4
<1>5. ASSUME NEW i \in 1..n, i - 1 \in G
      PROVE  i \in G /\ EventTo(f[i - 1], f[i], events[i], height)
  <2>1. i \in 0..n /\ i - 1 \in 0..n /\ i \in 1..Len(events)
    BY <1>1
  <2>2. PICK x : x = f[i - 1]
    OBVIOUS
  <2>3. PICK y : y = f[i]
    OBVIOUS
  <2>4. x.ok /\ y.ok
    BY <1>3, <2>1, <2>2, <2>3
  <2>5. y = ConnectEvent(x, events[i], height)
    BY <1>2, <2>2, <2>3, <2>4 DEF ConnectNext
  <2>6. After(x, d, chain, events, height, i - 1)
    BY <1>5, <2>2
  <2>7. After(y, d, chain, events, height, i) /\ EventTo(x, y, events[i], height)
    BY <2>1, <2>4, <2>5, <2>6, AfterNext
  <2> QED
    BY <2>1, <2>2, <2>3, <2>7
<1>6. \A i \in 0..n : i \in G
  <2> HIDE DEF G
  <2> QED
    BY <1>4, <1>5, Loop!Steps
<1>7. \A i \in 0..n : After(f[i], d, chain, events, height, i)
  BY <1>6
<1>8. Run(f, d, events, height)
  <2>1. \A i \in 0..n : Sound(f[i])
    BY <1>7 DEF After
  <2>2. \A i \in 1..n : EventTo(f[i - 1], f[i], events[i], height)
    <3> SUFFICES ASSUME NEW i \in 1..n PROVE EventTo(f[i - 1], f[i], events[i], height)
      OBVIOUS
    <3>1. i - 1 \in 0..n
      OBVIOUS
    <3> HIDE DEF G
    <3> QED
      BY <1>5, <1>6, <3>1
  <2> QED
    BY <1>1, <1>2, <2>1, <2>2 DEF Run
<1> QED
  BY <1>1, <1>2, <1>7, <1>8

(* Undone, last event first: the pending slot is as it was before the      *)
(* events, or they did not touch it.                                       *)
Restored(x, y, d, c) ==
    \/ y.pending = x.pending /\ d.pending = c.pending
    \/ y.pending = d.pending /\ c.pending = None

LEMMA UndoRun ==
    ASSUME NEW d, NEW events \in Seq(PegEvents), NEW height \in Nat, NEW f,
           Run(f, d, events, height), NEW c, c = f[Len(events)],
           NEW x, Sound(x), Alike(x, c), NEW y, y = DisconnectEvents(x, events, height)
    PROVE  Sound(y) /\ Undone(x, y, d) /\ Restored(x, y, d, c)
<1>1. PICK n \in Nat : n = Len(events)
  OBVIOUS
<1>2. PICK g : /\ y = g[n] /\ g[0] = x
               /\ \A i \in 1..n : g[i] = DisconnectNext(g[i - 1], events[n + 1 - i], height)
  BY <1>1, DisconnectRuns
<1>3. c = f[n] /\ f[0] = d
  BY <1>1 DEF Run
<1> DEFINE G == {i \in 0..n : /\ Sound(g[i]) /\ Undone(x, g[i], f[n - i])
                              /\ Restored(x, g[i], f[n - i], c)}
<1>4. 0 \in G
  <2>1. n - 0 = n /\ 0 \in 0..n
    OBVIOUS
  <2>2. Undone(x, x, c) /\ Restored(x, x, c, c)
    BY DEF Undone, Restored, Sound, KeepsBlocks
  <2> QED
    BY <1>2, <1>3, <2>1, <2>2
<1>5. ASSUME NEW i \in 1..n, i - 1 \in G PROVE i \in G
  <2>1. /\ n + 1 - i \in 1..n /\ n + 1 - i \in 1..Len(events) /\ n - (i - 1) = n + 1 - i
        /\ (n + 1 - i) - 1 = n - i /\ i \in 0..n /\ n - i \in 0..Len(events)
    BY <1>1
  <2>2. PICK event \in PegEvents : event = events[n + 1 - i]
    BY <2>1, ElementOfSeq
  <2>3. PICK v : v = g[i - 1]
    OBVIOUS
  <2>4. PICK w : w = g[i]
    OBVIOUS
  <2>5. PICK a : a = f[n - i]
    OBVIOUS
  <2>6. PICK b : b = f[n + 1 - i]
    OBVIOUS
  <2>7. Sound(v) /\ Undone(x, v, b) /\ Restored(x, v, b, c)
    BY <1>5, <2>1, <2>3, <2>6
  <2>8. Sound(a) /\ EventTo(a, b, event, height)
    BY <2>1, <2>2, <2>5, <2>6 DEF Run
  <2>9. w = DisconnectEvent(v, event, height)
    BY <1>2, <2>2, <2>3, <2>4, <2>7 DEF DisconnectNext, Sound
  <2>10. Alike(v, b)
    BY <2>7 DEF Undone
  <2>11. /\ Sound(w) /\ Undone(v, w, a)
         /\ w.pending = IF b.pending # a.pending THEN a.pending ELSE v.pending
         /\ b.pending = a.pending \/ b.pending = None
    BY <2>7, <2>8, <2>9, <2>10, UndoEventExact
  <2>12. Undone(x, w, a)
    BY <2>7, <2>11 DEF Undone, KeepsBlocks
  <2>13. Restored(x, w, a, c)
    BY <2>7, <2>11 DEF Restored
  <2> QED
    BY <2>1, <2>4, <2>5, <2>11, <2>12, <2>13
<1>6. n \in G
  <2> HIDE DEF G
  <2>1. \A i \in 0..n : i \in G
    BY <1>4, <1>5, Loop!Steps
  <2> QED
    BY <2>1
<1>7. n - n = 0
  OBVIOUS
<1> QED
  BY <1>2, <1>3, <1>6, <1>7

-----------------------------------------------------------------------------
(* The rest of a block.                                                    *)

(* The peg data are the same.                                              *)
SamePeg(d, c) ==
    c.bundles = d.bundles /\ c.pending = d.pending /\ c.latest_failed = d.latest_failed

(* Whether the events of a block include deposits, and others.             *)
HasDeposit(events) == "Deposit" \in Kinds(events)
HasBundle(events) == Kinds(events) \ {"Deposit"} # {}

(* The height of a block is noted.                                         *)
LEMMA NoteMoves ==
    ASSUME NEW d, Sound(d), NEW events, NEW height \in Nat,
           NEW c, c = NoteEventBlocks(d, events, height)
    PROVE  /\ Sound(c) /\ SamePeg(d, c) /\ c.utxos = d.utxos /\ c.stxos = d.stxos
           /\ c.deposit_blocks =
                 IF HasDeposit(events) THEN Append(d.deposit_blocks, height) ELSE d.deposit_blocks
           /\ c.bundle_blocks =
                 IF HasBundle(events) THEN Append(d.bundle_blocks, height) ELSE d.bundle_blocks
<1>1. d \in Dbs /\ PegOK(d, d.utxos \cup d.stxos) /\ d.ok /\ Stacks(d.bundles)
  BY DEF Sound, PegOK
<1>2. PICK s : s = IF HasDeposit(events) THEN Append(d.deposit_blocks, height) ELSE d.deposit_blocks
  OBVIOUS
<1>3. PICK t : t = IF HasBundle(events) THEN Append(d.bundle_blocks, height) ELSE d.bundle_blocks
  OBVIOUS
<1>4. c = [d EXCEPT !.deposit_blocks = s, !.bundle_blocks = t]
  BY <1>2, <1>3 DEF NoteEventBlocks, HasDeposit, HasBundle
<1>5. /\ c.deposit_blocks = s /\ c.bundle_blocks = t /\ SamePeg(d, c)
      /\ c.utxos = d.utxos /\ c.stxos = d.stxos
  BY <1>1, <1>4 DEF Dbs, SamePeg
<1>6. PegOK(c, d.utxos \cup d.stxos) /\ c.ok = d.ok
  BY <1>1, NoteOK
<1>7. Sound(c)
  BY <1>1, <1>5, <1>6 DEF Sound, SamePeg
<1> QED
  BY <1>2, <1>3, <1>5, <1>7

(* Blocks that were noted are forgotten.                                   *)
LEMMA FrontAppend ==
    ASSUME NEW S, NEW s \in Seq(S), NEW e \in S, NEW g, g = Append(s, e)
    PROVE  g # <<>> /\ Last(g) = e /\ Front(g) = s
<1>1. /\ g \in Seq(S) /\ Len(g) = Len(s) + 1
      /\ \A i \in 1..Len(s) : g[i] = s[i]
      /\ g[Len(s) + 1] = e
  BY Loop!AppendFacts
<1>2. Len(g) > 0 /\ g # <<>> /\ g[Len(g)] = e
  BY <1>1
<1>3. Front(g) \in Seq(S) /\ Len(Front(g)) = Len(g) - 1 /\ \A i \in 1..(Len(g) - 1) : Front(g)[i] = g[i]
  BY <1>1, <1>2, FrontFacts
<1>4. Len(Front(g)) = Len(s) /\ \A i \in 1..Len(s) : Front(g)[i] = s[i]
  BY <1>1, <1>3
<1>5. Front(g) = s
  BY <1>3, <1>4
<1> QED
  BY <1>2, <1>5 DEF Last

LEMMA ForgetMoves ==
    ASSUME NEW d, Sound(d), NEW events, NEW height \in Nat,
           NEW q \in Seq(Nat), NEW u \in Seq(Nat),
           d.deposit_blocks = IF HasDeposit(events) THEN Append(q, height) ELSE q,
           d.bundle_blocks = IF HasBundle(events) THEN Append(u, height) ELSE u,
           NEW c, c = ForgetEventBlocks(d, events, height)
    PROVE  /\ Sound(c) /\ SamePeg(d, c) /\ c.utxos = d.utxos /\ c.stxos = d.stxos
           /\ c.deposit_blocks = q /\ c.bundle_blocks = u
<1>1. d \in Dbs /\ PegOK(d, d.utxos \cup d.stxos) /\ d.ok /\ Stacks(d.bundles)
  BY DEF Sound, PegOK
<1>2. PICK a : a = d.deposit_blocks
  OBVIOUS
<1>3. PICK b : b = d.bundle_blocks
  OBVIOUS
<1>4. HasDeposit(events) => a # <<>> /\ Last(a) = height /\ Front(a) = q
  BY <1>2, FrontAppend
<1>5. HasBundle(events) => b # <<>> /\ Last(b) = height /\ Front(b) = u
  BY <1>3, FrontAppend
<1>6. c = [d EXCEPT !.deposit_blocks = q, !.bundle_blocks = u]
  <2>1. /\ (IF HasDeposit(events) THEN Front(a) ELSE a) = q
        /\ (IF HasBundle(events) THEN Front(b) ELSE b) = u
    BY <1>2, <1>3, <1>4, <1>5
  <2>2. c = [d EXCEPT !.deposit_blocks = (IF HasDeposit(events) THEN Front(a) ELSE a),
                      !.bundle_blocks = (IF HasBundle(events) THEN Front(b) ELSE b)]
    BY <1>2, <1>3, <1>4, <1>5 DEF ForgetEventBlocks, HasDeposit, HasBundle
  <2> QED
    BY <2>1, <2>2
<1>7. /\ c.deposit_blocks = q /\ c.bundle_blocks = u /\ SamePeg(d, c) /\ c.ok = d.ok
      /\ c.utxos = d.utxos /\ c.stxos = d.stxos
  BY <1>1, <1>6 DEF Dbs, SamePeg
<1>8. PegOK(c, d.utxos \cup d.stxos)
  BY <1>1, ForgetOK
<1>9. Sound(c)
  BY <1>1, <1>7, <1>8 DEF Sound, SamePeg
<1> QED
  BY <1>7, <1>9

(* The end of a block: nothing is collected, or a bundle of this height.   *)
CollectedTo(d, c, height) ==
    /\ Alike(c, d) /\ KeepsBlocks(d, c)
    /\ \/ c.pending = d.pending
       \/ /\ d.pending = None /\ c.pending \in OwnBundles /\ c.pending.height = height
          /\ height - LatestFailureHeight(d) >= FailureGap

(* An empty stack.                                                         *)
LEMMA EmptyStack ==
    ASSUME NEW m
    PROVE  <<>> \in Seq(Stamps) /\ Stacked(m, <<>>) /\ Rest(m, <<>>) = <<>>
<1>1. PICK s : s = <<>>
  OBVIOUS
<1>2. PICK k : k = 0
  OBVIOUS
<1>3. s \in Seq(Stamps) /\ Len(s) = 0
  BY <1>1
<1>4. k \in 0..Len(s) /\ Leads(m, s, k)
  BY <1>2, <1>3 DEF Leads
<1>5. Rest(m, s) \in Seq(Stamps) /\ Len(Rest(m, s)) = Len(s) - k /\ Stacked(m, s)
  BY <1>3, <1>4, LeadFacts
<1>6. Rest(m, s) = <<>>
  BY <1>2, <1>3, <1>5
<1> QED
  BY <1>1, <1>3, <1>5, <1>6

(* Nothing is reported of a bundle of this height before it is collected.  *)
LEMMA PendingPut ==
    ASSUME NEW d, Sound(d), NEW height \in Nat, LivesAt(d, height),
           NEW m \in OwnBundles, m.height = height,
           NEW s, s = IF m \in DOMAIN d.bundles THEN d.bundles[m].status ELSE <<>>,
           NEW info \in Infos,
           NEW y, y = PutBundle(d, m, info, Append(s, Stamped("Pending", height)))
    PROVE  y \in Dbs /\ SameOutputs(d, y) /\ Stacks(y.bundles) /\ Agree(y.bundles, d.bundles)
<1>1. m \in Bundles /\ m \notin UnknownBundles /\ d \in Dbs
  BY PegAssumption DEF Bundles, Sound, PegOK
<1>2. Live(d.bundles, m) = <<>>
  <2>1. LifeAt(m, Live(d.bundles, m), height)
    BY <1>1 DEF LivesAt
  <2> QED
    BY <2>1 DEF LifeAt
<1>3. PICK e \in Stamps : e = Stamped("Pending", m.height)
  BY StampType DEF Statuses
<1>4. s \in Seq(Stamps) /\ Stacked(m, s) /\ Rest(m, s) = <<>>
  <2>1. CASE m \in DOMAIN d.bundles
    BY <1>2, <2>1, LiveRecord
  <2>2. CASE m \notin DOMAIN d.bundles
    <3>1. s = <<>>
      BY <2>2
    <3> QED
      BY <3>1, EmptyStack, Zenon
  <2> QED
    BY <2>1, <2>2
<1>5. PICK g : g = Append(s, e)
  OBVIOUS
<1>6. g \in Seq(Stamps)
  BY <1>4, <1>5
<1>7. Stacked(m, g) /\ Rest(m, g) = <<>>
  BY <1>3, <1>4, <1>5, RestPending
<1>8. y = PutBundle(d, m, info, g)
  BY <1>3, <1>5
<1>9. /\ y \in Dbs /\ DOMAIN y.bundles = DOMAIN d.bundles \cup {m}
      /\ y.bundles[m] = [info |-> info, status |-> g]
      /\ Changed(d.bundles, y.bundles, m) /\ SameOutputs(d, y)
  BY <1>1, <1>6, <1>8, PutBundleFacts
<1>10. m \in DOMAIN y.bundles /\ y.bundles[m].status = g
  BY <1>9
<1>11. Others(d.bundles, y.bundles, m) /\ Stacks(y.bundles)
  BY <1>7, <1>9, <1>10, OthersLive DEF Sound
<1>12. Live(y.bundles, m) = Live(d.bundles, m)
  BY <1>2, <1>7, <1>10 DEF Live
<1>13. Agree(y.bundles, d.bundles)
  BY <1>1, <1>11, <1>12 DEF Agree, Others
<1> QED
  BY <1>9, <1>11, <1>13

LEMMA CollectMoves ==
    ASSUME NEW d, Sound(d), NEW height \in Nat, FoundAt(d, height),
           NEW c, c = CollectPending(d, height)
    PROVE  Sound(c) /\ CollectedTo(d, c, height)
<1>1. PICK spend : spend = Collect(d.utxos)
  OBVIOUS
<1>2. spend \subseteq d.utxos /\ spend \subseteq Withdrawals
  BY <1>1 DEF Collect
<1>3. PICK m : m = [height |-> height, spend |-> spend]
  OBVIOUS
<1>4. m \in OwnBundles /\ m.spend = spend /\ m.height = height
  BY <1>2, <1>3 DEF OwnBundles
<1>5. PICK s : s = IF m \in DOMAIN d.bundles THEN d.bundles[m].status ELSE <<>>
  OBVIOUS
<1>6. PICK y : y = PutBundle(d, m, Known(spend), Append(s, Stamped("Pending", height)))
  OBVIOUS
<1>7. \/ c = d
      \/ /\ ~(height - LatestFailureHeight(d) < FailureGap) /\ d.pending = None
         /\ c = [y EXCEPT !.pending = m]
  BY <1>1, <1>3, <1>5, <1>6 DEF CollectPending
<1>8. PegOK(c, d.utxos \cup d.stxos) /\ c.ok
  BY CollectOK DEF Sound
<1>9. CASE c = d
  BY <1>9 DEF CollectedTo, Alike, Agree, KeepsBlocks
<1>10. CASE c # d
  <2>1. Known(spend) \in Infos
    BY <1>2 DEF Known, Infos, Outputs
  <2>2. y \in Dbs /\ SameOutputs(d, y) /\ Stacks(y.bundles) /\ Agree(y.bundles, d.bundles)
    BY <1>4, <1>5, <1>6, <2>1, PendingPut DEF FoundAt
  <2>3. m \in Bundles \cup {None} /\ c = [y EXCEPT !.pending = m]
    BY <1>4, <1>7, <1>10 DEF Bundles
  <2>4. /\ c.utxos = y.utxos /\ c.stxos = y.stxos /\ c.bundles = y.bundles
        /\ c.pending = m /\ c.latest_failed = y.latest_failed
        /\ c.deposit_blocks = y.deposit_blocks /\ c.bundle_blocks = y.bundle_blocks
    BY <2>2, <2>3, PendingFacts
  <2>5. c.utxos = d.utxos /\ c.stxos = d.stxos /\ c.latest_failed = d.latest_failed
        /\ KeepsBlocks(d, c) /\ Agree(c.bundles, d.bundles)
    BY <2>2, <2>4 DEF SameOutputs, KeepsBlocks
  <2>6. Sound(c)
    BY <1>8, <2>2, <2>4, <2>5 DEF Sound
  <2>7. height - LatestFailureHeight(d) >= FailureGap
    <3>1. LatestFailureHeight(d) \in Nat /\ FailureGap \in Nat
      BY FailureBound, PegAssumption
    <3> QED
      BY <1>7, <1>10, <3>1
  <2> QED
    BY <1>4, <1>7, <1>10, <2>4, <2>5, <2>6, <2>7 DEF CollectedTo, Alike
<1> QED
  BY <1>9, <1>10

(* The bundle in the pending slot.                                         *)
LEMMA PendingRecord ==
    ASSUME NEW d, Sound(d), d.pending # None, NEW m, m = d.pending, NEW s, s = d.bundles[m].status
    PROVE  /\ m \in DOMAIN d.bundles /\ m \in OwnBundles /\ s \in Seq(Stamps) /\ Len(s) > 0
           /\ Len(s) \in Nat /\ Stacked(m, s) /\ Rest(m, s) = <<>> /\ Live(d.bundles, m) = <<>>
           /\ Latest(s) = Stamped("Pending", m.height)
           /\ RecordOK(m, d.bundles[m])
<1>1. PICK b : b = d.bundles[m]
  OBVIOUS
<1>2. m \in DOMAIN d.bundles /\ b.info.kind = "Known" /\ Latest(s).value = "Pending" /\ s = b.status
  BY <1>1 DEF Sound, PegOK
<1>3. PICK t : t = Live(d.bundles, m)
  OBVIOUS
<1>4. /\ RecordOK(m, b) /\ s \in Seq(Stamps) /\ Len(s) \in Nat /\ Len(s) > 0
      /\ Stacked(m, s) /\ t = Rest(m, s)
      /\ t # <<>> <=> Latest(s).value # "Pending"
      /\ b.info.kind = "Known" <=> m \in OwnBundles
  BY <1>1, <1>2, <1>3, LiveRecord
<1>5. t = <<>>
  BY <1>2, <1>4
<1>6. s[Len(s)] = Stamped("Pending", m.height)
  <2>1. Rest(m, s) = <<>>
    BY <1>4, <1>5
  <2> QED
    BY <1>4, <2>1, RestEnds
<1> QED
  BY <1>1, <1>2, <1>3, <1>4, <1>5, <1>6, Zenon DEF Latest

(* The pending bundle stays, when it was collected by an earlier block.    *)
LEMMA DropKeeps ==
    ASSUME NEW d, Sound(d), NEW height \in Nat, d.pending # None => d.pending.height # height
    PROVE  DropPending(d, height) = d
<1>1. CASE d.pending = None
  BY <1>1 DEF DropPending
<1>2. CASE d.pending # None
  <2>1. PICK m : m = d.pending
    OBVIOUS
  <2>2. m \in DOMAIN d.bundles /\ Latest(d.bundles[m].status) = Stamped("Pending", m.height)
    BY <1>2, <2>1, PendingRecord
  <2>3. Latest(d.bundles[m].status).height # height
    BY <1>2, <2>1, <2>2 DEF Stamped
  <2> QED
    BY <1>2, <2>1, <2>2, <2>3 DEF DropPending
<1> QED
  BY <1>1, <1>2

(* ... and is dropped, when it was collected by this one.                  *)
LEMMA DropMoves ==
    ASSUME NEW d, Sound(d), NEW height \in Nat, d.pending # None, d.pending.height = height,
           ~(height - LatestFailureHeight(d) < FailureGap),
           NEW c, c = DropPending(d, height)
    PROVE  Sound(c) /\ Alike(c, d) /\ KeepsBlocks(d, c) /\ c.pending = None
<1>1. PICK m : m = d.pending
  OBVIOUS
<1>2. PICK s : s = d.bundles[m].status
  OBVIOUS
<1>3. /\ m \in DOMAIN d.bundles /\ m \in OwnBundles /\ s \in Seq(Stamps) /\ Len(s) > 0
      /\ Len(s) \in Nat /\ Stacked(m, s) /\ Rest(m, s) = <<>> /\ Live(d.bundles, m) = <<>>
      /\ Latest(s) = Stamped("Pending", m.height)
      /\ RecordOK(m, d.bundles[m])
  BY <1>1, <1>2, PendingRecord
<1>4. m \in Bundles /\ m \notin UnknownBundles /\ d \in Dbs
  BY <1>3, PegAssumption DEF Bundles, Sound, PegOK
<1>5. PICK y : y = PopStatus(d, m)
  OBVIOUS
<1>6. c = [y EXCEPT !.pending = None]
  <2>1. Latest(s).height = height
    BY <1>1, <1>3 DEF Stamped
  <2> QED
    BY <1>1, <1>2, <1>3, <1>5, <2>1 DEF DropPending
<1>7. /\ y \in Dbs /\ Changed(d.bundles, y.bundles, m) /\ SameOutputs(d, y)
      /\ Len(s) = 1 => m \notin DOMAIN y.bundles
      /\ Len(s) > 1 => m \in DOMAIN y.bundles /\ y.bundles[m].status = Front(s)
  BY <1>2, <1>3, <1>4, <1>5, PopStatusFacts
<1>8. Stacked(m, Front(s)) /\ Rest(m, Front(s)) = <<>>
  BY <1>3, RestFront
<1>9. Len(s) = 1 \/ Len(s) > 1
  <2>1. \A k \in Nat : k > 0 => k = 1 \/ k > 1
    OBVIOUS
  <2> QED
    BY <1>3, <2>1, Zenon
<1>10. Others(d.bundles, y.bundles, m) /\ Stacks(y.bundles)
  <2>1. m \in DOMAIN y.bundles => Stacked(m, y.bundles[m].status)
    BY <1>7, <1>8, <1>9, Zenon
  <2> QED
    BY <1>7, <2>1, OthersLive DEF Sound
<1>11. Live(y.bundles, m) = Live(d.bundles, m)
  BY <1>3, <1>7, <1>8, <1>9, Zenon DEF Live
<1>12. Agree(y.bundles, d.bundles)
  BY <1>4, <1>10, <1>11 DEF Agree, Others
<1>13. /\ c.utxos = y.utxos /\ c.stxos = y.stxos /\ c.bundles = y.bundles /\ c.ok = y.ok
       /\ c.pending = None /\ c.latest_failed = y.latest_failed
       /\ c.deposit_blocks = y.deposit_blocks /\ c.bundle_blocks = y.bundle_blocks
  <2>1. None \in Bundles \cup {None}
    OBVIOUS
  <2> QED
    BY <1>6, <1>7, <2>1, PendingFacts
<1>14. /\ c.utxos = d.utxos /\ c.stxos = d.stxos /\ c.latest_failed = d.latest_failed
       /\ KeepsBlocks(d, c) /\ c.ok
  BY <1>7, <1>13 DEF SameOutputs, KeepsBlocks, Sound
<1>15. PegOK(c, d.utxos \cup d.stxos)
  BY <1>14, DropOK DEF Sound
<1>16. Sound(c)
  BY <1>10, <1>13, <1>14, <1>15 DEF Sound
<1> QED
  BY <1>12, <1>13, <1>14, <1>16 DEF Alike

(* The next block finds what this one left.                                *)
LEMMA FoundNext ==
    ASSUME NEW d, Sound(d), NEW height \in Nat, FoundAt(d, height),
           NEW c, Sound(c), CollectedTo(d, c, height)
    PROVE  FoundAt(c, height + 1)
<1>1. LivesAt(c, height) /\ FailuresAt(c, height)
  BY AlikeFound DEF CollectedTo
<1>2. LivesAt(c, height + 1)
  <2> SUFFICES ASSUME NEW m \in Bundles PROVE LifeAt(m, Live(c.bundles, m), height + 1)
    BY DEF LivesAt
  <2>1. PICK t : t = Live(c.bundles, m)
    OBVIOUS
  <2>2. t \in Seq(Stamps) /\ LifeAt(m, t, height)
    BY <1>1, <2>1, LiveType DEF LivesAt
  <2>3. \A i \in 1..Len(t) : t[i].height =< height + 1
    <3> SUFFICES ASSUME NEW i \in 1..Len(t) PROVE t[i].height =< height + 1
      OBVIOUS
    <3>1. t[i] \in Stamps
      BY <2>2, ElementOfSeq
    <3>2. t[i].height \in Nat /\ t[i].height =< height
      BY <2>2, <3>1 DEF LifeAt, Stamps
    <3> QED
      BY <3>2
  <2>4. m \in OwnBundles /\ t # <<>> => m.height < height + 1
    <3> SUFFICES ASSUME m \in OwnBundles, t # <<>> PROVE m.height < height + 1
      OBVIOUS
    <3>1. m.height \in Nat /\ m.height < height
      BY <2>2 DEF LifeAt, OwnBundles
    <3> QED
      BY <3>1
  <2> QED
    BY <2>1, <2>2, <2>3, <2>4 DEF LifeAt
<1>3. FailuresAt(c, height + 1)
  <2>1. PICK lf \in Seq([value : Bundles, height : Nat]) : lf = c.latest_failed
    <3>1. c \in Dbs
      BY DEF Sound, PegOK
    <3> QED
      BY <3>1, DbFields
  <2>2. \A i \in 1..Len(lf) : lf[i].height =< height + 1
    <3> SUFFICES ASSUME NEW i \in 1..Len(lf) PROVE lf[i].height =< height + 1
      OBVIOUS
    <3>1. lf[i] \in [value : Bundles, height : Nat]
      BY ElementOfSeq
    <3>2. lf[i].height \in Nat /\ lf[i].height =< height
      BY <1>1, <2>1, <3>1 DEF FailuresAt
    <3> QED
      BY <3>2
  <2> QED
    BY <1>1, <2>1, <2>2 DEF FailuresAt
<1>4. c.pending # None => c.pending.height < height + 1
  <2> SUFFICES ASSUME c.pending # None PROVE c.pending.height < height + 1
    OBVIOUS
  <2>1. PICK m \in OwnBundles : m = c.pending
    BY PendingRecord
  <2>2. m.height \in Nat
    BY DEF OwnBundles
  <2>3. m.height < height \/ m.height = height
    BY <2>1 DEF CollectedTo, FoundAt
  <2> QED
    BY <2>1, <2>2, <2>3
<1> QED
  BY <1>2, <1>3, <1>4 DEF FoundAt

(* Alike and Same compare what the databases report.                       *)
LEMMA AlikeVia ==
    ASSUME NEW a, NEW b, NEW c, Alike(a, b), Alike(b, c)
    PROVE  Alike(a, c)
  BY DEF Alike, Agree

LEMMA SameVia ==
    ASSUME NEW a, NEW b, NEW c, Same(a, b), Same(b, c)
    PROVE  Same(a, c)
  BY AlikeVia DEF Same

(* What a block did to the peg data is undone.  The events are undone from *)
(* databases like those they left; the pending slot is then either the one *)
(* that they found, from an earlier block, or the bundle that this block   *)
(* collected into the empty slot, which is dropped because no failure is   *)
(* later than the one at its collection.                                   *)
LEMMA UndoPegExact ==
    ASSUME NEW d, Sound(d), NEW height \in Nat, FoundAt(d, height),
           NEW events \in Seq(PegEvents), NEW f, Run(f, d, events, height),
           NEW r, r = f[Len(events)], Sound(r), FoundAt(r, height), KeepsBlocks(d, r),
           LatestFailureHeight(d) =< LatestFailureHeight(r),
           NEW s, s = NoteEventBlocks(r, events, height),
           NEW c, CollectedTo(s, c, height),
           NEW x, Sound(x), Same(x, c),
           NEW y, y = DisconnectPeg(x, events, height)
    PROVE  Sound(y) /\ Same(y, d)
<1>1. /\ Sound(s) /\ SamePeg(r, s) /\ s.utxos = r.utxos /\ s.stxos = r.stxos
      /\ s.deposit_blocks =
            IF HasDeposit(events) THEN Append(r.deposit_blocks, height) ELSE r.deposit_blocks
      /\ s.bundle_blocks =
            IF HasBundle(events) THEN Append(r.bundle_blocks, height) ELSE r.bundle_blocks
  BY NoteMoves
<1>2. Alike(s, r)
  BY <1>1 DEF SamePeg, Alike, Agree
<1>3. Alike(x, r)
  BY <1>2, AlikeVia DEF Same, CollectedTo
<1>4. PICK u : u = DisconnectEvents(x, events, height)
  OBVIOUS
<1>5. Sound(u) /\ Undone(x, u, d) /\ Restored(x, u, d, r)
  BY <1>3, <1>4, UndoRun
<1>6. PICK v : v = ForgetEventBlocks(u, events, height)
  OBVIOUS
<1>7. y = DropPending(v, height)
  BY <1>4, <1>5, <1>6 DEF DisconnectPeg, Undone
<1>8. /\ u.deposit_blocks =
            IF HasDeposit(events) THEN Append(d.deposit_blocks, height) ELSE d.deposit_blocks
      /\ u.bundle_blocks =
            IF HasBundle(events) THEN Append(d.bundle_blocks, height) ELSE d.bundle_blocks
  <2>1. u.deposit_blocks = s.deposit_blocks /\ u.bundle_blocks = s.bundle_blocks
    BY <1>5 DEF Undone, KeepsBlocks, Same, CollectedTo
  <2>2. r.deposit_blocks = d.deposit_blocks /\ r.bundle_blocks = d.bundle_blocks
    BY DEF KeepsBlocks
  <2> QED
    BY <1>1, <2>1, <2>2
<1>9. d.deposit_blocks \in Seq(Nat) /\ d.bundle_blocks \in Seq(Nat)
  BY DbFields DEF Sound, PegOK
<1>10. /\ Sound(v) /\ SamePeg(u, v) /\ v.utxos = u.utxos /\ v.stxos = u.stxos
       /\ v.deposit_blocks = d.deposit_blocks /\ v.bundle_blocks = d.bundle_blocks
  BY <1>5, <1>6, <1>8, <1>9, ForgetMoves
<1>11. Alike(v, d)
  <2>1. Alike(v, u)
    BY <1>10 DEF SamePeg, Alike, Agree
  <2> QED
    BY <1>5, <2>1, AlikeVia DEF Undone
<1>12. v.pending = u.pending /\ s.pending = r.pending /\ x.pending = c.pending
  BY <1>1, <1>10 DEF SamePeg, Same
<1>13. CASE v.pending = d.pending
  <2>1. v.pending # None => v.pending.height # height
    <3> SUFFICES ASSUME v.pending # None PROVE v.pending.height # height
      OBVIOUS
    <3>1. PICK m \in OwnBundles : m = d.pending
      BY <1>13, PendingRecord
    <3>2. m.height \in Nat /\ m.height < height
      BY <1>13, <3>1 DEF FoundAt, OwnBundles
    <3> QED
      BY <1>13, <3>1, <3>2
  <2>2. y = v
    BY <1>7, <1>10, <2>1, DropKeeps
  <2> QED
    BY <1>10, <1>11, <1>13, <2>2 DEF Same
<1>14. CASE v.pending # d.pending
  <2>1. v.pending = c.pending /\ d.pending = s.pending /\ c.pending # s.pending
    BY <1>5, <1>12, <1>14 DEF Restored
  <2>2. /\ d.pending = None /\ v.pending # None /\ v.pending.height = height
        /\ height - LatestFailureHeight(s) >= FailureGap
    <3>1. /\ s.pending = None /\ c.pending \in OwnBundles /\ c.pending.height = height
          /\ height - LatestFailureHeight(s) >= FailureGap
      BY <2>1 DEF CollectedTo
    <3>2. c.pending # None
      BY <3>1, PegAssumption DEF Bundles
    <3> QED
      BY <2>1, <3>1, <3>2
  <2>3. LatestFailureHeight(s) = LatestFailureHeight(r)
    BY <1>1 DEF LatestFailureHeight, SamePeg
  <2>4. LatestFailureHeight(v) = LatestFailureHeight(d)
    BY <1>10, <1>11, AlikeFound
  <2>5. LatestFailureHeight(d) \in Nat /\ LatestFailureHeight(r) \in Nat /\ FailureGap \in Nat
    BY FailureBound, PegAssumption
  <2>6. ~(height - LatestFailureHeight(v) < FailureGap)
    BY <2>2, <2>3, <2>4, <2>5
  <2>7. Sound(y) /\ Alike(y, v) /\ KeepsBlocks(v, y) /\ y.pending = None
    BY <1>7, <1>10, <2>2, <2>6, DropMoves
  <2>8. Alike(y, d)
    BY <1>11, <2>7, AlikeVia
  <2> QED
    BY <1>10, <2>2, <2>7, <2>8 DEF Same, KeepsBlocks
<1> QED
  BY <1>13, <1>14

-----------------------------------------------------------------------------
(* Blocks.                                                                 *)

(* What disconnecting a block at the given height makes of x.              *)
Undo(x, block, height) ==
    LET undone == DisconnectPeg(x, block.events, height)
    IN  IF undone.ok THEN DisconnectBody(undone, block.created, block.spent) ELSE undone

(* The block that led from d to c can be disconnected from databases that  *)
(* are the same as c, and the result is the same as d.                     *)
Reverts(c, block, height, d) ==
    \A x : Sound(x) /\ Same(x, c) => Sound(Undo(x, block, height)) /\ Same(Undo(x, block, height), d)

(* Transactions that fit d, and what they make of it.                      *)
BodyFits(d, created, spent) ==
    /\ created \in SUBSET Withdrawals /\ created \cap (d.utxos \cup d.stxos) = {}
    /\ spent \in SUBSET Deposits /\ spent \subseteq d.utxos

BodyTo(d, c, created, spent) ==
    /\ SamePeg(d, c) /\ KeepsBlocks(d, c)
    /\ c.utxos = (d.utxos \cup created) \ spent /\ c.stxos = d.stxos \cup spent

(* The transactions of a block.                                            *)
LEMMA BodyMoves ==
    ASSUME NEW d, Sound(d), NEW created, NEW spent, BodyFits(d, created, spent),
           NEW c, c = ConnectBody(d, created, spent)
    PROVE  Sound(c) /\ BodyTo(d, c, created, spent)
<1> USE DEF BodyFits
<1>1. d \in Dbs /\ d.ok /\ Stacks(d.bundles) /\ PegOK(d, d.utxos \cup d.stxos)
  BY DEF Sound, PegOK
<1>2. /\ SamePeg(d, c) /\ KeepsBlocks(d, c)
      /\ c.utxos = (d.utxos \cup created) \ spent /\ c.stxos = d.stxos \cup spent
  BY <1>1 DEF ConnectBody, Spend, Dbs, SamePeg, KeepsBlocks
<1>3. PegOK(c, (d.utxos \cup d.stxos) \cup created) /\ c.ok
  BY <1>1, BodyOK
<1>4. c.utxos \cup c.stxos = (d.utxos \cup d.stxos) \cup created
  BY <1>3 DEF PegOK
<1> QED
  BY <1>1, <1>2, <1>3, <1>4 DEF Sound, SamePeg, BodyTo

LEMMA UndoBodyExact ==
    ASSUME NEW d, Sound(d), NEW created, NEW spent, BodyFits(d, created, spent),
           NEW c, c = ConnectBody(d, created, spent),
           NEW x, Sound(x), Same(x, c), NEW y, y = DisconnectBody(x, created, spent)
    PROVE  Sound(y) /\ Same(y, d)
<1>1. /\ SamePeg(d, c) /\ KeepsBlocks(d, c)
      /\ c.utxos = (d.utxos \cup created) \ spent /\ c.stxos = d.stxos \cup spent
  BY BodyMoves DEF BodyTo
<1>2. x \in Dbs /\ x.ok /\ Stacks(x.bundles) /\ PegOK(x, x.utxos \cup x.stxos)
  BY DEF Sound, PegOK
<1>3. x.utxos = (d.utxos \cup created) \ spent /\ x.stxos = d.stxos \cup spent
  BY <1>1 DEF Same, Alike
<1>4. created \cap spent = {} /\ d.utxos \cap d.stxos = {}
  BY PegAssumption DEF Sound, PegOK, BodyFits
<1>5. created \subseteq x.utxos /\ spent \subseteq x.stxos
  BY <1>3, <1>4
<1>6. PICK z : z = Unspend(x, spent)
  OBVIOUS
<1>7. y = [z EXCEPT !.utxos = @ \ created]
  BY <1>5, <1>6 DEF DisconnectBody
<1>8. /\ z \in Dbs /\ z.utxos = x.utxos \cup spent /\ z.stxos = x.stxos \ spent
      /\ z.ok = x.ok /\ SamePeg(x, z) /\ KeepsBlocks(x, z)
  BY <1>2, <1>6, UnspendFacts DEF Outputs, SamePeg, KeepsBlocks, BodyFits
<1>9. /\ y.utxos = z.utxos \ created /\ y.stxos = z.stxos
      /\ y.ok = z.ok /\ SamePeg(z, y) /\ KeepsBlocks(z, y)
  BY <1>7, <1>8 DEF Dbs, SamePeg, KeepsBlocks
<1>10. y.utxos = d.utxos /\ y.stxos = d.stxos
  <2>1. y.utxos = (((d.utxos \cup created) \ spent) \cup spent) \ created
        /\ y.stxos = (d.stxos \cup spent) \ spent
    BY <1>3, <1>8, <1>9
  <2> QED
    BY <1>4, <2>1 DEF BodyFits
<1>11. Alike(y, d)
  <2>1. y.bundles = x.bundles /\ y.latest_failed = x.latest_failed
    BY <1>8, <1>9 DEF SamePeg
  <2>2. Agree(x.bundles, c.bundles) /\ x.latest_failed = c.latest_failed
    BY DEF Same, Alike
  <2>3. c.bundles = d.bundles /\ c.latest_failed = d.latest_failed
    BY <1>1 DEF SamePeg
  <2> QED
    BY <1>10, <2>1, <2>2, <2>3 DEF Alike
<1>12. Same(y, d)
  BY <1>1, <1>8, <1>9, <1>11 DEF Same, SamePeg, KeepsBlocks
<1>13. y.ok
  BY <1>2, <1>8, <1>9
<1>14. PegOK(y, (x.utxos \cup x.stxos) \ created)
  BY <1>2, <1>13, UndoBodyOK DEF BodyFits
<1>15. (x.utxos \cup x.stxos) \ created = y.utxos \cup y.stxos
  BY <1>14 DEF PegOK
<1>16. Stacks(y.bundles)
  BY <1>2, <1>8, <1>9 DEF SamePeg
<1> QED
  BY <1>12, <1>13, <1>14, <1>15, <1>16 DEF Sound

(* The body changes nothing that the peg data depend on.                   *)
LEMMA SamePegFound ==
    ASSUME NEW d, NEW c, SamePeg(d, c), NEW height, NEW chain
    PROVE  /\ FoundAt(d, height) => FoundAt(c, height)
           /\ Linked(d, chain) => Linked(c, chain)
  BY DEF SamePeg, FoundAt, LivesAt, FailuresAt, Linked

(* Databases that are the same are found the same.                         *)
LEMMA SameFound ==
    ASSUME NEW x, Sound(x), NEW d, Sound(d), Same(x, d), NEW height, NEW chain
    PROVE  /\ FoundAt(d, height) => FoundAt(x, height)
           /\ Linked(d, chain) => Linked(x, chain)
<1>1. Alike(x, d) /\ x.pending = d.pending
  BY DEF Same
<1>2. FoundAt(d, height) => LivesAt(x, height) /\ FailuresAt(x, height)
  BY <1>1, AlikeFound
<1>3. FoundAt(d, height) => FoundAt(x, height)
  BY <1>1, <1>2 DEF FoundAt
<1>4. \A m \in Bundles : Live(x.bundles, m) = Live(d.bundles, m)
  BY <1>1 DEF Alike, Agree
<1>5. Linked(d, chain) => Linked(x, chain)
  BY <1>4 DEF Linked, InFlight, LastTold
<1> QED
  BY <1>3, <1>5

(* The peg data of a block.                                                *)
LEMMA PegReverts ==
    ASSUME NEW d, Sound(d), NEW height \in Nat, FoundAt(d, height), NEW chain, Linked(d, chain),
           NEW events \in Seq(PegEvents),
           height = 0 => (d.utxos \cup d.stxos) \cap Withdrawals = {},
           \A i \in 1..Len(events) : Admitted(d, chain, events, i),
           NEW c, c = ConnectPeg(d, events, height), c.ok
    PROVE  /\ Sound(c) /\ FoundAt(c, height + 1) /\ FlightAfter(c.bundles, chain, events)
           /\ \A x : Sound(x) /\ Same(x, c) => /\ Sound(DisconnectPeg(x, events, height))
                                              /\ Same(DisconnectPeg(x, events, height), d)
<1>1. PICK r : r = ConnectEvents(d, events, height)
  OBVIOUS
<1>2. PICK s : s = NoteEventBlocks(r, events, height)
  OBVIOUS
<1>3. r.ok /\ c = CollectPending(s, height)
  BY <1>1, <1>2 DEF ConnectPeg
<1>4. After(r, d, chain, events, height, Len(events))
  BY <1>1, <1>3, ConnectRun
<1>5. PICK f : r = f[Len(events)] /\ Run(f, d, events, height)
  BY <1>1, <1>3, ConnectRun
<1>6. /\ Sound(r) /\ FoundAt(r, height) /\ KeepsBlocks(d, r)
      /\ LatestFailureHeight(d) =< LatestFailureHeight(r)
  BY <1>4 DEF After
<1>7. FlightAfter(r.bundles, chain, events)
  <2>1. SubSeq(events, 1, Len(events)) = events
    BY ReportPrefix
  <2> QED
    BY <1>4, <2>1 DEF After
<1>8. Sound(s) /\ SamePeg(r, s)
  BY <1>2, <1>6, NoteMoves
<1>9. FoundAt(s, height)
  BY <1>6, <1>8, SamePegFound
<1>10. Sound(c) /\ CollectedTo(s, c, height)
  BY <1>3, <1>8, <1>9, CollectMoves
<1>11. FoundAt(c, height + 1)
  BY <1>8, <1>9, <1>10, FoundNext
<1>12. FlightAfter(c.bundles, chain, events)
  <2>1. \A m \in Bundles : Live(c.bundles, m) = Live(r.bundles, m)
    BY <1>8, <1>10 DEF CollectedTo, Alike, Agree, SamePeg
  <2> QED
    BY <1>7, <2>1 DEF FlightAfter, InFlight, LastTold
<1>13. ASSUME NEW x, Sound(x), Same(x, c)
       PROVE  /\ Sound(DisconnectPeg(x, events, height))
              /\ Same(DisconnectPeg(x, events, height), d)
  BY <1>2, <1>5, <1>6, <1>10, <1>13, UndoPegExact
<1> QED
  BY <1>10, <1>11, <1>12, <1>13

(* A block.                                                                *)
LEMMA BlockReverts ==
    ASSUME NEW d, Sound(d), NEW height \in Nat, FoundAt(d, height), NEW chain, Linked(d, chain),
           NEW block \in Blocks, BodyFits(d, block.created, block.spent),
           height = 0 => ((d.utxos \cup d.stxos) \cup block.created) \cap Withdrawals = {},
           NEW b, b = ConnectBody(d, block.created, block.spent),
           \A i \in 1..Len(block.events) : Admitted(b, chain, block.events, i),
           NEW c, c = ConnectPeg(b, block.events, height), c.ok
    PROVE  /\ Sound(c) /\ FoundAt(c, height + 1) /\ FlightAfter(c.bundles, chain, block.events)
           /\ Reverts(c, block, height, d)
<1>1. /\ block.created \in SUBSET Withdrawals /\ block.spent \in SUBSET Deposits
      /\ block.events \in Seq(PegEvents)
  BY DEF Blocks
<1>2. /\ Sound(b) /\ SamePeg(d, b)
      /\ b.utxos = (d.utxos \cup block.created) \ block.spent
      /\ b.stxos = d.stxos \cup block.spent
  BY BodyMoves DEF BodyTo
<1>3. FoundAt(b, height) /\ Linked(b, chain)
  BY <1>2, SamePegFound
<1>4. height = 0 => (b.utxos \cup b.stxos) \cap Withdrawals = {}
  BY <1>2 DEF BodyFits
<1>5. /\ Sound(c) /\ FoundAt(c, height + 1) /\ FlightAfter(c.bundles, chain, block.events)
      /\ \A x : Sound(x) /\ Same(x, c) => /\ Sound(DisconnectPeg(x, block.events, height))
                                         /\ Same(DisconnectPeg(x, block.events, height), b)
  BY <1>1, <1>2, <1>3, <1>4, PegReverts
<1>6. ASSUME NEW x, Sound(x), Same(x, c)
      PROVE  Sound(Undo(x, block, height)) /\ Same(Undo(x, block, height), d)
  <2>1. PICK y : y = DisconnectPeg(x, block.events, height)
    OBVIOUS
  <2>2. Sound(y) /\ Same(y, b)
    BY <1>5, <1>6, <2>1
  <2>3. Undo(x, block, height) = DisconnectBody(y, block.created, block.spent)
    BY <2>1, <2>2 DEF Undo, Sound
  <2> QED
    BY <2>2, <2>3, UndoBodyExact
<1> QED
  BY <1>5, <1>6 DEF Reverts

-----------------------------------------------------------------------------
(* The invariant.                                                          *)

(* The block at index i of a chain, with what each block found and the     *)
(* databases after the last one.                                           *)
BlockOK(chain, found, last, i) ==
    /\ Sound(found[i]) /\ FoundAt(found[i], i - 1) /\ Linked(found[i], SubSeq(chain, 1, i - 1))
    /\ Reverts(IF i = Len(chain) THEN last ELSE found[i + 1], chain[i], i - 1, found[i])

History(chain, found, last) ==
    /\ Sound(last) /\ FoundAt(last, Len(chain)) /\ Linked(last, chain)
    /\ \A i \in 1..Len(chain) : BlockOK(chain, found, last, i)

EInv == PInv /\ History(blocks, before, db)

(* The same first elements.                                                *)
LEMMA PrefixSame ==
    ASSUME NEW S, NEW s \in Seq(S), NEW g \in Seq(S), NEW k \in Nat, k =< Len(s), k =< Len(g),
           \A j \in 1..k : s[j] = g[j]
    PROVE  SubSeq(s, 1, k) = SubSeq(g, 1, k)
<1>1. PICK p : p = SubSeq(s, 1, k)
  OBVIOUS
<1>2. PICK q : q = SubSeq(g, 1, k)
  OBVIOUS
<1>3. k \in 0..Len(s) /\ k \in 0..Len(g)
  OBVIOUS
<1>4. p \in Seq(S) /\ Len(p) = k /\ \A j \in 1..k : p[j] = s[j]
  BY <1>1, <1>3, Loop!PrefixFacts
<1>5. q \in Seq(S) /\ Len(q) = k /\ \A j \in 1..k : q[j] = g[j]
  BY <1>2, <1>3, Loop!PrefixFacts
<1>6. p = q
  BY <1>4, <1>5
<1> QED
  BY <1>1, <1>2, <1>6

(* A block is put on top of a chain.                                       *)
LEMMA HistoryAppend ==
    ASSUME NEW chain \in Seq(Blocks), NEW found \in Seq(Dbs), Len(found) = Len(chain), NEW last,
           History(chain, found, last), NEW blk \in Blocks,
           NEW g, g = Append(chain, blk), NEW h, h = Append(found, last),
           NEW c, Sound(c), FoundAt(c, Len(chain) + 1), Linked(c, g),
           Reverts(c, blk, Len(chain), last)
    PROVE  History(g, h, c)
<1>1. PICK n \in Nat : n = Len(chain)
  OBVIOUS
<1>2. last \in Dbs /\ Sound(last) /\ FoundAt(last, n) /\ Linked(last, chain)
  BY <1>1 DEF History, Sound, PegOK
<1>3. g \in Seq(Blocks) /\ Len(g) = n + 1 /\ (\A i \in 1..n : g[i] = chain[i]) /\ g[n + 1] = blk
  BY <1>1, Loop!AppendFacts
<1>4. h \in Seq(Dbs) /\ Len(h) = n + 1 /\ (\A i \in 1..n : h[i] = found[i]) /\ h[n + 1] = last
  BY <1>1, <1>2, Loop!AppendFacts
<1>5. \A k \in 0..n : SubSeq(g, 1, k) = SubSeq(chain, 1, k)
  <2> SUFFICES ASSUME NEW k \in 0..n PROVE SubSeq(g, 1, k) = SubSeq(chain, 1, k)
    OBVIOUS
  <2>1. k \in Nat /\ k =< Len(g) /\ k =< Len(chain) /\ \A j \in 1..k : j \in 1..n
    BY <1>1, <1>3
  <2>2. \A j \in 1..k : g[j] = chain[j]
    BY <1>3, <2>1
  <2> QED
    BY <1>3, <2>1, <2>2, PrefixSame
<1>6. ASSUME NEW i \in 1..(n + 1) PROVE BlockOK(g, h, c, i)
  <2>1. CASE i = n + 1
    <3>1. SubSeq(g, 1, i - 1) = chain
      <4>1. i - 1 = n /\ n \in 0..n
        BY <2>1
      <4>2. SubSeq(chain, 1, n) = chain
        BY <1>1, SubSeqFull
      <4> QED
        BY <1>5, <4>1, <4>2
    <3>2. i - 1 = n /\ h[i] = last /\ g[i] = blk /\ i = Len(g)
      BY <1>3, <1>4, <2>1
    <3>3. Reverts(c, blk, n, last)
      BY <1>1
    <3> QED
      BY <1>2, <3>1, <3>2, <3>3 DEF BlockOK
  <2>2. CASE i # n + 1
    <3>1. i \in 1..n /\ i # Len(g) /\ i - 1 \in 0..n
      BY <1>3, <2>2
    <3>2. BlockOK(chain, found, last, i)
      BY <1>1, <3>1 DEF History
    <3>3. SubSeq(g, 1, i - 1) = SubSeq(chain, 1, i - 1) /\ g[i] = chain[i] /\ h[i] = found[i]
      BY <1>3, <1>4, <1>5, <3>1
    <3>4. h[i + 1] = IF i = Len(chain) THEN last ELSE found[i + 1]
      <4>1. CASE i = n
        BY <1>1, <1>4, <4>1
      <4>2. CASE i # n
        <5>1. i + 1 \in 1..n
          BY <3>1, <4>2
        <5> QED
          BY <1>1, <1>4, <4>2, <5>1
      <4> QED
        BY <4>1, <4>2
    <3> QED
      BY <3>1, <3>2, <3>3, <3>4 DEF BlockOK
  <2> QED
    BY <2>1, <2>2
<1>7. FoundAt(c, Len(g))
  BY <1>1, <1>3
<1> QED
  BY <1>3, <1>6, <1>7 DEF History

(* The last block is taken off.                                            *)
LEMMA HistoryFront ==
    ASSUME NEW chain \in Seq(Blocks), chain # <<>>, NEW found \in Seq(Dbs),
           Len(found) = Len(chain), NEW last, History(chain, found, last),
           NEW n, n = Len(chain), NEW c, c = Undo(last, chain[n], n - 1)
    PROVE  /\ Sound(c) /\ Same(c, found[n])
           /\ History(Front(chain), Front(found), c)
<1>1. n \in Nat /\ n > 0 /\ n \in 1..Len(chain) /\ n - 1 \in Nat
  OBVIOUS
<1>2. BlockOK(chain, found, last, n) /\ Sound(last)
  BY <1>1 DEF History
<1>3. /\ Sound(found[n]) /\ FoundAt(found[n], n - 1) /\ Linked(found[n], SubSeq(chain, 1, n - 1))
      /\ Reverts(last, chain[n], n - 1, found[n])
  BY <1>2 DEF BlockOK
<1>4. Same(last, last)
  BY DEF Same, Alike, Agree
<1>5. Sound(c) /\ Same(c, found[n])
  BY <1>2, <1>3, <1>4 DEF Reverts
<1>6. PICK g : g = Front(chain)
  OBVIOUS
<1>7. PICK h : h = Front(found)
  OBVIOUS
<1>8. g \in Seq(Blocks) /\ Len(g) = n - 1 /\ \A i \in 1..(n - 1) : g[i] = chain[i]
  BY <1>1, <1>6, FrontFacts
<1>9. h \in Seq(Dbs) /\ Len(h) = n - 1 /\ \A i \in 1..(n - 1) : h[i] = found[i]
  BY <1>1, <1>7, FrontFacts
<1>10. \A k \in 0..(n - 1) : SubSeq(g, 1, k) = SubSeq(chain, 1, k)
  <2> SUFFICES ASSUME NEW k \in 0..(n - 1) PROVE SubSeq(g, 1, k) = SubSeq(chain, 1, k)
    OBVIOUS
  <2>1. k \in Nat /\ k =< Len(g) /\ k =< Len(chain) /\ \A j \in 1..k : j \in 1..(n - 1)
    BY <1>1, <1>8
  <2>2. \A j \in 1..k : g[j] = chain[j]
    BY <1>8, <2>1
  <2> QED
    BY <1>8, <2>1, <2>2, PrefixSame
<1>11. g = SubSeq(chain, 1, n - 1)
  <2>1. SubSeq(g, 1, Len(g)) = g
    BY <1>8, SubSeqFull
  <2>2. n - 1 \in 0..(n - 1)
    BY <1>1
  <2> QED
    BY <1>8, <1>10, <2>1, <2>2
<1>12. FoundAt(c, n - 1) /\ Linked(c, g)
  <2>1. PICK d : d = found[n]
    OBVIOUS
  <2>2. PICK k : k = n - 1
    OBVIOUS
  <2>3. Sound(d) /\ FoundAt(d, k) /\ Linked(d, g) /\ Same(c, d)
    BY <1>3, <1>5, <1>11, <2>1, <2>2
  <2>4. FoundAt(c, k) /\ Linked(c, g)
    BY ONLY <1>5, <2>3, SameFound, Zenon
  <2> QED
    BY <2>2, <2>4
<1>13. ASSUME NEW i \in 1..(n - 1) PROVE BlockOK(g, h, c, i)
  <2>1. i \in 1..Len(chain) /\ i # n /\ i - 1 \in 0..(n - 1)
    BY <1>1
  <2>2. BlockOK(chain, found, last, i)
    BY <2>1 DEF History
  <2>3. /\ Sound(found[i]) /\ FoundAt(found[i], i - 1) /\ Linked(found[i], SubSeq(chain, 1, i - 1))
        /\ Reverts(found[i + 1], chain[i], i - 1, found[i])
    BY <2>1, <2>2 DEF BlockOK
  <2>4. SubSeq(g, 1, i - 1) = SubSeq(chain, 1, i - 1) /\ g[i] = chain[i] /\ h[i] = found[i]
    BY <1>8, <1>9, <1>10, <2>1
  <2>5. Reverts(IF i = Len(g) THEN c ELSE h[i + 1], chain[i], i - 1, found[i])
    <3>1. CASE i = n - 1
      <4>1. Reverts(found[n], chain[i], i - 1, found[i])
        BY <1>1, <2>3, <3>1
      <4>2. \A x : Same(x, c) => Same(x, found[n])
        BY <1>5, SameVia
      <4>3. Reverts(c, chain[i], i - 1, found[i])
        BY <4>1, <4>2 DEF Reverts
      <4> QED
        BY <1>8, <3>1, <4>3
    <3>2. CASE i # n - 1
      <4>1. i + 1 \in 1..(n - 1)
        BY <1>1, <3>2
      <4>2. h[i + 1] = found[i + 1] /\ i # Len(g)
        BY <1>8, <1>9, <3>2, <4>1
      <4> QED
        BY <2>3, <4>2
    <3> QED
      BY <3>1, <3>2
  <2> QED
    BY <2>3, <2>4, <2>5 DEF BlockOK
<1>14. History(g, h, c)
  BY <1>5, <1>8, <1>12, <1>13 DEF History
<1> QED
  BY <1>5, <1>6, <1>7, <1>14

(* The statuses of a bundle are in the order of their heights: those that  *)
(* lead have the height of the bundle, and it is not above the others.     *)
LEMMA StackOrdered ==
    ASSUME NEW d, Sound(d), NEW height \in Nat, LivesAt(d, height), NEW m \in DOMAIN d.bundles,
           NEW s, s = d.bundles[m].status
    PROVE  Ordered(s)
<1>1. PICK t : t = Live(d.bundles, m)
  OBVIOUS
<1>2. PICK b : b = d.bundles[m]
  OBVIOUS
<1>3. RecordOK(m, b) /\ s \in Seq(Stamps) /\ Len(s) \in Nat /\ Stacked(m, s) /\ t = Rest(m, s)
  BY <1>1, <1>2, LiveRecord
<1>4. m \in Bundles
  BY <1>3, RecordFields
<1>5. LifeAt(m, t, height)
  BY <1>1, <1>4 DEF LivesAt
<1>6. PICK k \in 0..Len(s) : Leads(m, s, k)
  BY <1>3 DEF Stacked
<1>7. /\ t \in Seq(Stamps) /\ Len(t) = Len(s) - k
      /\ \A i \in 1..(Len(s) - k) : t[i] = s[i + k]
  BY <1>3, <1>6, LeadFacts
<1>8. \A i \in 1..k : m \in OwnBundles /\ s[i].height = m.height
  BY <1>6 DEF Leads, Stamped
<1>9. m \in OwnBundles => m.height \in Nat
  BY DEF OwnBundles
<1>10. SUFFICES ASSUME NEW i \in 2..Len(s) PROVE s[i - 1].height =< s[i].height
  BY DEF Ordered
<1>11. CASE i =< k
  <2>1. i \in 1..k /\ i - 1 \in 1..k
    BY <1>3, <1>11
  <2> QED
    BY <1>8, <1>9, <2>1
<1>12. CASE i = k + 1
  <2>1. i - 1 \in 1..k /\ 1 \in 1..(Len(s) - k) /\ 1 + k = i /\ 1 \in 1..Len(t)
    BY <1>3, <1>7, <1>12
  <2>2. t # <<>>
    BY <1>7, <2>1
  <2>3. m \in OwnBundles /\ s[i - 1].height = m.height
    BY <1>8, <2>1
  <2>4. s[i] = t[1] /\ m.height =< t[1].height
    BY <1>5, <1>7, <2>1, <2>2, <2>3 DEF LifeAt
  <2> QED
    BY <2>3, <2>4
<1>13. CASE i > k + 1
  <2>1. /\ i - k \in 2..Len(t) /\ i - k \in 1..(Len(s) - k) /\ (i - k) - 1 \in 1..(Len(s) - k)
        /\ (i - k) + k = i /\ ((i - k) - 1) + k = i - 1
    BY <1>3, <1>7, <1>13
  <2>2. t[i - k] = s[i] /\ t[(i - k) - 1] = s[i - 1]
    BY <1>7, <2>1
  <2>3. t[(i - k) - 1].height =< t[i - k].height
    BY <1>5, <2>1 DEF LifeAt, Ordered
  <2> QED
    BY <2>2, <2>3
<1> QED
  BY <1>3, <1>11, <1>12, <1>13

(* The databases of the empty chain.                                       *)
LEMMA ExactInit ==
    ASSUME Init
    PROVE  EInv
<1>1. PInv
  BY PegInit
<1>2. blocks = <<>> /\ db = EmptyDb
  BY DEF Init
<1>3. /\ db.ok /\ db.bundles = NoBundles /\ db.pending = None /\ db.latest_failed = <<>>
  BY <1>2 DEF EmptyDb
<1>4. DOMAIN db.bundles = {}
  BY <1>3 DEF NoBundles
<1>5. Sound(db)
  <2>1. PegOK(db, Created(blocks))
    BY <1>1 DEF PInv
  <2>2. PegOK(db, db.utxos \cup db.stxos)
    BY <2>1 DEF PegOK
  <2> QED
    BY <1>3, <1>4, <2>2 DEF Sound, Stacks
<1>6. \A m : Live(db.bundles, m) = <<>>
  BY <1>4 DEF Live
<1>7. FoundAt(db, 0)
  <2>1. \A m : LifeAt(m, <<>>, 0)
    BY DEF LifeAt, Ordered
  <2>2. FailuresAt(db, 0)
    BY <1>3 DEF FailuresAt, Ordered
  <2> QED
    BY <1>3, <1>6, <2>1, <2>2 DEF FoundAt, LivesAt
<1>8. Len(blocks) = 0 /\ DOMAIN blocks = {}
  BY <1>2
<1>9. Linked(db, blocks)
  <2>1. \A m : ChainReport(blocks, m) = "None"
    BY <1>8 DEF ChainReport
  <2> QED
    BY <2>1 DEF Linked
<1>10. History(blocks, before, db)
  BY <1>5, <1>7, <1>8, <1>9 DEF History
<1> QED
  BY <1>1, <1>10 DEF EInv

(* The mainchain reports what it may.                                      *)
LEMMA AdmittedAll ==
    ASSUME PInv, CrossFork = FALSE, NEW n \in Nat, NEW events \in [1..n -> MainchainEvents],
           MayReportAll(events), NEW b, SamePeg(db, b), NEW created \in SUBSET Withdrawals,
           b.utxos \cup b.stxos = Created(blocks) \cup created
    PROVE  /\ events \in Seq(PegEvents) /\ Len(events) = n
           /\ \A i \in 1..Len(events) : Admitted(b, blocks, events, i)
<1>1. /\ events \in Seq(PegEvents) /\ Len(events) = n
      /\ \A i \in 1..n :
            IF events[i].kind = "Deposit"
            THEN /\ events[i].id \in Deposits /\ events[i].id \notin Created(blocks)
                 /\ \A j \in 1..(i - 1) : events[j] # events[i]
            ELSE events[i].id \in DOMAIN db.bundles \/ events[i].id \in UnknownBundles
  BY ReportsOK
<1>2. ASSUME NEW i \in 1..n PROVE Admitted(b, blocks, events, i)
  <2>1. PICK event : event = events[i]
    OBVIOUS
  <2>2. CASE event.kind = "Deposit"
    <3>1. /\ event.id \in Deposits /\ event.id \notin Created(blocks)
          /\ \A j \in 1..(i - 1) : events[j] # event
      BY <1>1, <2>1, <2>2
    <3>2. event.id \notin b.utxos \cup b.stxos
      BY <3>1, PegAssumption
    <3> QED
      BY <2>1, <2>2, <3>1, <3>2 DEF Admitted
  <2>3. CASE event.kind # "Deposit"
    <3>1. event.id \in DOMAIN b.bundles \/ event.id \in UnknownBundles
      BY <1>1, <2>1, <2>3 DEF SamePeg
    <3>2. event.kind \in {"Confirmed", "Failed"} =>
             ReportedTo(blocks, SubSeq(events, 1, i - 1), event.id) = "Submitted"
      <4> SUFFICES ASSUME event.kind \in {"Confirmed", "Failed"}
                   PROVE  ReportedTo(blocks, SubSeq(events, 1, i - 1), event.id) = "Submitted"
        OBVIOUS
      <4>1. event.kind # "Submitted" /\ event.kind # "Deposit"
        OBVIOUS
      <4>2. MayReport(events, i)
        BY <1>1 DEF MayReportAll
      <4> QED
        BY <2>1, <4>1, <4>2 DEF MayReport, ReportedTo
    <3> QED
      BY <2>1, <2>3, <3>1, <3>2 DEF Admitted
  <2> QED
    BY <2>2, <2>3
<1> QED
  BY <1>1, <1>2

(* A block that is connected can be disconnected.                          *)
LEMMA ExactConnect ==
    ASSUME EInv, CrossFork = FALSE,
           NEW created \in SUBSET (Withdrawals \ (db.utxos \cup db.stxos)),
           NEW spent \in SUBSET (db.utxos \cap Deposits),
           NEW n \in 0..scope.events, NEW events \in [1..n -> MainchainEvents],
           ConnectTip(created, spent, events)
    PROVE  EInv'
<1>1. PInv /\ History(blocks, before, db)
  BY DEF EInv
<1>2. PInv'
  BY <1>1, ConnectStep
<1>3. /\ PegOK(db, Created(blocks)) /\ ChainOK(blocks) /\ scope \in Scope
      /\ before \in Seq(Dbs) /\ Len(before) = Len(blocks)
  BY <1>1 DEF PInv
<1>4. n \in Nat /\ blocks \in Seq(Blocks) /\ db.utxos \cup db.stxos = Created(blocks)
  BY <1>3 DEF Scope, ChainOK, PegOK
<1>5. PICK height \in Nat : height = Len(blocks)
  BY <1>4
<1>6. PICK b : b = ConnectBody(db, created, spent)
  OBVIOUS
<1>7. PICK c : c = ConnectPeg(b, events, height)
  OBVIOUS
<1>8. PICK blk : blk = [created |-> created, spent |-> spent, events |-> events]
  OBVIOUS
<1>9. /\ height = 0 => created = {}
      /\ MayReportAll(events) /\ c.ok /\ db' = c
      /\ blocks' = Append(blocks, blk) /\ before' = Append(before, db)
  BY <1>5, <1>6, <1>7, <1>8 DEF ConnectTip
<1>10. Sound(db) /\ FoundAt(db, height) /\ Linked(db, blocks)
  BY <1>1, <1>5 DEF History
<1>11. BodyFits(db, created, spent)
  BY DEF BodyFits
<1>12. BodyTo(db, b, created, spent)
  BY <1>6, <1>10, <1>11, BodyMoves
<1>13. SamePeg(db, b) /\ b.utxos \cup b.stxos = Created(blocks) \cup created
  BY <1>4, <1>11, <1>12, PegAssumption DEF BodyTo, BodyFits
<1>14. /\ events \in Seq(PegEvents)
       /\ \A i \in 1..Len(events) : Admitted(b, blocks, events, i)
  BY <1>1, <1>4, <1>9, <1>13, AdmittedAll
<1>15. /\ blk \in Blocks /\ blk.created = created /\ blk.spent = spent /\ blk.events = events
  BY <1>8, <1>14 DEF Blocks
<1>16. height = 0 => ((db.utxos \cup db.stxos) \cup created) \cap Withdrawals = {}
  <2> SUFFICES ASSUME height = 0 PROVE ((db.utxos \cup db.stxos) \cup created) \cap Withdrawals = {}
    OBVIOUS
  <2>1. DOMAIN blocks = {}
    BY <1>4, <1>5
  <2>2. Created(blocks) = {}
    BY <2>1 DEF Created
  <2> QED
    BY <1>4, <1>9, <2>2
<1>17. /\ Sound(c) /\ FoundAt(c, height + 1) /\ FlightAfter(c.bundles, blocks, blk.events)
       /\ Reverts(c, blk, height, db)
  BY <1>6, <1>7, <1>9, <1>10, <1>11, <1>14, <1>15, <1>16, BlockReverts
<1>18. PICK g : g = Append(blocks, blk)
  OBVIOUS
<1>19. Linked(c, g)
  <2>1. \A m : ChainReport(g, m) = ReportedTo(blocks, blk.events, m)
    BY <1>4, <1>15, <1>18, ChainReportAppend
  <2> QED
    BY <1>17, <2>1 DEF Linked, FlightAfter
<1>20. PICK h : h = Append(before, db)
  OBVIOUS
<1>21. History(g, h, c)
  BY <1>1, <1>3, <1>4, <1>5, <1>15, <1>17, <1>18, <1>19, <1>20, HistoryAppend
<1>22. History(blocks', before', db')
  BY <1>9, <1>18, <1>20, <1>21
<1> QED
  BY <1>2, <1>22 DEF EInv

(* What disconnect_tip_ computes, by the undo of the last block.           *)
LEMMA ExactUndo ==
    ASSUME EInv, blocks # <<>>, NEW n, n = Len(blocks)
    PROVE  /\ n \in Nat \ {0} /\ Disconnected = Undo(db, blocks[n], n - 1)
           /\ Sound(Disconnected) /\ Same(Disconnected, before[n])
           /\ History(Front(blocks), Front(before), Disconnected)
<1>1. /\ blocks \in Seq(Blocks) /\ before \in Seq(Dbs) /\ Len(before) = Len(blocks)
      /\ History(blocks, before, db)
  BY DEF EInv, PInv, ChainOK
<1>2. Disconnected = Undo(db, blocks[n], n - 1)
  BY DEF Disconnected, Undo
<1>3. /\ Sound(Disconnected) /\ Same(Disconnected, before[n])
      /\ History(Front(blocks), Front(before), Disconnected)
  BY <1>1, <1>2, HistoryFront
<1>4. n \in Nat \ {0}
  BY <1>1
<1> QED
  BY <1>2, <1>3, <1>4

(* A block is disconnected.                                                *)
LEMMA ExactDisconnect ==
    ASSUME EInv, DisconnectTip
    PROVE  EInv'
<1>1. PInv'
  BY DisconnectStep DEF EInv
<1>2. /\ blocks # <<>> /\ db' = Disconnected /\ blocks' = Front(blocks) /\ before' = Front(before)
  BY DEF DisconnectTip
<1>3. History(Front(blocks), Front(before), Disconnected)
  BY <1>2, ExactUndo
<1>4. History(blocks', before', db')
  BY <1>2, <1>3
<1> QED
  BY <1>1, <1>4 DEF EInv

(* Every step keeps the invariant.                                         *)
LEMMA ExactStep ==
    ASSUME CrossFork = FALSE, EInv, [Next]_vars
    PROVE  EInv'
<1>1. CASE UNCHANGED vars
  <2>1. PInv'
    BY PegStep DEF EInv
  <2>2. History(blocks', before', db')
    BY <1>1 DEF EInv, vars
  <2> QED
    BY <2>1, <2>2 DEF EInv
<1>2. CASE DisconnectTip
  BY <1>2, ExactDisconnect
<1>3. ASSUME NEW created \in SUBSET (Withdrawals \ (db.utxos \cup db.stxos)),
             NEW spent \in SUBSET (db.utxos \cap Deposits),
             NEW n \in 0..scope.events, NEW events \in [1..n -> MainchainEvents],
             ConnectTip(created, spent, events)
      PROVE  EInv'
  BY <1>3, ExactConnect
<1> QED
  BY <1>1, <1>2, <1>3 DEF Next

(* The invariant says that the last block is undone.                       *)
LEMMA ExactHolds ==
    ASSUME EInv
    PROVE  DisconnectExact
<1>1. Sound(db) /\ FoundAt(db, Len(blocks)) /\ blocks \in Seq(Blocks)
      /\ before \in Seq(Dbs) /\ Len(before) = Len(blocks)
  BY DEF EInv, PInv, ChainOK, History
<1>2. PICK height \in Nat : height = Len(blocks)
  BY <1>1
<1>3. Ordered(db.latest_failed)
  BY <1>1 DEF FoundAt, FailuresAt
<1>4. \A m \in DOMAIN db.bundles : Ordered(db.bundles[m].status)
  BY <1>1, <1>2, StackOrdered DEF FoundAt
<1>5. ASSUME blocks # <<>>
      PROVE  /\ Disconnected.ok
             /\ Disconnected.utxos = Last(before).utxos /\ Disconnected.stxos = Last(before).stxos
             /\ Disconnected.pending = Last(before).pending
             /\ Disconnected.latest_failed = Last(before).latest_failed
             /\ Disconnected.deposit_blocks = Last(before).deposit_blocks
             /\ Disconnected.bundle_blocks = Last(before).bundle_blocks
  <2>1. PICK x : x = Disconnected
    OBVIOUS
  <2>2. PICK b : b = Last(before)
    OBVIOUS
  <2>3. b = before[Len(blocks)]
    BY <1>1, <2>2 DEF Last
  <2>4. Sound(x) /\ Same(x, b)
    BY <1>5, <2>1, <2>3, ExactUndo
  <2> QED
    BY <2>1, <2>2, <2>4 DEF Sound, Same, Alike
<1> QED
  BY <1>3, <1>4, <1>5 DEF DisconnectExact

(* A chain that was connected can always be disconnected: no consistency   *)
(* check of disconnect_two_way_peg_data or disconnect_tip_ fails, no       *)
(* roll-back stack is out of order, and the outputs, the pending bundle,   *)
(* the failures and the event blocks are those that the block found,       *)
(* although statuses Pending of bundles that were collected meanwhile stay *)
(* behind, while the mainchain reports only bundles that the connected     *)
(* chain proposed.                                                         *)
THEOREM DisconnectAlwaysExact ==
    ASSUME CrossFork = FALSE
    PROVE  Spec => []DisconnectExact
<1>1. Init => EInv
  BY ExactInit
<1>2. EInv /\ [Next]_vars => EInv'
  BY ExactStep
<1>3. EInv => DisconnectExact
  BY ExactHolds
<1> QED
  BY <1>1, <1>2, <1>3, PTL DEF Spec

=============================================================================
