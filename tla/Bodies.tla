------------------------------- MODULE Bodies -------------------------------
(***************************************************************************)
(* Block bodies: how authorized transactions are packed into a body, which *)
(* signatures a body must carry, what its Merkle root commits to and which *)
(* fees its coinbase may take.                                             *)
(*                                                                         *)
(* Hashes and signatures are symbolic.  A hash is a record of what was     *)
(* hashed, so equal hashes have equal preimages; an authorization is the   *)
(* key that signed and the transaction that it signed.                     *)
(*   transaction  [txid, inputs (a sequence of outpoints)]                 *)
(*   utxos        a function from outpoints to [address, value]            *)
(***************************************************************************)
EXTENDS Integers, Sequences, SequencesExt

CONSTANTS
    ChunkSize,      \* signatures verified in one batch
    NoProof         \* the actor proof of a transaction that has none

ASSUME BodiesAssumption == ChunkSize \in Nat \ {0}

-----------------------------------------------------------------------------
(* Signatures                                                              *)

AddressOf(key) == [hashOf |-> key]

Signature(key, tx) == [key |-> key, signs |-> tx]

Verifies(auth, tx) == auth.signs = tx

\* A batch of pairs <<authorization, message>>: an empty one is refused.
BatchVerifies(batch) ==
    /\ batch # <<>>
    /\ \A i \in DOMAIN batch : Verifies(batch[i][1], batch[i][2])

\* addressKeys: a sequence of pairs <<address, key>>
Authorize(addressKeys, tx) ==
    [ok |-> \A i \in DOMAIN addressKeys : addressKeys[i][1] = AddressOf(addressKeys[i][2]),
     transaction |-> tx,
     authorizations |-> [i \in DOMAIN addressKeys |-> Signature(addressKeys[i][2], tx)],
     actorProof |-> NoProof]

VerifyActorProof(at) ==
    at.actorProof = NoProof \/ Verifies(at.actorProof, at.transaction)

VerifyAuthorizedTransaction(at) ==
    /\ Len(at.authorizations) = Len(at.transaction.inputs)
    /\ \/ at.authorizations = <<>>
       \/ BatchVerifies([i \in DOMAIN at.authorizations |->
                            <<at.authorizations[i], at.transaction>>])

VerifyTransaction(at) == VerifyAuthorizedTransaction(at) /\ VerifyActorProof(at)

-----------------------------------------------------------------------------
(* Bodies                                                                  *)

Inputs(transactions) ==
    FlattenSeq([i \in DOMAIN transactions |-> transactions[i].inputs])

BodyNew(ats) ==
    [transactions |-> [i \in DOMAIN ats |-> ats[i].transaction],
     authorizations |-> FlattenSeq([i \in DOMAIN ats |-> ats[i].authorizations]),
     actorProofs |-> [i \in DOMAIN ats |-> ats[i].actorProof]]

\* The authorizations are dealt out in order, as many as a transaction has
\* inputs; a missing actor proof is no proof.
AuthorizedTransactions(body) ==
    LET txs == body.transactions
        before[i \in 1..Len(txs) + 1] ==
            IF i = 1 THEN 0 ELSE before[i - 1] + Len(txs[i - 1].inputs)
    IN  IF before[Len(txs) + 1] > Len(body.authorizations)
        THEN [ok |-> FALSE, list |-> <<>>]
        ELSE [ok |-> TRUE,
              list |-> [i \in DOMAIN txs |->
                  [transaction |-> txs[i],
                   authorizations |->
                       SubSeq(body.authorizations, before[i] + 1, before[i + 1]),
                   actorProof |-> IF i \in DOMAIN body.actorProofs
                                  THEN body.actorProofs[i] ELSE NoProof]]]

Messages(body) ==
    FlattenSeq([i \in DOMAIN body.transactions |->
        [j \in DOMAIN body.transactions[i].inputs |-> body.transactions[i]]])

\* Deviation: the shorter chunk after full ones is left out.
ChunksFull(pairs) ==
    IF Len(pairs) =< ChunkSize THEN <<pairs>>
    ELSE [c \in 1..Len(pairs) \div ChunkSize |->
             SubSeq(pairs, (c - 1) * ChunkSize + 1, c * ChunkSize)]

Chunks(pairs) ==
    [c \in 1..(Len(pairs) + ChunkSize - 1) \div ChunkSize |->
        SubSeq(pairs, (c - 1) * ChunkSize + 1,
               IF c * ChunkSize < Len(pairs) THEN c * ChunkSize ELSE Len(pairs))]

VerifyAuthorizations(body) ==
    LET messages == Messages(body)
        pairs == Zip(body.authorizations, messages)
    IN  /\ Len(body.authorizations) = Len(Inputs(body.transactions))
        /\ \/ body.authorizations = <<>>
           \/ \A c \in DOMAIN Chunks(pairs) : BatchVerifies(Chunks(pairs)[c])

VerifyBody(body) ==
    LET split == AuthorizedTransactions(body)
    IN  /\ VerifyAuthorizations(body)
        /\ split.ok
        /\ \A i \in DOMAIN split.list : VerifyActorProof(split.list[i])

-----------------------------------------------------------------------------
(* Validation against the utxo set                                         *)

FillTransaction(utxos, tx) ==
    [ok |-> \A i \in DOMAIN tx.inputs : tx.inputs[i] \in DOMAIN utxos,
     spent |-> [i \in {j \in DOMAIN tx.inputs : tx.inputs[j] \in DOMAIN utxos} |->
                   utxos[tx.inputs[i]]]]

\* Each authorization is by the owner of the output it is paired with.
OwnersSign(utxos, authorizations, inputs) ==
    /\ Len(authorizations) = Len(inputs)
    /\ \A i \in DOMAIN inputs :
          AddressOf(authorizations[i].key) = utxos[inputs[i]].address

DoubleSpent(inputs) == \E i, j \in DOMAIN inputs : i # j /\ inputs[i] = inputs[j]

\* A transaction alone, as the mempool and the wallet validate it.
ValidateTransaction(utxos, at) ==
    /\ FillTransaction(utxos, at.transaction).ok
    /\ OwnersSign(utxos, at.authorizations, at.transaction.inputs)
    /\ VerifyTransaction(at)

Prevalidate(utxos, body) ==
    /\ \A i \in DOMAIN body.transactions : FillTransaction(utxos, body.transactions[i]).ok
    /\ ~DoubleSpent(Inputs(body.transactions))
    /\ OwnersSign(utxos, body.authorizations, Inputs(body.transactions))
    /\ VerifyBody(body)

-----------------------------------------------------------------------------
(* What the Merkle root commits to                                         *)

\* One level of the tree: an odd last leaf is paired with itself.
NextLevel(leaves) ==
    [i \in 1..(Len(leaves) + 1) \div 2 |->
        [left |-> leaves[2 * i - 1],
         right |-> leaves[IF 2 * i =< Len(leaves) THEN 2 * i ELSE 2 * i - 1]]]

\* MergeValueSizeTotal: siblings become their parent, with the total value.
\* The code asserts that they are siblings; ok says whether it may.
Merge(left, right) ==
    [ok |-> left.ok /\ right.ok /\ left.index + 1 = right.index,
     index |-> (left.index - 1) \div 2,
     value |-> left.value + right.value,
     commitment |-> [l |-> left.commitment, v |-> left.value + right.value,
                     r |-> right.commitment]]

\* The complete binary tree library: leaves are merged in pairs from the
\* end, an odd first one waits in front, then the queue is merged two by two.
BuildMerkleRoot(leaves) ==
    LET n == Len(leaves)
        odd == n % 2
        paired == [k \in 1..n \div 2 |-> Merge(leaves[n - 2 * k + 1], leaves[n - 2 * k + 2])]
        start == IF odd = 1 THEN <<leaves[1]>> \o paired ELSE paired
        queue[k \in 0..n] ==
            IF k = 0 THEN start
            ELSE LET q == queue[k - 1]
                 IN  IF Len(q) < 2 THEN q
                     ELSE Append(SubSeq(q, 3, Len(q)), Merge(q[2], q[1]))
    IN  IF n = 0
        THEN [ok |-> TRUE, index |-> 0, value |-> 0, commitment |-> [default |-> 0]]
        ELSE queue[n][1]

CoinbaseLeaves(outputs) ==
    [i \in DOMAIN outputs |->
        [ok |-> TRUE, index |-> (i - 1) + Len(outputs) - 1, value |-> outputs[i].value,
         commitment |-> [output |-> outputs[i]]]]

CoinbaseRoot(coinbase) ==
    [memo |-> coinbase.memo, outputs |-> BuildMerkleRoot(CoinbaseLeaves(coinbase.outputs)).commitment]

ComputeMerkleRoot(coinbase, transactions) ==
    LET leaves == <<CoinbaseRoot(coinbase)>>
                    \o [i \in DOMAIN transactions |-> [txid |-> transactions[i].txid]]
        level[k \in 0..Len(leaves)] ==
            IF k = 0 THEN leaves
            ELSE IF Len(level[k - 1]) > 1 THEN NextLevel(level[k - 1]) ELSE level[k - 1]
    IN  level[Len(leaves)][1]

-----------------------------------------------------------------------------
(* Values.  A filled transaction is [kind, spent, outputs]: the values of   *)
(* what it spends and its outputs [content, value, mainFee].                *)

SumOf(values) == FoldLeft(LAMBDA a, b : a + b, 0, values)

GetBitcoinValue(output) == output.value + output.mainFee

\* None (ok is FALSE) for a transaction that makes more than it spends.
BitcoinFee(tx) ==
    LET in == SumOf(tx.spent)
        made == SumOf([i \in DOMAIN tx.outputs |-> GetBitcoinValue(tx.outputs[i])])
    IN  [ok |-> in >= made, fee |-> in - made]

\* The outputs as they are stored: each but a withdrawal takes its value from
\* what was spent, in order.
FilledOutputs(tx) ==
    LET counted(o) == IF o.content = "withdrawal" THEN 0 ELSE o.value
        left[i \in 0..Len(tx.outputs)] ==
            IF i = 0 THEN SumOf(tx.spent) ELSE left[i - 1] - counted(tx.outputs[i])
    IN  [ok |-> \A i \in DOMAIN tx.outputs : left[i] >= 0, outputs |-> tx.outputs]

ValidateCoinbaseOutputs(outputs) ==
    \A i \in DOMAIN outputs : outputs[i].content \in {"bitcoin", "withdrawal"}

\* A trade or an amplification pays the miner fee and nothing else, a trade
\* that was skipped nothing, another transaction what it does not pay out.
ValidateFees(coinbaseValue, txs, skipped, minerFee) ==
    coinbaseValue =<
        SumOf([i \in DOMAIN txs |->
            IF i \in skipped THEN 0
            ELSE IF txs[i].kind \in {"trade", "amplify"} THEN minerFee
            ELSE BitcoinFee(txs[i]).fee])

CoinbaseValue(outputs) == SumOf([i \in DOMAIN outputs |-> GetBitcoinValue(outputs[i])])
=============================================================================
