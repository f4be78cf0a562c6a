------------------------------- MODULE Bundles -------------------------------
(***************************************************************************)
(* The withdrawal bundle that a node proposes from its unspent withdrawals *)
(* (collect_withdrawal_bundle, WithdrawalBundle): one output for each      *)
(* mainchain address, the addresses that pay most first, as many as fit in *)
(* a standard transaction.  A withdrawal is a record [out, value, mainFee, *)
(* address]; an address is a number whose script has SpkSize(address)      *)
(* bytes.                                                                  *)
(***************************************************************************)
EXTENDS Integers, Sequences, FiniteSets, FiniteSetsExt, SequencesExt

CONSTANTS
    MaxWeight,          \* MAX_STANDARD_TX_WEIGHT (400000)
    SpkSizes            \* bytes of the script of each address, a sequence

ASSUME BundlesAssumption == MaxWeight \in Nat /\ SpkSizes \in Seq(Nat)

SpkSize(address) == SpkSizes[address]

-----------------------------------------------------------------------------
(* Weights, in bytes of the bitcoin serialization                          *)

VarIntSize(n) == IF n < 253 THEN 1 ELSE IF n < 65536 THEN 3 ELSE 5

TxoutSize(spkSize) == 8 + VarIntSize(spkSize) + spkSize

CommitmentsSize == TxoutSize(34) + TxoutSize(10)

\* version, one input with an empty script, the outputs with the commitments
\* to the inputs and to the fee, lock time; no witness
PredictWeight(outputs, txoutSizes) ==
    4 * (4 + (VarIntSize(1) + 41) + (VarIntSize(outputs + 2) + CommitmentsSize + txoutSizes) + 4)

\* The transaction as it is built has no inputs yet, which is serialized
\* with the two bytes of the segwit marker.
TxWeight(txouts) ==
    LET sizes == MapThenSumSet(LAMBDA i : TxoutSize(SpkSize(txouts[i].address)), DOMAIN txouts)
    IN  4 * (4 + VarIntSize(0) + VarIntSize(Len(txouts) + 2) + CommitmentsSize + sizes + 4) + 2

-----------------------------------------------------------------------------
(* The bundle                                                              *)

Aggregate(withdrawals) ==
    LET to(a) == {w \in withdrawals : w.address = a}
    IN  {[address |-> a,
          value |-> MapThenSumSet(LAMBDA w : w.value, to(a)),
          mainFee |-> MapThenSumSet(LAMBDA w : w.mainFee, to(a)),
          spends |-> {w.out : w \in to(a)}] : a \in {w.address : w \in withdrawals}}

\* Deviation: the fee alone orders the addresses.
BeforeByFee(a, b) == a.mainFee >= b.mainFee

\* The reverse of the lexicographic order on (main_fee, value, main_address).
Before(a, b) ==
    \/ a.mainFee > b.mainFee
    \/ a.mainFee = b.mainFee /\ a.value > b.value
    \/ a.mainFee = b.mainFee /\ a.value = b.value /\ a.address >= b.address

\* What sorting may return: the aggregates come from a hash map, so any of
\* their orders may be the one that is sorted.
Sorted(aggregates) ==
    {s \in SetToSeqs(aggregates) : \A i, j \in DOMAIN s : i < j => Before(s[i], s[j])}

\* The addresses of the longest prefix whose predicted weight is standard.
Taken(sorted) ==
    LET size[i \in 0..Len(sorted)] ==
            IF i = 0 THEN 0 ELSE size[i - 1] + TxoutSize(SpkSize(sorted[i].address))
        fits == {i \in 0..Len(sorted) :
                    \A j \in 1..i : PredictWeight(j, size[j]) =< MaxWeight}
    IN  SubSeq(sorted, 1, Max(fits))

CollectBundle(sorted) ==
    LET taken == Taken(sorted)
    IN  [outputs |-> [i \in DOMAIN taken |-> [address |-> taken[i].address,
                                              value |-> taken[i].value]],
         spends |-> UNION {taken[i].spends : i \in DOMAIN taken},
         fee |-> MapThenSumSet(LAMBDA i : taken[i].mainFee, DOMAIN taken)]

\* WithdrawalBundle::new and the caller both refuse a bundle that is too heavy.
BundleBuilt(bundle) == TxWeight(bundle.outputs) =< MaxWeight
=============================================================================
