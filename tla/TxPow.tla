-------------------------------- MODULE TxPow --------------------------------
(***************************************************************************)
(* The proof of work that a market may ask of a trade                      *)
(* (lib/types/tx_pow.rs): which hash functions it chains, in which order,  *)
(* and when a digest meets the difficulty.  A config is a record           *)
(* [selector, ordering, difficulty]; a digest is a sequence of bytes.      *)
(***************************************************************************)
EXTENDS Integers, Sequences, SequencesExt

CONSTANTS
    HashFunctions,      \* ALL_HASH_FUNCTIONS, a sequence (8)
    ByteBits,           \* bits of a byte (8)
    MaxPowDifficulty    \* MAX_POW_DIFFICULTY (32)

ASSUME TxPowAssumption ==
    /\ HashFunctions \in Seq(STRING)
    /\ ByteBits \in Nat \ {0} /\ MaxPowDifficulty \in Nat

IsEnabled(config) == config.difficulty > 0

BitSet(n, bit) == (n \div 2^bit) % 2 = 1

\* The functions whose bit is set in the selector, in the fixed order.
SelectedFunctions(config) ==
    LET indexed == [i \in DOMAIN HashFunctions |-> [bit |-> i - 1, f |-> HashFunctions[i]]]
        kept == SelectSeq(indexed, LAMBDA e : BitSet(config.selector, e.bit))
    IN  [i \in DOMAIN kept |-> kept[i].f]

Factorial(n) == LET f[i \in 0..n] == IF i = 0 THEN 1 ELSE i * f[i - 1] IN f[n]

\* The digits of index in the factorial base pick from what is left.
LehmerPermutation(items, index) ==
    LET n == Len(items)
        step[k \in 0..n] ==
            IF k = 0 THEN [available |-> items, index |-> index, result |-> <<>>]
            ELSE LET s == step[k - 1]
                     chosen == s.index \div Factorial(n - k) + 1
                 IN  [available |-> RemoveAt(s.available, chosen),
                      index |-> s.index % Factorial(n - k),
                      result |-> Append(s.result, s.available[chosen])]
    IN  step[n].result

OrderedFunctions(config) ==
    LET selected == SelectedFunctions(config)
    IN  IF Len(selected) =< 1 THEN selected
        ELSE LehmerPermutation(selected, config.ordering % Factorial(Len(selected)))

\* The leading zeros of a byte (of the integer type, external to the code).
ByteZeros(byte) ==
    ByteBits - (CHOOSE n \in 0..ByteBits : byte < 2^n /\ (n = 0 \/ byte >= 2^(n - 1)))

\* Whole zero bytes, then the zeros of the first other byte.
LeadingZeroBits(digest) ==
    FoldLeft(LAMBDA c, byte : IF c.open THEN [count |-> c.count + ByteZeros(byte),
                                              open |-> byte = 0] ELSE c,
             [count |-> 0, open |-> TRUE], digest).count

\* No function selected: the digest is all zeros.
Digest(config, digest) ==
    IF OrderedFunctions(config) = <<>> THEN [i \in DOMAIN digest |-> 0] ELSE digest

\* digest: what the chained functions make of the trade and the nonce
PowVerify(config, digest) ==
    \/ ~IsEnabled(config)
    \/ LeadingZeroBits(Digest(config, digest)) >= config.difficulty

ValidConfig(config) ==
    \/ config.difficulty = 0
    \/ config.difficulty =< MaxPowDifficulty /\ config.selector # 0
=============================================================================
