---------------------------- MODULE Ancestry ----------------------------
(* The archive's index of sidechain headers: heights, the exponential index *)
(* of ancestors built by put_header, and the searches that run on it        *)
(* (lib/archive/mod.rs, lib/archive/iter.rs).  The index of mainchain       *)
(* headers is the same code over other tables, with one genesis block.      *)
(*                                                                          *)
(* Block hashes are the numbers in the order their headers are stored, so a *)
(* header's parent, which must be stored first, has a smaller number.       *)
EXTENDS Integers, Sequences, FiniteSets, SequencesExt

CONSTANTS
    MaxBlocks,      \* bound: headers stored
    Reach,          \* bound: a parent is one of the last Reach headers
    MAX_BATCH_SIZE  \* ancestors fetched at once by AncestorsRev

ASSUME AncestryAssumption ==
    /\ MaxBlocks \in Nat \ {0}
    /\ Reach \in Nat \ {0}
    /\ MAX_BATCH_SIZE \in Nat \ {0}

VARIABLES
    headers,                \* prev_side_hash of each stored header, 0 for None
    block_hash_to_height,
    exponential_ancestors

vars == <<headers, block_hash_to_height, exponential_ancestors>>

NoAncestor == -1            \* Error::NoAncestor

Blocks == 1 .. Len(headers)

ilog2(n) == CHOOSE k \in 0 .. n : 2 ^ k <= n /\ n < 2 ^ (k + 1)

(* Archive::get_nth_ancestor over given tables *)
NthAncestor(hs, heights, exp, b0, n0) ==
    LET walk[<<b, n>> \in (1 .. Len(hs)) \X (0 .. MaxBlocks)] ==
            IF n = 0 THEN b
            ELSE IF n > heights[b] THEN NoAncestor
            ELSE IF n = 1 THEN hs[b]
            ELSE LET i == ilog2(n) - 1
                 IN  walk[<<exp[b][i + 1], n - 2 * 2 ^ i>>]
    IN  walk[<<b0, n0>>]

get_nth_ancestor(b, n) ==
    NthAncestor(headers, block_hash_to_height, exponential_ancestors, b, n)

(* the loop of put_header that extends the index of a header by doubling *)
ExponentialAncestors(parent, height) ==
    LET extend[depth \in Nat] ==
            IF depth = 2 THEN <<get_nth_ancestor(parent, 1)>>
            ELSE LET shorter == extend[depth \div 2]
                 IN  Append(shorter, get_nth_ancestor(Last(shorter), depth \div 2))
    IN  IF height >= 2 THEN extend[2 ^ ilog2(height)] ELSE <<>>

(* Archive::put_header, the part that concerns the index *)
put_header(parent) ==
    LET height == IF parent = 0 THEN 0 ELSE block_hash_to_height[parent] + 1
    IN  /\ headers' = Append(headers, parent)
        /\ block_hash_to_height' = Append(block_hash_to_height, height)
        /\ exponential_ancestors' =
               Append(exponential_ancestors, ExponentialAncestors(parent, height))

Init ==
    /\ headers = <<>>
    /\ block_hash_to_height = <<>>
    /\ exponential_ancestors = <<>>

Next ==
    /\ Len(headers) < MaxBlocks
    /\ \E parent \in {0} \cup {b \in Blocks : b > Len(headers) - Reach} :
           put_header(parent)

Spec == Init /\ [][Next]_vars

---------------------------------------------------------------------------
(* The searches. *)

is_descendant(ancestor, descendant) ==
    LET ha == block_hash_to_height[ancestor]
        hd == block_hash_to_height[descendant]
    IN  \/ ancestor = descendant
        \/ ha <= hd /\ ancestor = get_nth_ancestor(descendant, hd - ha)

(* mutant: the search skips the depth it has just found to be common *)
CommonAncestorSearch_Skip(b0, b1, height) ==
    LET search[<<lo, hi>> \in (0 .. MaxBlocks) \X (0 .. MaxBlocks)] ==
            IF lo >= hi THEN get_nth_ancestor(b0, hi)
            ELSE LET mid == (lo + hi) \div 2
                 IN  IF get_nth_ancestor(b0, mid) = get_nth_ancestor(b1, mid)
                     THEN search[<<lo, mid - 1>>]
                     ELSE search[<<mid + 1, hi>>]
    IN  search[<<1, height>>]

(* the binary search of last_common_ancestor, for two blocks of one height *)
CommonAncestorSearch(b0, b1, height) ==
    LET search[<<lo, hi>> \in (0 .. MaxBlocks) \X (0 .. MaxBlocks)] ==
            IF lo >= hi THEN get_nth_ancestor(b0, hi)
            ELSE LET mid == (lo + hi) \div 2
                 IN  IF get_nth_ancestor(b0, mid) = get_nth_ancestor(b1, mid)
                     THEN search[<<lo, mid>>]
                     ELSE search[<<mid + 1, hi>>]
    IN  search[<<1, height>>]

(* Archive::last_common_ancestor, 0 for None *)
last_common_ancestor(block0, block1) ==
    LET h0 == block_hash_to_height[block0]
        h1 == block_hash_to_height[block1]
        h  == IF h0 < h1 THEN h0 ELSE h1
        b0 == get_nth_ancestor(block0, h0 - h)
        b1 == get_nth_ancestor(block1, h1 - h)
    IN  IF b0 = b1 THEN b0
        ELSE IF get_nth_ancestor(b0, h) # get_nth_ancestor(b1, h) THEN 0
        ELSE CommonAncestorSearch(b0, b1, h)

(* ancestor_headers: the block, its parent, ... the genesis block *)
ancestors(b0) ==
    LET up[b \in Blocks] ==
            IF headers[b] = 0 THEN <<b>> ELSE <<b>> \o up[headers[b]]
    IN  up[b0]

(* everything the iterator AncestorsRev yields, batch after batch *)
AncestorsRev(b, start_height) ==
    LET end == block_hash_to_height[b]
        batches[start \in Nat] ==
            IF start > end THEN <<>>
            ELSE LET diff   == end - start
                     offset == IF diff < MAX_BATCH_SIZE - 1 THEN diff
                               ELSE MAX_BATCH_SIZE - 1
                     first  == get_nth_ancestor(b, diff - offset)
                     batch  == Reverse(SubSeq(ancestors(first), 1, offset + 1))
                 IN  batch \o batches[start + offset + 1]
    IN  batches[start_height]

(* Archive::get_block_locator *)
get_block_locator(b) ==
    (IF headers[b] = 0 THEN <<>> ELSE <<headers[b]>>) \o exponential_ancestors[b]

---------------------------------------------------------------------------
(* Properties.  The reference is the walk over parents one at a time. *)

AncestorSet(b) == ToSet(ancestors(b))

(* get_nth_ancestor: the jumps through the exponential index reach exactly  *)
(* the block that n steps over parents reach, and report NoAncestor just    *)
(* beyond the genesis block; no jump reads past the end of the index.       *)
NthAncestorExact ==
    \A b \in Blocks :
        /\ \A n \in 0 .. block_hash_to_height[b] :
               get_nth_ancestor(b, n) = ancestors(b)[n + 1]
        /\ get_nth_ancestor(b, block_hash_to_height[b] + 1) = NoAncestor

(* last_common_ancestor: the binary search, for blocks of any two heights,  *)
(* finds the highest block that is an ancestor of both, and None exactly    *)
(* when the blocks descend from different genesis blocks.                   *)
LastCommonAncestorExact ==
    \A b0, b1 \in Blocks :
        LET common == AncestorSet(b0) \cap AncestorSet(b1)
            found  == last_common_ancestor(b0, b1)
        IN  IF common = {} THEN found = 0
            ELSE /\ found \in common
                 /\ \A c \in common : block_hash_to_height[c] <= block_hash_to_height[found]

(* is_descendant decides ancestry. *)
DescendantExact ==
    \A a, d \in Blocks : is_descendant(a, d) <=> a \in AncestorSet(d)

(* AncestorsRev: "the walk reads each block one time", oldest first, from    *)
(* the start height to the block itself, whatever the batch boundaries.      *)
RevExact ==
    \A b \in Blocks, start \in 0 .. MaxBlocks :
        AncestorsRev(b, start) = Reverse(SubSeq(ancestors(b), 1, block_hash_to_height[b] + 1 - start))

(* A header sync that starts from the locator of the tip sends again at most *)
(* as many known headers as the reorganisation undoes: the locator holds an  *)
(* ancestor at or above twice the depth of the fork, unless the doubled      *)
(* depth is beyond the genesis block, from which the answer then starts.     *)
LocatorSpansFork ==
    \A tip, end \in Blocks :
        LET fork == last_common_ancestor(tip, end)
            depth == block_hash_to_height[tip] - block_hash_to_height[fork]
            known == AncestorSet(end) \cap ToSet(get_block_locator(tip))
        IN  (fork # 0 /\ depth > 0 /\ 2 * depth <= block_hash_to_height[tip]) =>
                \E start \in known :
                    block_hash_to_height[tip] - block_hash_to_height[start] < 2 * depth

(* The exponential index, and every search on it, gives what a walk over     *)
(* parents gives, and the locator made of it spans any fork.                 *)
SearchesExact ==
    /\ NthAncestorExact /\ LastCommonAncestorExact /\ DescendantExact /\ RevExact
    /\ LocatorSpansFork
=============================================================================
