--------------------------- MODULE NodeSyncProofs ---------------------------
(***************************************************************************)
(* Proofs about the node's two tasks, its archive and its index of side    *)
(* tips, for every mainchain, every sidechain on it and every environment. *)
(*                                                                         *)
(* First the loops of the archive, then the paths that they go along, the  *)
(* type invariant, the archive's verifications (which are exact: see       *)
(* BmmInv), the chain of the state tip, and the index of side tips.        *)
(***************************************************************************)
EXTENDS NodeSync, ChainsProofs, SequenceTheorems

-----------------------------------------------------------------------------
(* The loops of the archive.                                                *)

(* A table of bmm results.                                                  *)
Results == [SideBlocks \X MainBlocks -> {"none", "Verified", "Failed"}]

(* The results of put_header are results.                                   *)
LEMMA PutHeaderType ==
    ASSUME NEW r \in Results, NEW s \in SideBlocks
    PROVE  put_header(r, s) \in Results
  BY DEF Results, put_header, BmmResult

PutHeaders == INSTANCE LoopTheorems WITH op <- put_header, Good <- LAMBDA x : x \in Results

(* put_header for each block of a path in turn: connect_tip_ for the blocks *)
(* of a reorganisation.                                                     *)
LEMMA FoldPutHeader ==
    ASSUME NEW path \in Seq(SideBlocks), NEW r \in Results
    PROVE  \E w \in [0..Len(path) -> Results] :
              /\ w[0] = r
              /\ \A i \in 1..Len(path) : w[i] = put_header(w[i - 1], path[i])
              /\ FoldLeft(put_header, r, path) = w[Len(path)]
<1>1. Len(path) \in Nat /\ DOMAIN path = 1..Len(path)
  OBVIOUS
<1>2. PutHeaders!Keeps(Len(path), path)
  BY PutHeaderType DEF PutHeaders!Keeps
<1>3. PICK w : PutHeaders!Passes(w, Len(path), r, path) /\ \A i \in 0..Len(path) : w[i] \in Results
  BY <1>1, <1>2, PutHeaders!FoldLeftRuns
<1>4. FoldLeft(put_header, r, path) = PutHeaders!Fold(r, path)
  BY Zenon DEF PutHeaders!Fold, FoldLeft, MapThenFoldSet, Max, PutHeaders!Largest
<1> QED
  BY <1>3, <1>4 DEF PutHeaders!Passes

-----------------------------------------------------------------------------
(* Paths: the blocks of a chain above one of its blocks, oldest first.      *)

(* A block has one ancestor at each height below its own.                   *)
LEMMA Levels ==
    ASSUME NEW B, NEW Root, NEW prev, NEW f,
           Tree(B, Root, prev), AncestorsOf(f, B, Root, prev)
    PROVE  /\ \A b \in B : Cardinality(f[b]) \in Nat \ {0}
           /\ \A b \in B : Cardinality(f[b])
                  = IF prev[b] = Root THEN 1 ELSE Cardinality(f[prev[b]]) + 1
           /\ \A b \in B : \A h \in 1..Cardinality(f[b]) :
                  \E x \in f[b] : Cardinality(f[x]) = h
           /\ \A b \in B : \A x, y \in f[b] : Cardinality(f[x]) = Cardinality(f[y]) => x = y
<1>1. /\ \A b \in B : prev[b] = Root => f[b] = {b}
      /\ \A b \in B : prev[b] # Root => prev[b] \in B /\ f[b] = {b} \cup f[prev[b]]
      /\ \A b \in B : b \in f[b] /\ f[b] \subseteq B /\ IsFiniteSet(f[b])
      /\ \A c \in B : \A a, b \in f[c] : a \in f[b] \/ b \in f[a]
      /\ \A b \in B : prev[b] # Root => b \notin f[prev[b]]
  BY Ancestry
<1>2. ASSUME NEW b \in B PROVE Cardinality(f[b]) \in Nat \ {0}
  <2>1. IsFiniteSet(f[b]) /\ f[b] # {}
    BY <1>1
  <2> QED
    BY <2>1, FS_CardinalityType, FS_EmptySet
<1>3. ASSUME NEW b \in B
      PROVE  Cardinality(f[b]) = IF prev[b] = Root THEN 1 ELSE Cardinality(f[prev[b]]) + 1
  <2>1. CASE prev[b] = Root
    BY <1>1, <2>1, FS_Singleton
  <2>2. CASE prev[b] # Root
    <3>1. prev[b] \in B /\ f[b] = f[prev[b]] \cup {b} /\ b \notin f[prev[b]]
          /\ IsFiniteSet(f[prev[b]])
      BY <1>1, <2>2
    <3> QED
      BY <2>2, <3>1, FS_AddElement
  <2> QED
    BY <2>1, <2>2
<1> DEFINE G == {b \in B : \A h \in 1..Cardinality(f[b]) : \E x \in f[b] : Cardinality(f[x]) = h}
<1>4. ASSUME NEW b \in B, prev[b] # Root => prev[b] \in G PROVE b \in G
  <2> SUFFICES ASSUME NEW h \in 1..Cardinality(f[b])
               PROVE  \E x \in f[b] : Cardinality(f[x]) = h
    OBVIOUS
  <2>1. CASE h = Cardinality(f[b])
    BY <1>1, <2>1
  <2>2. CASE h # Cardinality(f[b])
    <3>1. prev[b] # Root /\ h \in 1..Cardinality(f[prev[b]])
      <4>1. h < Cardinality(f[b]) /\ h >= 1 /\ h \in Nat
        BY <1>2, <2>2
      <4>2. prev[b] # Root
        BY <1>3, <4>1
      <4>3. Cardinality(f[b]) = Cardinality(f[prev[b]]) + 1 /\ Cardinality(f[prev[b]]) \in Nat
        BY <1>1, <1>2, <1>3, <4>2
      <4> QED
        BY <4>1, <4>2, <4>3
    <3>2. PICK x \in f[prev[b]] : Cardinality(f[x]) = h
      BY <1>4, <3>1
    <3> QED
      BY <1>1, <3>1, <3>2
  <2> QED
    BY <2>1, <2>2
<1>5. G = B
  <2>1. G \in SUBSET B /\ \A b \in B : (prev[b] # Root => prev[b] \in G) => b \in G
    BY <1>4
  <2> HIDE DEF G
  <2> QED
    BY <2>1, TreeInduction
<1>6. ASSUME NEW b \in B, NEW x \in f[b], NEW y \in f[b], Cardinality(f[x]) = Cardinality(f[y])
      PROVE  x = y
  <2> SUFFICES ASSUME x # y PROVE FALSE
    OBVIOUS
  <2>1. x \in B /\ y \in B /\ (x \in f[y] \/ y \in f[x])
    BY <1>1
  <2>2. Cardinality(f[x]) < Cardinality(f[y]) \/ Cardinality(f[y]) < Cardinality(f[x])
    BY <2>1, AncestorsFewer
  <2> QED
    BY <1>2, <1>6, <2>1, <2>2
<1> QED
  BY <1>2, <1>3, <1>5, <1>6

(* the chain up to a block, and its part above an ancestor                  *)
ChainTo(f, Root, b) == IF b = Root THEN {} ELSE f[b]

(* The blocks above a on the chain to b, by height: MainPath and SidePath.  *)
Path(f, h, Root, a, b) ==
    [i \in 1 .. Cardinality(ChainTo(f, Root, b)) - Cardinality(ChainTo(f, Root, a)) |->
        CHOOSE x \in ChainTo(f, Root, b) :
            h[x] = Cardinality(ChainTo(f, Root, a)) + i - 1]

(* A path runs from the child of a to b, each block the child of the last.  *)
PathFacts(p, f, B, Root, prev, a, b) ==
    /\ p \in Seq(B)
    /\ \A i \in 1..Len(p) : p[i] \in B
    /\ \A i \in 1..Len(p) : prev[p[i]] = IF i = 1 THEN a ELSE p[i - 1]
    /\ Len(p) = 0 <=> a = b
    /\ Len(p) > 0 => p[Len(p)] = b
    /\ \A x : (\E i \in 1..Len(p) : p[i] = x)
                  <=> x \in ChainTo(f, Root, b) \ ChainTo(f, Root, a)
    /\ ChainTo(f, Root, a) \subseteq ChainTo(f, Root, b)

(* The path to a block from an ancestor, or from before the first block.    *)
LEMMA Paths ==
    ASSUME NEW B, NEW Root, NEW prev, NEW f,
           Tree(B, Root, prev), AncestorsOf(f, B, Root, prev),
           NEW h, h = [x \in B |-> Cardinality(f[x]) - 1],
           NEW b \in B \cup {Root}, NEW a \in ChainTo(f, Root, b) \cup {Root}
    PROVE  PathFacts(Path(f, h, Root, a, b), f, B, Root, prev, a, b)
<1> DEFINE cb == ChainTo(f, Root, b)
           ca == ChainTo(f, Root, a)
           na == Cardinality(ca)
           nb == Cardinality(cb)
           n == nb - na
           p == Path(f, h, Root, a, b)
<1>1. /\ \A x \in B : prev[x] = Root => f[x] = {x}
      /\ \A x \in B : prev[x] # Root => prev[x] \in B /\ f[x] = {x} \cup f[prev[x]]
      /\ \A x \in B : x \in f[x] /\ f[x] \subseteq B /\ IsFiniteSet(f[x])
      /\ \A x \in B : \A y \in f[x] : f[y] \subseteq f[x]
      /\ \A c \in B : \A x, y \in f[c] : x \in f[y] \/ y \in f[x]
      /\ \A x \in B : prev[x] # Root => x \notin f[prev[x]]
  BY Ancestry
<1>2. /\ \A x \in B : Cardinality(f[x]) \in Nat \ {0}
      /\ \A x \in B : Cardinality(f[x])
             = IF prev[x] = Root THEN 1 ELSE Cardinality(f[prev[x]]) + 1
      /\ \A x \in B : \A k \in 1..Cardinality(f[x]) : \E y \in f[x] : Cardinality(f[y]) = k
      /\ \A c \in B : \A x, y \in f[c] : Cardinality(f[x]) = Cardinality(f[y]) => x = y
  BY Levels
<1>3. Root \notin B /\ Cardinality({}) = 0
  BY FS_EmptySet DEF Tree
<1>4. a \in B \cup {Root} /\ ca \subseteq cb /\ cb \subseteq B
  BY <1>1, <1>3 DEF ChainTo
<1>5. na \in Nat /\ nb \in Nat /\ na <= nb /\ (na = nb <=> a = b) /\ (a = Root <=> na = 0)
      /\ (b = Root <=> nb = 0)
  <2>1. CASE b = Root
    BY <1>3, <2>1 DEF ChainTo
  <2>2. CASE b # Root /\ a = Root
    BY <1>2, <1>3, <2>2 DEF ChainTo
  <2>3. CASE b # Root /\ a # Root
    <3>1. b \in B /\ a \in B /\ a \in f[b] /\ ca = f[a] /\ cb = f[b]
      BY <1>4, <2>3 DEF ChainTo
    <3>2. a # b => na < nb
      BY <3>1, AncestorsFewer
    <3> QED
      BY <1>2, <2>3, <3>1, <3>2
  <2> QED
    BY <2>1, <2>2, <2>3
<1>6. n \in Nat /\ p = [i \in 1..n |-> CHOOSE x \in cb : h[x] = na + i - 1]
  BY <1>5 DEF Path
<1>7. p \in [1..n -> B] /\ \A i \in 1..n : p[i] \in cb /\ Cardinality(f[p[i]]) = na + i
  <2> SUFFICES ASSUME NEW i \in 1..n
               PROVE  p[i] \in cb /\ Cardinality(f[p[i]]) = na + i
    BY <1>4, <1>6
  <2>1. b \in B /\ cb = f[b] /\ na + i \in 1..nb
    BY <1>5, <1>6 DEF ChainTo
  <2>2. PICK x \in cb : Cardinality(f[x]) = na + i
    BY <1>2, <2>1
  <2>3. h[x] = na + i - 1
    <3>1. x \in B /\ na \in Nat /\ i \in Nat
      BY <1>4, <1>5, <1>6
    <3> HIDE DEF na
    <3> QED
      BY <2>2, <3>1
  <2>4. p[i] \in cb /\ Cardinality(f[p[i]]) - 1 = na + i - 1
    <3>1. p[i] \in cb /\ h[p[i]] = na + i - 1
      BY <1>6, <2>2, <2>3
    <3> QED
      BY <1>4, <3>1
  <2>5. Cardinality(f[p[i]]) \in Nat
    BY <1>2, <1>4, <2>4
  <2>6. na \in Nat /\ i \in Nat
    BY <1>5, <1>6
  <2> HIDE DEF na, p
  <2> QED
    BY <2>4, <2>5, <2>6
<1> HIDE DEF p
<1>8. p \in Seq(B) /\ Len(p) = n
  <2>1. n \in Nat /\ p \in [1..n -> B]
    BY <1>6, <1>7
  <2> HIDE DEF n
  <2> QED
    BY <2>1
<1>9. \A x \in cb \ ca : \E i \in 1..n : p[i] = x
  <2> SUFFICES ASSUME NEW x \in cb \ ca PROVE \E i \in 1..n : p[i] = x
    OBVIOUS
  <2>1. b \in B /\ cb = f[b] /\ x \in B /\ x \in f[x]
    BY <1>1, <1>4 DEF ChainTo
  <2>2. Cardinality(f[x]) <= nb
    BY <1>2, <2>1, AncestorsFewer
  <2>3. Cardinality(f[x]) > na
    <3>1. CASE a = Root
      BY <1>2, <1>5, <2>1, <3>1
    <3>2. CASE a # Root
      <4>1. a \in B /\ a \in f[b] /\ ca = f[a] /\ x # a /\ x \notin f[a]
        BY <1>1, <1>4, <2>1, <3>2 DEF ChainTo
      <4>2. a \in f[x]
        BY <1>1, <2>1, <4>1
      <4> QED
        BY <2>1, <4>1, <4>2, AncestorsFewer
    <3> QED
      BY <3>1, <3>2
  <2>4. Cardinality(f[x]) - na \in 1..n
    BY <1>2, <1>5, <2>1, <2>2, <2>3
  <2>5. Cardinality(f[p[Cardinality(f[x]) - na]]) = Cardinality(f[x])
    BY <1>2, <1>5, <1>7, <2>1, <2>4
  <2>6. p[Cardinality(f[x]) - na] = x
    BY <1>2, <1>7, <2>1, <2>4, <2>5
  <2> QED
    BY <2>4, <2>6
<1>10. \A i \in 1..n : p[i] \in cb \ ca
  <2> SUFFICES ASSUME NEW i \in 1..n, p[i] \in ca PROVE FALSE
    BY <1>7
  <2>1. a \in B /\ ca = f[a] /\ p[i] \in f[a]
    BY <1>4 DEF ChainTo
  <2>2. Cardinality(f[p[i]]) <= Cardinality(f[a])
    <3>1. p[i] # a => Cardinality(f[p[i]]) < Cardinality(f[a])
      BY <2>1, AncestorsFewer
    <3>2. p[i] \in B
      BY <1>7
    <3> QED
      BY <1>2, <2>1, <3>1, <3>2
  <2> QED
    BY <1>5, <1>7, <2>1, <2>2
<1>11. ASSUME NEW i \in 1..n PROVE prev[p[i]] = IF i = 1 THEN a ELSE p[i - 1]
  <2>1. b \in B /\ cb = f[b] /\ p[i] \in B /\ p[i] \in f[b] /\ p[i] \notin ca
    BY <1>4, <1>5, <1>7, <1>10 DEF ChainTo
  <2>2. CASE prev[p[i]] = Root
    <3>1. na + i = 1
      BY <1>2, <1>7, <2>1, <2>2
    <3>2. i = 1 /\ na = 0
      BY <1>5, <3>1
    <3> QED
      BY <1>5, <2>2, <3>2
  <2>3. CASE prev[p[i]] # Root
    <3>1. prev[p[i]] \in B /\ prev[p[i]] \in f[p[i]] /\ f[p[i]] \subseteq f[b]
      BY <1>1, <2>1, <2>3
    <3>2. Cardinality(f[prev[p[i]]]) = na + i - 1
      <4>1. Cardinality(f[p[i]]) = Cardinality(f[prev[p[i]]]) + 1
        BY <1>2, <2>1, <2>3
      <4>2. Cardinality(f[p[i]]) = na + i
        BY <1>7
      <4>3. Cardinality(f[prev[p[i]]]) \in Nat /\ na \in Nat /\ i \in Nat
        BY <1>2, <1>5, <1>6, <3>1
      <4> HIDE DEF na
      <4> QED
        BY <4>1, <4>2, <4>3
    <3>3. CASE i = 1
      <4>1. Cardinality(f[prev[p[i]]]) = na /\ na # 0
        BY <1>2, <1>5, <3>1, <3>2, <3>3
      <4>2. a \in B /\ ca = f[a] /\ a \in f[b]
        BY <1>4, <1>5, <2>1, <4>1 DEF ChainTo
      <4> QED
        BY <1>2, <2>1, <3>1, <3>3, <4>1, <4>2
    <3>4. CASE i # 1
      <4>1. i - 1 \in 1..n
        BY <1>6, <3>4
      <4>2. Cardinality(f[p[i - 1]]) = na + i - 1 /\ p[i - 1] \in f[b]
        BY <1>5, <1>6, <1>7, <2>1, <4>1
      <4> QED
        BY <1>2, <2>1, <3>1, <3>2, <3>4, <4>2
    <3> QED
      BY <3>3, <3>4
  <2> QED
    BY <2>2, <2>3
<1>12. n > 0 => p[n] = b
  <2> SUFFICES ASSUME n > 0 PROVE p[n] = b
    OBVIOUS
  <2>1. b \in B /\ cb = f[b] /\ n \in 1..n /\ b \in f[b]
    BY <1>1, <1>5, <1>6 DEF ChainTo
  <2>2. p[n] \in f[b] /\ Cardinality(f[p[n]]) = na + n /\ na + n = nb
    BY <1>5, <1>7, <2>1
  <2> QED
    BY <1>2, <2>1, <2>2
<1>13. n = 0 <=> a = b
  BY <1>5
<1>14. \A i \in 1..n : p[i] \in B
  BY <1>7
<1>15. \A x : (\E i \in 1..n : p[i] = x) <=> x \in cb \ ca
  <2> HIDE DEF n, cb, ca
  <2> QED
    BY <1>9, <1>10
<1>16. PathFacts(p, f, B, Root, prev, a, b)
  <2> HIDE DEF n
  <2> QED
    BY <1>4, <1>8, <1>11, <1>12, <1>13, <1>14, <1>15 DEF PathFacts
<1> QED
  BY <1>16 DEF p


(* The paths of the sidechain.                                              *)
LEMMA SidePaths ==
    ASSUME NEW s \in SideBlocks \cup {None}, NEW a \in SideSet(s) \cup {None}
    PROVE  PathFacts(SidePath(a, s), Ancestors, SideBlocks, None, prev_side, a, s)
<1>1. SidePath(a, s) = Path(Ancestors, Height, None, a, s)
  BY DEF SidePath, SideSet, Path, ChainTo
<1>2. Height = [x \in SideBlocks |-> Cardinality(Ancestors[x]) - 1]
  BY DEF Height
<1>3. a \in ChainTo(Ancestors, None, s) \cup {None}
  BY DEF SideSet, ChainTo
<1> QED
  BY <1>1, <1>2, <1>3, BothTrees, Paths

(* The paths of the mainchain.                                              *)
LEMMA MainPaths ==
    ASSUME NEW m \in MainBlocks \cup {Zero}, NEW a \in MainSet(m) \cup {Zero}
    PROVE  PathFacts(MainPath(a, m), MainAncestors, MainBlocks, Zero, main_prev, a, m)
<1>1. MainPath(a, m) = Path(MainAncestors, MainHeight, Zero, a, m)
  BY DEF MainPath, MainSet, Path, ChainTo
<1>2. MainHeight = [x \in MainBlocks |-> Cardinality(MainAncestors[x]) - 1]
  BY DEF MainHeight
<1>3. a \in ChainTo(MainAncestors, Zero, m) \cup {Zero}
  BY DEF MainSet, ChainTo
<1> QED
  BY <1>1, <1>2, <1>3, BothTrees, Paths

(* The fork of two chains is the last block of both, or None.               *)
LEMMA CommonAncestor ==
    ASSUME NEW s \in SideBlocks, NEW t \in SideBlocks
    PROVE  \/ LastCommonAncestor(s, t) = None
           \/ LastCommonAncestor(s, t) \in Ancestors[s] \cap Ancestors[t]
<1> DEFINE common == Ancestors[s] \cap Ancestors[t]
           K == {Height[b] : b \in common}
<1>1. CASE common = {}
  BY <1>1 DEF LastCommonAncestor
<1>2. CASE common # {}
  <2>1. \A b \in common : b \in SideBlocks /\ Height[b] \in 0..Height[s]
    BY SideAncestry, Heights
  <2>2. K # {} /\ K \subseteq 0..Height[s] /\ Height[s] \in Nat
    BY <1>2, <2>1, Heights
  <2>3. PICK h \in K : \A g \in K : g <= h
    <3> HIDE DEF K
    <3> QED
      BY <2>2, Loop!GreatestBelow
  <2>4. PICK a \in common : h = Height[a]
    BY <2>3
  <2>5. \A b \in common : Height[b] <= Height[a]
    BY <2>3, <2>4
  <2> QED
    BY <1>2, <2>5 DEF LastCommonAncestor
<1> QED
  BY <1>1, <1>2

-----------------------------------------------------------------------------
(* The other loops.                                                         *)

(* put_main_block_info and the loop over the missing infos.                 *)
LEMMA PutInfoType ==
    ASSUME NEW r \in Results, NEW m \in MainBlocks
    PROVE  put_main_block_info(r, m) \in Results /\ put_missing_info(r, m) \in Results
  BY ChainsAssumption DEF Results, put_main_block_info, put_missing_info, BmmResult

PutInfos == INSTANCE LoopTheorems WITH op <- put_missing_info, Good <- LAMBDA x : x \in Results

(* request_ancestor_infos: put_main_block_info for each missing info.        *)
LEMMA FoldPutInfo ==
    ASSUME NEW path \in Seq(MainBlocks), NEW r \in Results
    PROVE  \E w \in [0..Len(path) -> Results] :
              /\ w[0] = r
              /\ \A i \in 1..Len(path) : w[i] = put_missing_info(w[i - 1], path[i])
              /\ FoldLeft(put_missing_info, r, path) = w[Len(path)]
<1>1. Len(path) \in Nat /\ DOMAIN path = 1..Len(path)
  OBVIOUS
<1>2. PutInfos!Keeps(Len(path), path)
  BY PutInfoType DEF PutInfos!Keeps
<1>3. PICK w : PutInfos!Passes(w, Len(path), r, path) /\ \A i \in 0..Len(path) : w[i] \in Results
  BY <1>1, <1>2, PutInfos!FoldLeftRuns
<1>4. FoldLeft(put_missing_info, r, path) = PutInfos!Fold(r, path)
  BY Zenon DEF PutInfos!Fold, FoldLeft, MapThenFoldSet, Max, PutInfos!Largest
<1> QED
  BY <1>3, <1>4 DEF PutInfos!Passes

(* The state of the loop over the headers of an answer.                     *)
Storing == [headers : SUBSET SideBlocks, results : Results, stop : BOOLEAN, ok : BOOLEAN]

(* StoreHeader takes the loop from such a state to another one.             *)
LEMMA StoreHeaderType ==
    ASSUME NEW r \in Storing, NEW s \in SideBlocks
    PROVE  StoreHeader(r, s) \in Storing
<1>1. put_header(r.results, s) \in Results
  BY PutHeaderType DEF Storing
<1> QED
  BY <1>1 DEF Storing, StoreHeader

StoreHeaders == INSTANCE LoopTheorems WITH op <- StoreHeader, Good <- LAMBDA x : x \in Storing

(* store_headers: the headers of an answer, one by one.                      *)
LEMMA FoldStoreHeader ==
    ASSUME NEW path \in Seq(SideBlocks), NEW r \in Storing
    PROVE  \E w \in [0..Len(path) -> Storing] :
              /\ w[0] = r
              /\ \A i \in 1..Len(path) : w[i] = StoreHeader(w[i - 1], path[i])
              /\ FoldLeft(StoreHeader, r, path) = w[Len(path)]
<1>1. Len(path) \in Nat /\ DOMAIN path = 1..Len(path)
  OBVIOUS
<1>2. StoreHeaders!Keeps(Len(path), path)
  BY StoreHeaderType DEF StoreHeaders!Keeps
<1>3. PICK w : StoreHeaders!Passes(w, Len(path), r, path) /\ \A i \in 0..Len(path) : w[i] \in Storing
  BY <1>1, <1>2, StoreHeaders!FoldLeftRuns
<1>4. FoldLeft(StoreHeader, r, path) = StoreHeaders!Fold(r, path)
  BY Zenon DEF StoreHeaders!Fold, FoldLeft, MapThenFoldSet, Max, StoreHeaders!Largest
<1> QED
  BY <1>3, <1>4 DEF StoreHeaders!Passes

(* The tables of the side tips, as the operations on them pass them on.     *)
SideTipsType ==
    [tip : MainBlocks \cup {Zero}, tips : [SideBlocks -> MainBlocks \cup {None}],
     ordered : SUBSET Tips, ok : BOOLEAN]

(* The operations on the side tips keep the types of the tables.            *)
LEMMA ConnectType ==
    ASSUME NEW st \in SideTipsType, NEW m \in MainBlocks, NEW r \in Results
    PROVE  connect_mainchain_tip(st, m, r) \in SideTipsType
<1> DEFINE s == bmm_commitment[m]
           c == connect_sidechain_tip(st, s, m)
<1>1. s # None => c \in SideTipsType
  <2> SUFFICES ASSUME s # None PROVE c \in SideTipsType
    OBVIOUS
  <2>1. s \in SideBlocks /\ Tip(s, m) \in Tips
    BY ChainsAssumption DEF Tip, Tips
  <2> HIDE DEF s
  <2> QED
    BY <2>1 DEF SideTipsType, connect_sidechain_tip
<1>2. \A x \in SideTipsType : [x EXCEPT !.tip = m] \in SideTipsType
                              /\ [x EXCEPT !.ok = FALSE] \in SideTipsType
  BY DEF SideTipsType
<1> HIDE DEF s, c
<1> QED
  BY <1>1, <1>2 DEF connect_mainchain_tip, s, c

(* connect_known_tip returns side tips.                                     *)
LEMMA ConnectKnownType ==
    ASSUME NEW st \in SideTipsType, NEW m \in MainBlocks, bmm_results \in Results
    PROVE  connect_known_tip(st, m) \in SideTipsType
  BY ConnectType DEF connect_known_tip

(* disconnect_mainchain_tip returns side tips.                              *)
LEMMA DisconnectType ==
    ASSUME NEW st \in SideTipsType, NEW m \in MainBlocks
    PROVE  disconnect_mainchain_tip(st, m) \in SideTipsType
<1>1. main_prev[m] \in MainBlocks \cup {Zero}
  BY ChainsAssumption
<1> QED
  BY <1>1 DEF SideTipsType, disconnect_mainchain_tip

(* A stored body connects stored headers that are BMM-verified on the active *)
(* chain.                                                                    *)
LEMMA Connected ==
    ASSUME headers \subseteq SideBlocks,
           NEW st, NEW s, NEW x \in ConnectedByBody(st, s)
    PROVE  /\ x \in SideBlocks /\ x \in headers
           /\ s \in Ancestors[x]
           /\ ParentIsTip(st, s)
           /\ ActiveVerifications(st, x) # {}
           /\ x = s \/ bodies[x] # "none"
           /\ \A y \in Ancestors[x] :
                  s \in Ancestors[y] /\ y \in headers => y \in ConnectedByBody(st, s)
<1>1. x \in headers /\ IsDescendant(s, x) /\ ParentIsTip(st, s)
  BY DEF ConnectedByBody
<1>2. x \in Ancestors[x] /\ \A y \in Ancestors[x] : Ancestors[y] \subseteq Ancestors[x]
  BY <1>1, SideAncestry
<1>3. \A y \in Ancestors[x] : IsDescendant(s, y) =>
           ActiveVerifications(st, y) # {} /\ (y = s \/ bodies[y] # "none")
  BY DEF ConnectedByBody
<1>4. ASSUME NEW y \in Ancestors[x], s \in Ancestors[y], y \in headers
      PROVE  y \in ConnectedByBody(st, s)
  BY <1>1, <1>2, <1>3, <1>4 DEF ConnectedByBody, IsDescendant
<1> QED
  BY <1>1, <1>2, <1>3, <1>4 DEF IsDescendant

(* put_body returns side tips: what a body connects has a verification.     *)
LEMMA PutBodyType ==
    ASSUME headers \subseteq SideBlocks, NEW st \in SideTipsType, NEW s \in SideBlocks
    PROVE  put_body(st, s) \in SideTipsType
<1> DEFINE main(x) == CHOOSE m \in ActiveVerifications(st, x) : TRUE
           new == {x \in ConnectedByBody(st, s) : st.tips[x] = None}
<1>1. ASSUME NEW x \in new PROVE x \in SideBlocks /\ main(x) \in MainBlocks
  <2>1. x \in SideBlocks /\ ActiveVerifications(st, x) # {}
    BY Connected
  <2>2. main(x) \in ActiveVerifications(st, x)
    BY <2>1
  <2> QED
    BY <2>1, <2>2 DEF ActiveVerifications, VerifiedAt
<1>2. \A x \in new : Tip(x, main(x)) \in Tips
  BY <1>1 DEF Tip, Tips
<1>3. put_body(st, s) =
         [st EXCEPT !.tips = [x \in SideBlocks |-> IF x \in new THEN main(x) ELSE @[x]],
                    !.ordered = @ \cup {Tip(x, main(x)) : x \in new}]
  BY DEF put_body
<1>4. [x \in SideBlocks |-> IF x \in new THEN main(x) ELSE st.tips[x]]
          \in [SideBlocks -> MainBlocks \cup {None}]
  <2> HIDE DEF main, new
  <2> QED
    BY <1>1 DEF SideTipsType
<1>5. st.ordered \cup {Tip(x, main(x)) : x \in new} \in SUBSET Tips
  <2> HIDE DEF main, new
  <2> QED
    BY <1>2 DEF SideTipsType
<1> HIDE DEF main, new
<1> QED
  BY <1>3, <1>4, <1>5 DEF SideTipsType

(* delete_body returns side tips.                                           *)
LEMMA DeleteBodyType ==
    ASSUME NEW st \in SideTipsType, NEW s \in SideBlocks
    PROVE  delete_body(st, s) \in SideTipsType
  BY DEF SideTipsType, delete_body

PutBodies == INSTANCE LoopTheorems WITH op <- put_body, Good <- LAMBDA x : x \in SideTipsType

(* reorg_to_tip: put_body for each block that is connected.                  *)
LEMMA FoldPutBody ==
    ASSUME NEW path \in Seq(SideBlocks), NEW r \in SideTipsType, headers \subseteq SideBlocks
    PROVE  \E w \in [0..Len(path) -> SideTipsType] :
              /\ w[0] = r
              /\ \A i \in 1..Len(path) : w[i] = put_body(w[i - 1], path[i])
              /\ FoldLeft(put_body, r, path) = w[Len(path)]
<1>1. Len(path) \in Nat /\ DOMAIN path = 1..Len(path)
  OBVIOUS
<1>2. PutBodies!Keeps(Len(path), path)
  BY PutBodyType DEF PutBodies!Keeps
<1>3. PICK w : PutBodies!Passes(w, Len(path), r, path) /\ \A i \in 0..Len(path) : w[i] \in SideTipsType
  BY <1>1, <1>2, PutBodies!FoldLeftRuns
<1>4. FoldLeft(put_body, r, path) = PutBodies!Fold(r, path)
  BY Zenon DEF PutBodies!Fold, FoldLeft, MapThenFoldSet, Max, PutBodies!Largest
<1> QED
  BY <1>3, <1>4 DEF PutBodies!Passes

DisconnectTips == INSTANCE LoopTheorems WITH op <- disconnect_mainchain_tip, Good <- LAMBDA x : x \in SideTipsType

(* sync_side_tips_to_tip: the blocks to disconnect, newest first.            *)
LEMMA FoldDisconnect ==
    ASSUME NEW path \in Seq(MainBlocks), NEW r \in SideTipsType
    PROVE  \E w \in [0..Len(path) -> SideTipsType] :
              /\ w[0] = r
              /\ \A i \in 1..Len(path) : w[i] = disconnect_mainchain_tip(w[i - 1], path[i])
              /\ FoldLeft(disconnect_mainchain_tip, r, path) = w[Len(path)]
<1>1. Len(path) \in Nat /\ DOMAIN path = 1..Len(path)
  OBVIOUS
<1>2. DisconnectTips!Keeps(Len(path), path)
  BY DisconnectType DEF DisconnectTips!Keeps
<1>3. PICK w : DisconnectTips!Passes(w, Len(path), r, path) /\ \A i \in 0..Len(path) : w[i] \in SideTipsType
  BY <1>1, <1>2, DisconnectTips!FoldLeftRuns
<1>4. FoldLeft(disconnect_mainchain_tip, r, path) = DisconnectTips!Fold(r, path)
  BY Zenon DEF DisconnectTips!Fold, FoldLeft, MapThenFoldSet, Max, DisconnectTips!Largest
<1> QED
  BY <1>3, <1>4 DEF DisconnectTips!Passes

ConnectTips == INSTANCE LoopTheorems WITH op <- connect_known_tip, Good <- LAMBDA x : x \in SideTipsType

(* sync_side_tips_to_tip: the blocks to connect, oldest first.               *)
LEMMA FoldConnect ==
    ASSUME NEW path \in Seq(MainBlocks), NEW r \in SideTipsType, bmm_results \in Results
    PROVE  \E w \in [0..Len(path) -> SideTipsType] :
              /\ w[0] = r
              /\ \A i \in 1..Len(path) : w[i] = connect_known_tip(w[i - 1], path[i])
              /\ FoldLeft(connect_known_tip, r, path) = w[Len(path)]
<1>1. Len(path) \in Nat /\ DOMAIN path = 1..Len(path)
  OBVIOUS
<1>2. ConnectTips!Keeps(Len(path), path)
  BY ConnectKnownType DEF ConnectTips!Keeps
<1>3. PICK w : ConnectTips!Passes(w, Len(path), r, path) /\ \A i \in 0..Len(path) : w[i] \in SideTipsType
  BY <1>1, <1>2, ConnectTips!FoldLeftRuns
<1>4. FoldLeft(connect_known_tip, r, path) = ConnectTips!Fold(r, path)
  BY Zenon DEF ConnectTips!Fold, FoldLeft, MapThenFoldSet, Max, ConnectTips!Largest
<1> QED
  BY <1>3, <1>4 DEF ConnectTips!Passes

-----------------------------------------------------------------------------
(* Type correctness.                                                        *)

(* The mainchain task syncs to a tip of the mainchain node.                 *)
MainTaskInv == main_task.pc = "syncing" => main_task.tip \in MainBlocks

(* The events of the stream and the states of the two tasks.                *)
StreamEvents == [type : {"Connect", "Disconnect"}, block : MainBlocks]
MainTasks == [pc : {"stopped", "syncing", "streaming"}, tip : MainBlocks \cup {Zero}]
NetTasks ==
    [pc : {"idle", "dead", "headers", "mainchain reorg", "peer reorg",
           "mainchain discard", "peer discard"},
     tip : Tips \cup {NoTip}, block : SideBlocks \cup {None}, gone : BOOLEAN]
NewTips == [tip : Tips, gone : BOOLEAN]

(* What the net task is in the middle of, between two transactions: the     *)
(* tip of an answer or of a reorganisation, and the block the answer starts *)
(* after, or whose body is to be discarded.                                 *)
NetTaskOK(n) ==
    /\ n \in NetTasks
    /\ n.pc \in {"headers", "mainchain reorg", "peer reorg"} => n.tip \in Tips
    /\ n.pc = "headers" => n.block \in SideSet(n.tip.block_hash) \cup {None}
    /\ n.pc \in {"mainchain discard", "peer discard"} => n.block \in SideBlocks

(* The type invariant by the parts of the state that operations change.     *)
ArchiveType ==
    /\ main_infos \subseteq MainBlocks
    /\ headers \subseteq SideBlocks
    /\ bodies \in [SideBlocks -> {"none", "good", "bad"}]
    /\ invalid_blocks \subseteq SideBlocks
    /\ bmm_results \in Results
IndexType ==
    /\ mainchain_tip \in MainBlocks \cup {Zero}
    /\ sidechain_tips \in [SideBlocks -> MainBlocks \cup {None}]
    /\ ordered_sidechain_tips \subseteq Tips
ChainType == state_tip \in SideBlocks \cup {None} /\ submit \in Tips \cup {NoTip}
MainchainType ==
    /\ enforcer_tip \in MainBlocks
    /\ env \in Environment
    /\ stream \in Seq(StreamEvents)
    /\ main_task \in MainTasks
    /\ MainTaskInv
NetTaskType == NetTaskOK(net_task)
QueueType ==
    /\ block_events \in 0..MaxEvents
    /\ new_tips \in Seq(NewTips) /\ Len(new_tips) <= MaxTips
    /\ descendant_tips \subseteq SideBlocks \X Tips

(* The type invariant with what the tasks keep between transactions.        *)
TypeInv ==
    ArchiveType /\ IndexType /\ ChainType /\ MainchainType /\ NetTaskType /\ QueueType

(* Together they are the type invariant.                                    *)
LEMMA TypeParts ==
    TypeInv => TypeOK
  BY DEF TypeInv, TypeOK, ArchiveType, IndexType, ChainType, MainchainType, NetTaskType,
         QueueType, Results, StreamEvents, MainTasks, NetTasks, NetTaskOK, NewTips

(* The events of a path.                                                    *)
LEMMA EventsType ==
    ASSUME NEW path \in Seq(MainBlocks), NEW type \in {"Connect", "Disconnect"}
    PROVE  /\ Events(type, path) \in Seq(StreamEvents)
           /\ Events(type, Reverse(path)) \in Seq(StreamEvents)
           /\ Reverse(path) \in Seq(MainBlocks)
<1>1. Reverse(path) \in Seq(MainBlocks)
  <2>1. Len(path) \in Nat /\ \A i \in 1..Len(path) : (Len(path) - i) + 1 \in 1..Len(path)
    OBVIOUS
  <2>2. Reverse(path) \in [1..Len(path) -> MainBlocks]
    BY <2>1 DEF Reverse
  <2> QED
    BY <2>1, <2>2
<1>2. ASSUME NEW q \in Seq(MainBlocks) PROVE Events(type, q) \in Seq(StreamEvents)
  <2>1. Len(q) \in Nat /\ DOMAIN q = 1..Len(q)
    OBVIOUS
  <2>2. Events(type, q) \in [1..Len(q) -> StreamEvents]
    BY <2>1 DEF Events, StreamEvents
  <2> QED
    BY <2>1, <2>2
<1> QED
  BY <1>1, <1>2

(* The operations on the side tips start from the tables.                   *)
LEMMA StoredType ==
    ASSUME TypeInv
    PROVE  SideTips \in SideTipsType /\ bmm_results \in Results /\ headers \subseteq SideBlocks
  BY DEF TypeInv, ArchiveType, IndexType, SideTips, SideTipsType

(* What an operation on the side tips stores is of the tables' types.       *)
LEMMA StoreType ==
    ASSUME NEW st \in SideTipsType, Store(st)
    PROVE  IndexType'
  BY DEF Store, SideTipsType, IndexType

(* The path of sync_side_tips_to_tip, back to the fork and up to its target.*)
LEMMA SyncPaths ==
    ASSUME TypeInv, NEW target \in MainBlocks,
           NEW fork, fork = IF mainchain_tip = Zero THEN Zero
                            ELSE LastCommonMainAncestor(target, mainchain_tip)
    PROVE  /\ fork \in MainSet(target) \cup {Zero}
           /\ fork \in MainSet(mainchain_tip) \cup {Zero}
           /\ MainPath(fork, target) \in Seq(MainBlocks)
           /\ MainPath(fork, mainchain_tip) \in Seq(MainBlocks)
<1>1. fork \in MainSet(target) \cup {Zero} /\ fork \in MainSet(mainchain_tip) \cup {Zero}
  <2>1. CASE mainchain_tip = Zero
    BY <2>1
  <2>2. CASE mainchain_tip # Zero
    <3>1. target \in MainBlocks /\ mainchain_tip \in MainBlocks
      BY <2>2 DEF TypeInv, IndexType
    <3>2. fork \in MainAncestors[target] \cap MainAncestors[mainchain_tip]
      BY <2>2, <3>1, CommonMainAncestor
    <3> QED
      BY <2>2, <3>1, <3>2, ChainsAssumption DEF MainSet
  <2> QED
    BY <2>1, <2>2
<1>2. mainchain_tip \in MainBlocks \cup {Zero}
  BY DEF TypeInv, IndexType
<1> QED
  BY <1>1, <1>2, MainPaths DEF PathFacts

(* A sync of the index to a mainchain tip returns side tips.                *)
LEMMA SyncedType ==
    ASSUME TypeInv, NEW target \in MainBlocks
    PROVE  SyncedSideTips(target) \in SideTipsType
<1> DEFINE fork == IF mainchain_tip = Zero THEN Zero
                   ELSE LastCommonMainAncestor(target, mainchain_tip)
           down == Reverse(MainPath(fork, mainchain_tip))
           up == MainPath(fork, target)
           undone == FoldLeft(disconnect_mainchain_tip, SideTips, down)
<1>1. down \in Seq(MainBlocks) /\ up \in Seq(MainBlocks)
  BY SyncPaths, EventsType
<1>2. SideTips \in SideTipsType /\ bmm_results \in Results
  BY StoredType
<1>3. undone \in SideTipsType
  <2> HIDE DEF down
  <2>1. PICK w \in [0..Len(down) -> SideTipsType] : undone = w[Len(down)]
    BY <1>1, <1>2, FoldDisconnect
  <2> QED
    BY <1>1, <2>1
<1>4. FoldLeft(connect_known_tip, undone, up) \in SideTipsType
  <2> HIDE DEF up, undone
  <2>1. PICK w \in [0..Len(up) -> SideTipsType] :
            FoldLeft(connect_known_tip, undone, up) = w[Len(up)]
    BY <1>1, <1>2, <1>3, FoldConnect
  <2> QED
    BY <1>1, <2>1
<1>5. SyncedSideTips(target) = FoldLeft(connect_known_tip, undone, up)
  BY DEF SyncedSideTips
<1> QED
  BY <1>4, <1>5

(* Initially the state is well typed.                                       *)
LEMMA TypeInit ==
    Init => TypeInv
<1> SUFFICES ASSUME Init PROVE TypeInv
  OBVIOUS
<1>1. env \in Environment /\ enforcer_tip \in MainBlocks
  BY NodeSyncAssumption DEF Init, Environment
<1>2. MaxEvents \in Nat /\ MaxTips \in Nat
  BY NodeSyncAssumption
<1> QED
  BY <1>1, <1>2 DEF Init, TypeInv, ArchiveType, IndexType, ChainType, MainchainType, NetTaskType,
                    QueueType, NetTaskOK, MainTaskInv, Results, MainTasks, NetTasks, Stopped,
                    Idle, AtRest

(* The net task at rest, and in the middle of something.                    *)
LEMMA NetTaskForms ==
    /\ NetTaskOK(Idle) /\ NetTaskOK(Dead)
    /\ \A t \in Tips :
           NetTaskOK([pc |-> "mainchain reorg", tip |-> t, block |-> None, gone |-> FALSE])
    /\ \A t \in Tips, g \in BOOLEAN :
           NetTaskOK([pc |-> "peer reorg", tip |-> t, block |-> None, gone |-> g])
    /\ \A t \in Tips, s \in SideBlocks, g \in BOOLEAN :
           /\ NetTaskOK([pc |-> "peer discard", tip |-> t, block |-> s, gone |-> g])
           /\ NetTaskOK([pc |-> "mainchain discard", tip |-> t, block |-> s, gone |-> g])
    /\ \A t \in Tips, s \in SideBlocks \cup {None} : s \in SideSet(t.block_hash) \cup {None} =>
           NetTaskOK([pc |-> "headers", tip |-> t, block |-> s, gone |-> FALSE])
<1>1. NetTaskOK(Idle) /\ NetTaskOK(Dead)
  BY DEF NetTaskOK, NetTasks, Idle, Dead, AtRest
<1>2. \A t \in Tips :
          NetTaskOK([pc |-> "mainchain reorg", tip |-> t, block |-> None, gone |-> FALSE])
  BY DEF NetTaskOK, NetTasks
<1>3. \A t \in Tips, g \in BOOLEAN :
          NetTaskOK([pc |-> "peer reorg", tip |-> t, block |-> None, gone |-> g])
  BY DEF NetTaskOK, NetTasks
<1>4. \A t \in Tips, s \in SideBlocks, g \in BOOLEAN :
          /\ NetTaskOK([pc |-> "peer discard", tip |-> t, block |-> s, gone |-> g])
          /\ NetTaskOK([pc |-> "mainchain discard", tip |-> t, block |-> s, gone |-> g])
  BY DEF NetTaskOK, NetTasks
<1>5. \A t \in Tips, s \in SideBlocks \cup {None} : s \in SideSet(t.block_hash) \cup {None} =>
         NetTaskOK([pc |-> "headers", tip |-> t, block |-> s, gone |-> FALSE])
  BY DEF NetTaskOK, NetTasks
<1> QED
  BY <1>1, <1>2, <1>3, <1>4, <1>5

(* Once it has answered, or could not, it is at rest.                       *)
LEMMA AnsweredForms ==
    /\ \A g : Answered(g) = Idle \/ Answered(g) = Dead
    /\ AfterStateError = Idle \/ AfterStateError = Dead
  BY DEF Answered, AfterStateError

(* What an action leaves alone keeps its type.                              *)
LEMMA Unchanged ==
    /\ ArchiveType /\ UNCHANGED archive_vars => ArchiveType'
    /\ IndexType /\ UNCHANGED side_tips_vars => IndexType'
    /\ ChainType /\ UNCHANGED <<state_tip, submit>> => ChainType'
    /\ MainchainType /\ UNCHANGED main_vars => MainchainType'
    /\ NetTaskType /\ UNCHANGED net_task => NetTaskType'
    /\ QueueType /\ UNCHANGED <<block_events, new_tips, descendant_tips>> => QueueType'
<1>1. ArchiveType /\ UNCHANGED archive_vars => ArchiveType'
  BY DEF ArchiveType, archive_vars
<1>2. IndexType /\ UNCHANGED side_tips_vars => IndexType'
  BY DEF IndexType, side_tips_vars
<1>3. ChainType /\ UNCHANGED <<state_tip, submit>> => ChainType'
  BY DEF ChainType
<1>4. MainchainType /\ UNCHANGED main_vars => MainchainType'
  BY DEF MainchainType, MainTaskInv, main_vars, enforcer_vars
<1>5. NetTaskType /\ UNCHANGED net_task => NetTaskType'
  BY DEF NetTaskType, NetTaskOK
<1>6. QueueType /\ UNCHANGED <<block_events, new_tips, descendant_tips>> => QueueType'
  BY DEF QueueType
<1> QED
  BY <1>1, <1>2, <1>3, <1>4, <1>5, <1>6

(* Mining a block announces a block.                                        *)
LEMMA TypeMine ==
    ASSUME TypeInv, NEW m \in MainBlocks, MineMainBlock(m)
    PROVE  TypeInv'
<1>1. stream' \in Seq(StreamEvents)
  <2>1. stream \in Seq(StreamEvents) /\ <<m>> \in Seq(MainBlocks)
    BY DEF TypeInv, MainchainType
  <2>2. Events("Connect", <<m>>) \in Seq(StreamEvents)
    BY <2>1, EventsType
  <2>3. stream' = stream \/ stream' = stream \o Events("Connect", <<m>>)
    BY DEF MineMainBlock, Emit
  <2>4. stream \o Events("Connect", <<m>>) \in Seq(StreamEvents)
    BY <2>1, <2>2, ConcatProperties
  <2> QED
    BY <2>1, <2>3, <2>4
<1>2. MainchainType'
  BY <1>1 DEF MineMainBlock, TypeInv, MainchainType, MainTaskInv
<1> QED
  BY <1>2, Unchanged DEF MineMainBlock, TypeInv, net_vars

(* A reorganisation announces the blocks of the two branches.               *)
LEMMA TypeReorg ==
    ASSUME TypeInv, NEW m \in MainBlocks, NEW announced \in BOOLEAN, ReorgMainchain(m, announced)
    PROVE  TypeInv'
<1> DEFINE fork == LastCommonMainAncestor(enforcer_tip, m)
           left == Events("Disconnect", Reverse(MainPath(fork, enforcer_tip)))
           right == Events("Connect", MainPath(fork, m))
<1>1. enforcer_tip \in MainBlocks /\ stream \in Seq(StreamEvents) /\ env \in Environment
  BY DEF TypeInv, MainchainType
<1>2. fork \in MainSet(enforcer_tip) /\ fork \in MainSet(m)
  BY <1>1, CommonMainAncestor, ChainsAssumption DEF MainSet
<1>3. MainPath(fork, enforcer_tip) \in Seq(MainBlocks) /\ MainPath(fork, m) \in Seq(MainBlocks)
  BY <1>1, <1>2, MainPaths DEF PathFacts
<1>4. left \in Seq(StreamEvents) /\ right \in Seq(StreamEvents)
  BY <1>3, EventsType
<1>5. \/ stream' = stream
      \/ stream' = stream \o (left \o right)
      \/ stream' = stream \o (<<>> \o right)
  BY DEF ReorgMainchain, Emit
<1> HIDE DEF left, right
<1>6. stream' \in Seq(StreamEvents)
  <2>1. <<>> \in Seq(StreamEvents)
    OBVIOUS
  <2>2. left \o right \in Seq(StreamEvents) /\ <<>> \o right \in Seq(StreamEvents)
    BY <1>4, <2>1
  <2>3. stream \o (left \o right) \in Seq(StreamEvents)
    BY <1>1, <2>2, ConcatProperties
  <2>4. stream \o (<<>> \o right) \in Seq(StreamEvents)
    BY <1>1, <2>2, ConcatProperties
  <2> QED
    BY <1>1, <1>5, <2>3, <2>4
<1>7. env' \in Environment
  <2>1. env.reorgs \in Nat /\ env.reorgs > 0
    BY <1>1 DEF ReorgMainchain, Environment
  <2>2. env.reorgs - 1 \in Nat
    BY <2>1
  <2>3. env' = [env EXCEPT !.reorgs = env.reorgs - 1]
    BY DEF ReorgMainchain
  <2> QED
    BY <1>1, <2>2, <2>3 DEF Environment
<1>8. MainchainType'
  BY <1>6, <1>7 DEF ReorgMainchain, TypeInv, MainchainType, MainTaskInv
<1> QED
  BY <1>8, Unchanged DEF ReorgMainchain, TypeInv, net_vars

(* The infos of a block and its ancestors.                                  *)
LEMMA RequestType ==
    ASSUME TypeInv, NEW m \in MainBlocks, request_ancestor_infos(m),
           UNCHANGED <<headers, bodies, invalid_blocks>>
    PROVE  ArchiveType'
<1> DEFINE path == MainPath(Zero, m)
<1>1. path \in Seq(MainBlocks)
  BY MainPaths DEF PathFacts
<1>2. bmm_results' \in Results
  <2> HIDE DEF path
  <2>1. PICK w \in [0..Len(path) -> Results] :
            FoldLeft(put_missing_info, bmm_results, path) = w[Len(path)]
    BY <1>1, StoredType, FoldPutInfo
  <2>2. Len(path) \in 0..Len(path)
    BY <1>1
  <2> QED
    BY <2>1, <2>2 DEF request_ancestor_infos, path
<1>3. main_infos' \subseteq MainBlocks
  BY MainAncestry, ChainsAssumption DEF request_ancestor_infos, MainSet, TypeInv, ArchiveType
<1> QED
  BY <1>2, <1>3 DEF TypeInv, ArchiveType

(* A subscription starts a sync to the tip, its ancestors requested.        *)
LEMMA TypeSubscribe ==
    ASSUME TypeInv, subscribe_block_events
    PROVE  TypeInv'
<1>1. enforcer_tip \in MainBlocks
  BY DEF TypeInv, MainchainType
<1>2. ArchiveType'
  BY <1>1, RequestType DEF subscribe_block_events
<1>3. MainchainType'
  BY <1>1 DEF subscribe_block_events, TypeInv, MainchainType, MainTaskInv, MainTasks, enforcer_vars
<1> QED
  BY <1>2, <1>3, Unchanged DEF subscribe_block_events, TypeInv, net_vars

(* The sync stores side tips and notifies the net task.                     *)
LEMMA TypeSync ==
    ASSUME TypeInv, sync_side_tips_to_tip
    PROVE  TypeInv'
<1> DEFINE target == main_task.tip
           A == (MainSet(target) \ MainSet(mainchain_tip))
                \cup (MainSet(mainchain_tip) \ MainSet(target))
<1>1. target \in MainBlocks /\ mainchain_tip \in MainBlocks \cup {Zero}
  BY DEF sync_side_tips_to_tip, TypeInv, MainchainType, MainTaskInv, IndexType
<1>2. IndexType'
  <2>1. SyncedSideTips(target) \in SideTipsType
    BY <1>1, SyncedType
  <2>2. Store(SyncedSideTips(target)) \/ UNCHANGED side_tips_vars
    BY DEF sync_side_tips_to_tip
  <2> QED
    BY <2>1, <2>2, StoreType, Unchanged DEF TypeInv
<1>3. block_events' \in 0..MaxEvents
  <2>1. A \subseteq MainBlocks
    BY <1>1, MainAncestry DEF MainSet
  <2>2. Cardinality(A) \in Nat
    BY <2>1, NodeSyncAssumption, FS_Subset, FS_CardinalityType
  <2>3. block_events' = block_events \/ SendBlockEvents(Cardinality(A))
    BY DEF sync_side_tips_to_tip
  <2>4. MaxEvents \in Nat /\ block_events \in 0..MaxEvents
    BY NodeSyncAssumption DEF TypeInv, QueueType
  <2> HIDE DEF A
  <2> QED
    BY <2>2, <2>3, <2>4 DEF SendBlockEvents
<1>4. MainchainType'
  <2>1. \/ main_task' = [pc |-> "streaming", tip |-> Zero] /\ stream' = stream
        \/ main_task' = Stopped /\ stream' = <<>>
    BY DEF sync_side_tips_to_tip, Stop
  <2>2. main_task' \in MainTasks /\ MainTaskInv'
    BY <2>1 DEF MainTaskInv, MainTasks, Stopped
  <2>3. stream' \in Seq(StreamEvents)
    <3>1. <<>> \in Seq(StreamEvents) /\ stream \in Seq(StreamEvents)
      BY DEF TypeInv, MainchainType
    <3> QED
      BY <2>1, <3>1
  <2> QED
    BY <2>2, <2>3 DEF sync_side_tips_to_tip, TypeInv, MainchainType, enforcer_vars
<1>5. QueueType'
  BY <1>3 DEF sync_side_tips_to_tip, TypeInv, QueueType
<1> QED
  BY <1>2, <1>4, <1>5, Unchanged DEF sync_side_tips_to_tip, TypeInv

(* An event moves the index by its block or stops the task.                 *)
LEMMA TypeBlockEvent ==
    ASSUME TypeInv, handle_block_event
    PROVE  TypeInv'
<1> DEFINE event == Head(stream)
           m == event.block
           results == IF event.type = "Connect" THEN put_main_block_info(bmm_results, m)
                      ELSE bmm_results
           st == IF event.type = "Connect" THEN connect_mainchain_tip(SideTips, m, results)
                 ELSE disconnect_mainchain_tip(SideTips, m)
<1>1. stream # <<>> /\ stream \in Seq(StreamEvents)
  BY DEF handle_block_event, TypeInv, MainchainType
<1>2. event \in StreamEvents /\ Tail(stream) \in Seq(StreamEvents)
  BY <1>1
<1>3. m \in MainBlocks
  BY <1>2 DEF StreamEvents
<1>4. results \in Results
  <2> HIDE DEF m, event
  <2> QED
    BY <1>3, StoredType, PutInfoType
<1>5. st \in SideTipsType
  <2> HIDE DEF m, event, results
  <2> QED
    BY <1>3, <1>4, StoredType, ConnectType, DisconnectType
<1>6. \/ Store(st) /\ main_infos' = main_infos \cup {m} /\ bmm_results' = results
         /\ SendBlockEvents(1) /\ stream' = Tail(stream) /\ main_task' = main_task
      \/ UNCHANGED <<side_tips_vars, main_infos, bmm_results, block_events>> /\ Stop
  BY DEF handle_block_event
<1>7. UNCHANGED <<headers, bodies, invalid_blocks, state_tip, enforcer_vars, net_task,
                  new_tips, descendant_tips, submit>>
  BY DEF handle_block_event
<1> HIDE DEF m, results, st, event
<1>8. IndexType'
  BY <1>5, <1>6, StoreType, Unchanged DEF TypeInv
<1>9. ArchiveType'
  BY <1>3, <1>4, <1>6, <1>7 DEF TypeInv, ArchiveType
<1>10. QueueType'
  <2>1. MaxEvents \in Nat /\ block_events \in 0..MaxEvents
    BY NodeSyncAssumption DEF TypeInv, QueueType
  <2>2. block_events' \in 0..MaxEvents
    BY <1>6, <2>1 DEF SendBlockEvents
  <2> QED
    BY <1>7, <2>2 DEF TypeInv, QueueType
<1>11. MainchainType'
  <2>1. \/ stream' = Tail(stream) /\ main_task' = main_task
        \/ stream' = <<>> /\ main_task' = Stopped
    BY <1>6 DEF Stop
  <2>2. main_task' \in MainTasks /\ MainTaskInv'
    BY <2>1 DEF TypeInv, MainchainType, MainTaskInv, MainTasks, Stopped
  <2>3. stream' \in Seq(StreamEvents)
    <3>1. <<>> \in Seq(StreamEvents)
      OBVIOUS
    <3> QED
      BY <1>2, <2>1, <3>1
  <2> QED
    BY <1>7, <2>2, <2>3 DEF TypeInv, MainchainType, enforcer_vars
<1> QED
  BY <1>7, <1>8, <1>9, <1>10, <1>11, Unchanged DEF TypeInv

(* A request adds the ancestors of a mainchain block.                       *)
LEMMA TypeRequest ==
    ASSUME TypeInv, NEW m \in MainBlocks, handle_request(m)
    PROVE  TypeInv'
<1>1. ArchiveType'
  BY RequestType DEF handle_request
<1> QED
  BY <1>1, Unchanged DEF handle_request, TypeInv, net_vars

(* A closed stream stops the mainchain task.                                *)
LEMMA TypeClose ==
    ASSUME TypeInv, StreamCloses
    PROVE  TypeInv'
<1>1. MainchainType'
  BY DEF StreamCloses, Stop, Stopped, TypeInv, MainchainType, MainTaskInv, MainTasks, enforcer_vars
<1> QED
  BY <1>1, Unchanged DEF StreamCloses, TypeInv, net_vars

(* A part of a chain has a highest block, and every set a lowest.           *)
LEMMA Extremes ==
    ASSUME NEW S, S # {}
    PROVE  /\ S \subseteq SideBlocks => Lowest(S) \in S /\ \A y \in S : Height[Lowest(S)] <= Height[y]
           /\ \A s \in SideBlocks : S \subseteq Ancestors[s] =>
                  \E x \in S : \A y \in S : Height[y] <= Height[x]
<1> DEFINE K == {Height[b] : b \in S}
<1>1. ASSUME S \subseteq SideBlocks
      PROVE  Lowest(S) \in S /\ \A y \in S : Height[Lowest(S)] <= Height[y]
  <2>1. K \subseteq Nat /\ K # {}
    BY <1>1, Heights
  <2>2. PICK h \in K : \A g \in K : h <= g
    <3> HIDE DEF K
    <3> QED
      BY <2>1, Loop!LeastNat
  <2>3. PICK x \in S : h = Height[x]
    BY <2>2
  <2>4. \A y \in S : Height[x] <= Height[y]
    BY <2>2, <2>3
  <2> QED
    BY <2>4 DEF Lowest
<1>2. ASSUME NEW s \in SideBlocks, S \subseteq Ancestors[s]
      PROVE  \E x \in S : \A y \in S : Height[y] <= Height[x]
  <2>1. \A b \in S : b \in SideBlocks /\ Height[b] \in 0..Height[s]
    BY <1>2, SideAncestry, Heights
  <2>2. K # {} /\ K \subseteq 0..Height[s] /\ Height[s] \in Nat
    BY <2>1, Heights
  <2>3. PICK h \in K : \A g \in K : g <= h
    <3> HIDE DEF K
    <3> QED
      BY <2>2, Loop!GreatestBelow
  <2>4. PICK x \in S : h = Height[x]
    BY <2>3
  <2> QED
    BY <2>3, <2>4
<1> QED
  BY <1>1, <1>2

(* the last block of the chain state that is a side tip                     *)
Kept ==
    LET tips == {x \in SideSet(state_tip) : sidechain_tips[x] # None}
    IN  IF tips = {} THEN None
        ELSE CHOOSE x \in tips : \A y \in tips : Height[y] <= Height[x]

(* It is on the chain of the state tip.                                     *)
LEMMA KeptOnChain ==
    ASSUME TypeInv
    PROVE  /\ Kept \in SideSet(state_tip) \cup {None}
           /\ Kept \in SideBlocks \cup {None}
           /\ SideSet(Kept) \subseteq SideSet(state_tip)
<1> DEFINE tips == {x \in SideSet(state_tip) : sidechain_tips[x] # None}
<1>1. state_tip \in SideBlocks \cup {None}
  BY DEF TypeInv, ChainType
<1>2. Kept \in SideSet(state_tip) \cup {None}
  <2>1. CASE tips = {}
    BY <2>1 DEF Kept
  <2>2. CASE tips # {}
    <3>1. state_tip \in SideBlocks /\ tips \subseteq Ancestors[state_tip]
      BY <1>1, <2>2 DEF SideSet
    <3>2. \E x \in tips : \A y \in tips : Height[y] <= Height[x]
      <4> HIDE DEF tips
      <4> QED
        BY <2>2, <3>1, Extremes
    <3>3. Kept = CHOOSE x \in tips : \A y \in tips : Height[y] <= Height[x]
      BY <2>2 DEF Kept
    <3>4. Kept \in tips
      <4> HIDE DEF tips
      <4> QED
        BY <3>2, <3>3
    <3> QED
      BY <3>4
  <2> QED
    BY <2>1, <2>2
<1> QED
  BY <1>1, <1>2, SideAncestry, ChainsAssumption DEF SideSet

(* A notification cuts the chain state back to a side tip and picks a tip.  *)
LEMMA TypeMainchainEvent ==
    ASSUME TypeInv, handle_mainchain_block_event
    PROVE  TypeInv'
<1>1. block_events > 0 /\ block_events' = block_events - 1
  BY DEF handle_mainchain_block_event
<1>2. \/ /\ state_tip' = Kept
         /\ \/ net_task' = Idle
            \/ \E t \in BestSideTips :
                   net_task' = [pc |-> "mainchain reorg", tip |-> t, block |-> None,
                                gone |-> FALSE]
      \/ state_tip' = state_tip /\ net_task' = Dead
  BY DEF handle_mainchain_block_event, Kept
<1>3. UNCHANGED <<archive_vars, side_tips_vars, main_vars, new_tips, descendant_tips, submit>>
  BY DEF handle_mainchain_block_event
<1>4. QueueType'
  <2>1. MaxEvents \in Nat /\ block_events \in 0..MaxEvents
    BY NodeSyncAssumption DEF TypeInv, QueueType
  <2>2. block_events' \in 0..MaxEvents
    BY <1>1, <2>1
  <2> QED
    BY <1>3, <2>2 DEF TypeInv, QueueType
<1>5. ChainType'
  BY <1>2, <1>3, KeptOnChain DEF TypeInv, ChainType
<1>6. BestSideTips \subseteq Tips
  BY DEF BestSideTips, TypeInv, IndexType
<1>7. NetTaskType'
  BY <1>2, <1>6, NetTaskForms DEF NetTaskType
<1> QED
  BY <1>3, <1>4, <1>5, <1>7, Unchanged DEF TypeInv

(* A tip of the queue is the next to reorganise to.                         *)
LEMMA TypeNewTip ==
    ASSUME TypeInv, new_tip_ready
    PROVE  TypeInv'
<1>1. new_tips \in Seq(NewTips) /\ new_tips # <<>> /\ Len(new_tips) <= MaxTips /\ MaxTips \in Nat
  BY NodeSyncAssumption DEF new_tip_ready, TypeInv, QueueType
<1>2. /\ Head(new_tips) \in NewTips /\ Tail(new_tips) \in Seq(NewTips)
      /\ Len(Tail(new_tips)) <= MaxTips
  BY <1>1
<1>3. QueueType'
  BY <1>2 DEF new_tip_ready, TypeInv, QueueType
<1>4. net_task' \in {Idle, Dead, [pc |-> "peer reorg", tip |-> Head(new_tips).tip, block |-> None,
                                  gone |-> Head(new_tips).gone]}
  BY AnsweredForms DEF new_tip_ready
<1>5. Head(new_tips).tip \in Tips /\ Head(new_tips).gone \in BOOLEAN
  BY <1>2 DEF NewTips
<1>6. NetTaskType'
  BY <1>4, <1>5, NetTaskForms DEF NetTaskType
<1> QED
  BY <1>3, <1>6, Unchanged DEF new_tip_ready, TypeInv

(* Discarding deletes one body.                                             *)
LEMMA TypeDiscard ==
    ASSUME TypeInv, discard_body
    PROVE  TypeInv'
<1> DEFINE s == net_task.block
<1>1. s \in SideBlocks
  BY DEF discard_body, TypeInv, NetTaskType, NetTaskOK
<1>2. \/ /\ bodies' = [bodies EXCEPT ![s] = "none"]
         /\ Store(delete_body(SideTips, s))
         /\ net_task' = AfterStateError
      \/ net_task' = Dead /\ UNCHANGED <<bodies, side_tips_vars>>
  BY DEF discard_body
<1>3. IndexType'
  <2>1. delete_body(SideTips, s) \in SideTipsType
    BY <1>1, StoredType, DeleteBodyType
  <2> QED
    BY <1>2, <2>1, StoreType, Unchanged DEF TypeInv
<1>4. ArchiveType'
  BY <1>1, <1>2 DEF discard_body, TypeInv, ArchiveType
<1>5. NetTaskType'
  BY <1>2, NetTaskForms, AnsweredForms DEF NetTaskType
<1> QED
  BY <1>3, <1>4, <1>5, Unchanged DEF discard_body, TypeInv

(* The headers to store start after an ancestor of the tip.                 *)
LEMMA TypeCheckHeaders ==
    ASSUME TypeInv, NEW t \in Tips, NEW start \in SideBlocks \cup {None}, check_headers(t, start)
    PROVE  TypeInv'
<1>1. net_task' \in {Dead, [pc |-> "headers", tip |-> t, block |-> start, gone |-> FALSE]}
  BY DEF check_headers
<1>2. start \in SideSet(t.block_hash) \cup {None}
  <2>1. t.block_hash \in SideBlocks /\ start \in SideSet(prev_side[t.block_hash]) \cup {None}
    BY DEF check_headers, Tips
  <2> QED
    BY <2>1, SideAncestry, ChainsAssumption DEF SideSet
<1>3. NetTaskType'
  BY <1>1, <1>2, NetTaskForms DEF NetTaskType
<1> QED
  BY <1>3, Unchanged DEF check_headers, TypeInv

(* Storing headers is a run of put_header over the path.                    *)
LEMMA TypeStoreHeaders ==
    ASSUME TypeInv, store_headers
    PROVE  TypeInv'
<1> DEFINE path == SidePath(net_task.block, net_task.tip.block_hash)
           acc == [headers |-> headers, results |-> bmm_results, stop |-> FALSE, ok |-> TRUE]
           stored == FoldLeft(StoreHeader, acc, path)
<1>1. path \in Seq(SideBlocks)
  <2>1. net_task.tip.block_hash \in SideBlocks
        /\ net_task.block \in SideSet(net_task.tip.block_hash) \cup {None}
    BY DEF store_headers, TypeInv, NetTaskType, NetTaskOK, Tips
  <2> QED
    BY <2>1, SidePaths DEF PathFacts
<1>2. acc \in Storing
  BY StoredType DEF Storing
<1>3. stored \in Storing
  <2> HIDE DEF path, acc
  <2>1. PICK w \in [0..Len(path) -> Storing] : stored = w[Len(path)]
    BY <1>1, <1>2, FoldStoreHeader
  <2>2. Len(path) \in 0..Len(path)
    BY <1>1
  <2> QED
    BY <2>1, <2>2
<1>4. \/ headers' = stored.headers /\ bmm_results' = stored.results /\ net_task' = Idle
      \/ net_task' = Dead /\ UNCHANGED <<headers, bmm_results>>
  BY DEF store_headers
<1> HIDE DEF stored
<1>5. ArchiveType'
  BY <1>3, <1>4 DEF store_headers, TypeInv, ArchiveType, Storing
<1>6. NetTaskType'
  BY <1>4, NetTaskForms DEF NetTaskType
<1> QED
  BY <1>5, <1>6, Unchanged DEF store_headers, TypeInv

(* The fork of the chain state and a new tip, and the path from it.         *)
LEMMA Forks ==
    ASSUME state_tip \in SideBlocks \cup {None}, NEW s \in SideBlocks
    PROVE  /\ ForkWith(s) \in SideSet(s) \cup {None}
           /\ ForkWith(s) \in SideSet(state_tip) \cup {None}
           /\ SidePath(ForkWith(s), s) \in Seq(SideBlocks)
           /\ ToSet(SidePath(ForkWith(s), s)) = SideSet(s) \ SideSet(ForkWith(s))
           /\ SideSet(ForkWith(s)) \subseteq SideSet(state_tip)
<1>1. ForkWith(s) \in SideSet(s) \cup {None} /\ ForkWith(s) \in SideSet(state_tip) \cup {None}
  BY CommonAncestor, ChainsAssumption DEF ForkWith, SideSet
<1> DEFINE p == SidePath(ForkWith(s), s)
<1>2. PathFacts(p, Ancestors, SideBlocks, None, prev_side, ForkWith(s), s)
  BY <1>1, SidePaths
<1>3. p \in Seq(SideBlocks)
  BY <1>2 DEF PathFacts
<1>4. \A x : (\E i \in 1..Len(p) : p[i] = x) <=> x \in SideSet(s) \ SideSet(ForkWith(s))
  BY <1>2 DEF PathFacts, ChainTo, SideSet
<1>5. ToSet(p) = SideSet(s) \ SideSet(ForkWith(s))
  <2> HIDE DEF p
  <2>1. DOMAIN p = 1..Len(p)
    BY <1>3
  <2>2. \A x : x \in ToSet(p) <=> \E i \in 1..Len(p) : p[i] = x
    BY <2>1 DEF ToSet
  <2> QED
    BY <1>4, <2>2
<1>6. SideSet(ForkWith(s)) \subseteq SideSet(state_tip)
  BY <1>1, SideAncestry, ChainsAssumption DEF SideSet
<1> QED
  BY <1>1, <1>3, <1>5, <1>6

(* What reorg_to_tip comes to: a block whose body is wrong is one it was to *)
(* connect, and it connects only stored blocks whose bodies are theirs.     *)
OutcomeOK(t, outcome) ==
    /\ \/ outcome \in {"kept", "done", "fatal", "undo failed"}
       \/ /\ outcome \in SideBlocks
          /\ outcome \in SideSet(t.block_hash) \ SideSet(ForkWith(t.block_hash))
          /\ bodies[outcome] = "bad"
    /\ outcome = "done" =>
           \A x \in SideSet(t.block_hash) \ SideSet(ForkWith(t.block_hash)) :
               x \in headers /\ bodies[x] \notin {"none", "bad"}

(* It does if every block can be undone.                                    *)
LEMMA Outcomes ==
    ASSUME TypeInv, NEW t \in Tips, NEW m
    PROVE  OutcomeOK(t, ReorgOutcome(t, m))
<1> DEFINE s == t.block_hash
           fork == ForkWith(s)
           path == ToSet(SidePath(fork, s))
           undone == SideSet(state_tip) \ SideSet(fork)
           missing(X) == {x \in X : x \notin headers \/ bodies[x] = "none"}
           damaged == {x \in undone : bodies[x] # "good"}
           bad == {x \in path : bodies[x] = "bad"}
           outcome == ReorgOutcome(t, m)
<1>1. s \in SideBlocks /\ state_tip \in SideBlocks \cup {None}
  BY DEF Tips, TypeInv, ChainType
<1>2. path = SideSet(s) \ SideSet(fork) /\ path \subseteq SideBlocks
  BY <1>1, Forks, SideAncestry DEF SideSet
<1>3. bad # {} => Lowest(bad) \in SideBlocks /\ Lowest(bad) \in path
                  /\ bodies[Lowest(bad)] = "bad"
  <2>1. bad \subseteq SideBlocks
    BY <1>2
  <2>2. bad # {} => Lowest(bad) \in bad
    <3> HIDE DEF bad
    <3> QED
      BY <2>1, Extremes
  <2>3. \A x \in bad : x \in SideBlocks /\ x \in path /\ bodies[x] = "bad"
    BY <2>1
  <2> HIDE DEF bad
  <2> QED
    BY <2>2, <2>3
<1>4. \/ outcome = "fatal" \/ outcome = "kept" \/ outcome = "undo failed"
      \/ missing(path) = {} /\ bad # {} /\ outcome = Lowest(bad)
      \/ missing(path) = {} /\ bad = {} /\ outcome = "done"
  BY DEF ReorgOutcome
<1>5. \A x \in SideBlocks : x \notin {"kept", "done", "fatal", "undo failed"}
  BY NodeSyncAssumption
<1>6. \A x \in path : missing(path) = {} /\ bad = {} =>
         x \in headers /\ bodies[x] \notin {"none", "bad"}
  OBVIOUS
<1> HIDE DEF outcome, path, bad, missing
<1>7. outcome \in {"kept", "done", "fatal", "undo failed"}
      \/ (outcome \in SideBlocks /\ outcome \in path /\ bodies[outcome] = "bad")
  <2>1. CASE bad # {} /\ outcome = Lowest(bad)
    BY <1>3, <2>1
  <2>2. CASE outcome \in {"kept", "done", "fatal", "undo failed"}
    BY <2>2
  <2> QED
    BY <1>4, <2>1, <2>2
<1>8. outcome = "done" => missing(path) = {} /\ bad = {}
  BY <1>3, <1>4, <1>5
<1>9. outcome = "done" => \A x \in path : x \in headers /\ bodies[x] \notin {"none", "bad"}
  BY <1>6, <1>8
<1> QED
  BY <1>2, <1>7, <1>9 DEF outcome, OutcomeOK

(* And if one cannot.                                                       *)
LEMMA ReorgOutcomes ==
    ASSUME TypeInv, reorg_to_tip
    PROVE  \E outcome : ReorgStep(net_task.tip, outcome) /\ OutcomeOK(net_task.tip, outcome)
<1>1. net_task.tip \in Tips
  BY DEF reorg_to_tip, Reorging, TypeInv, NetTaskType, NetTaskOK
<1>2. PICK m, outcome :
          /\ outcome \in {ReorgOutcome(net_task.tip, m)} \cup UndoErrors(net_task.tip, m)
          /\ ReorgStep(net_task.tip, outcome)
  BY DEF reorg_to_tip
<1>3. UndoErrors(net_task.tip, m) \subseteq {"undo failed", "fatal"}
  BY DEF UndoErrors
<1>4. CASE outcome = ReorgOutcome(net_task.tip, m)
  BY <1>1, <1>2, <1>4, Outcomes
<1>5. CASE outcome \in {"undo failed", "fatal"}
  BY <1>2, <1>5 DEF OutcomeOK
<1> QED
  BY <1>2, <1>3, <1>4, <1>5

(* The tip moves to the target, or stays and a body is to be discarded.     *)
LEMMA TypeReorgToTip ==
    ASSUME TypeInv, reorg_to_tip
    PROVE  TypeInv'
<1> DEFINE t == net_task.tip
           s == t.block_hash
           applied == SidePath(ForkWith(s), s)
<1>1. t \in Tips /\ s \in SideBlocks /\ state_tip \in SideBlocks \cup {None}
  <2>1. net_task.tip \in Tips
    BY DEF reorg_to_tip, Reorging, TypeInv, NetTaskType, NetTaskOK
  <2> QED
    BY <2>1 DEF Tips, TypeInv, ChainType
<1>2. PICK o : ReorgStep(t, o) /\ OutcomeOK(t, o)
  BY ReorgOutcomes
<1>3. applied \in Seq(SideBlocks)
  BY <1>1, Forks
<1>4. Len(applied) \in 0..Len(applied)
  BY <1>3
<1>5. FoldLeft(put_header, bmm_results, applied) \in Results
  <2> HIDE DEF applied
  <2>1. PICK w \in [0..Len(applied) -> Results] :
            FoldLeft(put_header, bmm_results, applied) = w[Len(applied)]
    BY <1>3, StoredType, FoldPutHeader
  <2> QED
    BY <1>4, <2>1
<1>6. FoldLeft(put_body, SideTips, applied) \in SideTipsType
  <2> HIDE DEF applied
  <2>1. PICK w \in [0..Len(applied) -> SideTipsType] :
            FoldLeft(put_body, SideTips, applied) = w[Len(applied)]
    BY <1>3, StoredType, FoldPutBody
  <2> QED
    BY <1>4, <2>1
<1>7. o \in {"kept", "done", "fatal", "undo failed"} \/ o \in SideBlocks
  BY <1>2 DEF OutcomeOK
<1>8. UNCHANGED <<main_infos, headers, bodies, invalid_blocks, main_vars, block_events,
                  new_tips, descendant_tips, submit>>
  BY DEF reorg_to_tip
<1>a. /\ state_tip' = s \/ state_tip' = state_tip
      /\ bmm_results' = FoldLeft(put_header, bmm_results, applied) \/ bmm_results' = bmm_results
      /\ Store(FoldLeft(put_body, SideTips, applied)) \/ UNCHANGED side_tips_vars
  BY <1>2 DEF ReorgStep
<1> HIDE DEF applied
<1>9. ArchiveType'
  BY <1>5, <1>8, <1>a DEF TypeInv, ArchiveType
<1>10. IndexType'
  BY <1>6, <1>a, StoreType, Unchanged DEF TypeInv
<1>11. ChainType'
  BY <1>1, <1>8, <1>a DEF TypeInv, ChainType
<1>12. NetTaskType'
  <2>1. \/ net_task' = Dead \/ net_task' = AfterStateError \/ net_task' = Answered(net_task.gone)
        \/ /\ o \in SideBlocks
           /\ net_task' = [pc |-> IF net_task.pc = "peer reorg"
                                  THEN "peer discard" ELSE "mainchain discard",
                           tip |-> t, block |-> o, gone |-> net_task.gone]
    BY <1>2, <1>7 DEF ReorgStep
  <2>2. net_task.gone \in BOOLEAN
    BY DEF TypeInv, NetTaskType, NetTaskOK, NetTasks
  <2> HIDE DEF t
  <2>3. CASE net_task.pc = "peer reorg"
    BY <1>1, <2>1, <2>2, <2>3, NetTaskForms, AnsweredForms DEF NetTaskType
  <2>4. CASE net_task.pc # "peer reorg"
    BY <1>1, <2>1, <2>2, <2>4, NetTaskForms, AnsweredForms DEF NetTaskType
  <2> QED
    BY <2>3, <2>4
<1> QED
  BY <1>8, <1>9, <1>10, <1>11, <1>12, Unchanged DEF TypeInv

(* The first missing body is the body of a block.                           *)
LEMMA MissingType ==
    ASSUME NEW stored, NEW a, NEW s \in SideBlocks
    PROVE  /\ EarliestMissing(stored, a, s) \in SideBlocks \cup {None}
           /\ EarliestMissing(stored, a, s) # None =>
                  stored[EarliestMissing(stored, a, s)] = "none"
<1> DEFINE missing == {x \in SideSet(s) \ SideSet(a) : stored[x] = "none"}
<1>1. missing \subseteq SideBlocks /\ \A x \in missing : stored[x] = "none"
  BY SideAncestry, ChainsAssumption DEF SideSet
<1>2. EarliestMissing(stored, a, s) = IF missing = {} THEN None ELSE Lowest(missing)
  BY DEF EarliestMissing
<1> HIDE DEF missing
<1>3. missing # {} => Lowest(missing) \in missing
  BY <1>1, Extremes
<1> QED
  BY <1>1, <1>2, <1>3

(* A verification is of a block, at a mainchain block.                      *)
LEMMA VerifiedType ==
    \A s : VerifiedAt(s) \subseteq MainBlocks /\ BestMainVerifications(s) \subseteq MainBlocks
  BY DEF VerifiedAt, BestMainVerifications

(* The tips handle_response tries next are tips.                            *)
LEMMA NextTipsType ==
    ASSUME NEW stored, NEW d \in Tips
    PROVE  NextTips(stored, d) \subseteq Tips
<1> DEFINE fork == IF state_tip = None THEN None ELSE LastCommonAncestor(d.block_hash, state_tip)
           missing == EarliestMissing(stored, fork, d.block_hash)
           next == IF missing = None THEN {d}
                   ELSE IF prev_side[missing] = None THEN {}
                   ELSE {Tip(prev_side[missing], m) : m \in BestMainVerifications(prev_side[missing])}
<1>1. d.block_hash \in SideBlocks
  BY DEF Tips
<1>2. missing \in SideBlocks \cup {None}
  <2> HIDE DEF fork
  <2> QED
    BY <1>1, MissingType
<1>3. NextTips(stored, d) \subseteq next
  BY DEF NextTips
<1> HIDE DEF missing
<1>4. next \subseteq Tips
  <2>1. missing # None /\ prev_side[missing] # None => prev_side[missing] \in SideBlocks
    BY <1>2, ChainsAssumption
  <2>2. \A x \in SideBlocks, m \in MainBlocks : Tip(x, m) \in Tips
    BY DEF Tip, Tips
  <2> QED
    BY <2>1, <2>2, VerifiedType
<1> HIDE DEF next
<1> QED
  BY <1>3, <1>4

(* There are finitely many tips.                                            *)
LEMMA TipsFinite ==
    IsFiniteSet(Tips)
<1> DEFINE P == SideBlocks \X MainBlocks
           f == [p \in P |-> [block_hash |-> p[1], main_block_hash |-> p[2]]]
<1>1. IsFiniteSet(P)
  BY NodeSyncAssumption, FS_Product
<1>2. f \in Surjection(P, Tips)
  <2>1. f \in [P -> Tips]
    BY DEF Tips
  <2>2. ASSUME NEW t \in Tips PROVE \E p \in P : f[p] = t
    <3>1. <<t.block_hash, t.main_block_hash>> \in P
      BY DEF Tips
    <3>2. f[<<t.block_hash, t.main_block_hash>>] = t
      BY <3>1 DEF Tips
    <3> QED
      BY <3>1, <3>2
  <2> QED
    BY <2>1, <2>2 DEF Surjection
<1> HIDE DEF f
<1> QED
  BY <1>1, <1>2, FS_Surjection

(* And of the items of the queue.                                           *)
LEMMA NewTipsFinite ==
    IsFiniteSet(NewTips)
<1> DEFINE P == Tips \X BOOLEAN
           f == [p \in P |-> [tip |-> p[1], gone |-> p[2]]]
<1>1. IsFiniteSet(P)
  <2>1. IsFiniteSet(BOOLEAN)
    <3>1. IsFiniteSet({TRUE}) /\ IsFiniteSet({FALSE})
      BY FS_Singleton
    <3>2. BOOLEAN = {TRUE} \cup {FALSE}
      OBVIOUS
    <3>3. IsFiniteSet({TRUE} \cup {FALSE})
      BY <3>1, FS_Union
    <3> QED
      BY <3>2, <3>3, Zenon
  <2> QED
    BY <2>1, TipsFinite, FS_Product
<1>2. f \in Surjection(P, NewTips)
  <2>1. f \in [P -> NewTips]
    BY DEF NewTips
  <2>2. ASSUME NEW t \in NewTips PROVE \E p \in P : f[p] = t
    <3>1. <<t.tip, t.gone>> \in P
      BY DEF NewTips
    <3>2. f[<<t.tip, t.gone>>] = t
      BY <3>1 DEF NewTips
    <3> QED
      BY <3>1, <3>2
  <2> QED
    BY <2>1, <2>2 DEF Surjection
<1> HIDE DEF f
<1> QED
  BY <1>1, <1>2, FS_Surjection

(* Tips queued in any order.                                                *)
LEMMA QueuedTips ==
    ASSUME NEW S, S \subseteq NewTips, NEW q \in SetToSeqs(S)
    PROVE  q \in Seq(NewTips) /\ Len(q) = Cardinality(S) /\ Cardinality(S) \in Nat
<1>1. Cardinality(S) \in Nat
  BY NewTipsFinite, FS_Subset, FS_CardinalityType
<1>2. q \in [1..Cardinality(S) -> S]
  BY DEF SetToSeqs
<1>3. q \in Seq(S) /\ Len(q) = Cardinality(S)
  BY <1>1, <1>2
<1>4. q \in [1..Cardinality(S) -> NewTips]
  BY <1>2
<1> QED
  BY <1>1, <1>3, <1>4

(* A body is stored, and the tips that waited for it are queued.            *)
LEMMA TypeReceiveBody ==
    ASSUME TypeInv, NEW s \in SideBlocks, NEW t \in Tips, NEW body \in {"good", "bad"},
           NEW fork \in SideBlocks \cup {None}, receive_body(s, t, body, fork)
    PROVE  TypeInv'
<1> DEFINE stored == [bodies EXCEPT ![s] = body]
           missing == EarliestMissing(stored, fork, s)
           waiting == descendant_tips
                          \cup (IF missing = None THEN {} ELSE {<<missing, t>>})
           woken == {p[2] : p \in {q \in waiting : q[1] = s}}
           first(d) == EarliestMissing(stored,
                                       IF state_tip = None THEN None
                                       ELSE LastCommonAncestor(d.block_hash, state_tip),
                                       d.block_hash)
           again == {<<first(d), d>> : d \in woken}
           extends == IF prev_side[s] = state_tip
                      THEN {NewTip(Tip(s, m), FALSE) : m \in {n \in VerifiedAt(s) :
                                                        IsMainDescendant(n, t.main_block_hash)}}
                      ELSE {}
           ready == {NewTip(u, FALSE) : u \in UNION {NextTips(stored, d) : d \in woken}}
<1>1. /\ \/ bodies' = stored /\ Store(put_body(SideTips, s))
         \/ UNCHANGED <<bodies, side_tips_vars>>
      /\ \/ /\ descendant_tips' = {p \in waiting : p[1] # s} \cup {p \in again : p[1] # None}
            /\ \E q \in SetToSeqs(extends), r \in SetToSeqs(ready) : new_tips' = new_tips \o q \o r
            /\ net_task' = Idle
         \/ net_task' = Dead /\ UNCHANGED <<descendant_tips, new_tips>>
      /\ Len(new_tips) + Cardinality(extends) + Cardinality(ready) <= MaxTips
      /\ UNCHANGED <<main_infos, headers, invalid_blocks, bmm_results, state_tip, main_vars,
                     block_events, submit>>
  BY DEF receive_body
<1>2. stored \in [SideBlocks -> {"none", "good", "bad"}]
  BY DEF TypeInv, ArchiveType
<1> HIDE DEF stored
<1>3. missing \in SideBlocks \cup {None}
  BY MissingType
<1> HIDE DEF missing
<1>4. waiting \subseteq SideBlocks \X Tips
  BY <1>3 DEF TypeInv, QueueType
<1> HIDE DEF waiting
<1>5. woken \subseteq Tips
  BY <1>4
<1> HIDE DEF woken
<1>6. \A d \in woken : first(d) \in SideBlocks \cup {None}
  <2>1. \A d \in woken : d.block_hash \in SideBlocks
    BY <1>5 DEF Tips
  <2> QED
    BY <2>1, MissingType
<1> HIDE DEF first
<1>7. {p \in again : p[1] # None} \subseteq SideBlocks \X Tips
  BY <1>5, <1>6
<1> HIDE DEF again
<1>a. \A u \in Tips : NewTip(u, FALSE) \in NewTips
  BY DEF NewTip, NewTips
<1>8. extends \subseteq NewTips
  <2>1. \A m \in VerifiedAt(s) : Tip(s, m) \in Tips
    BY VerifiedType DEF Tip, Tips
  <2> QED
    BY <1>a, <2>1
<1>9. ready \subseteq NewTips
  <2>1. UNION {NextTips(stored, d) : d \in woken} \subseteq Tips
    BY <1>5, NextTipsType
  <2> HIDE DEF woken
  <2> QED
    BY <1>a, <2>1
<1> HIDE DEF extends, ready
<1>10. IndexType'
  <2>1. put_body(SideTips, s) \in SideTipsType
    BY StoredType, PutBodyType
  <2> QED
    BY <1>1, <2>1, StoreType, Unchanged DEF TypeInv
<1>11. ArchiveType'
  BY <1>1, <1>2 DEF TypeInv, ArchiveType
<1>12. NetTaskType'
  BY <1>1, NetTaskForms DEF NetTaskType
<1>13. descendant_tips' \subseteq SideBlocks \X Tips
  BY <1>1, <1>4, <1>7 DEF TypeInv, QueueType
<1>14. new_tips' \in Seq(NewTips) /\ Len(new_tips') <= MaxTips
  <2>1. new_tips \in Seq(NewTips) /\ Len(new_tips) <= MaxTips
    BY DEF TypeInv, QueueType
  <2>2. CASE UNCHANGED new_tips
    BY <2>1, <2>2
  <2>3. CASE \E q \in SetToSeqs(extends), r \in SetToSeqs(ready) : new_tips' = new_tips \o q \o r
    <3>1. PICK q \in SetToSeqs(extends), r \in SetToSeqs(ready) : new_tips' = new_tips \o q \o r
      BY <2>3
    <3>2. q \in Seq(NewTips) /\ Len(q) = Cardinality(extends) /\ Cardinality(extends) \in Nat
      BY <1>8, QueuedTips
    <3>3. r \in Seq(NewTips) /\ Len(r) = Cardinality(ready) /\ Cardinality(ready) \in Nat
      BY <1>9, QueuedTips
    <3>4. new_tips \o q \in Seq(NewTips) /\ Len(new_tips \o q) = Len(new_tips) + Len(q)
      BY <2>1, <3>2, ConcatProperties
    <3>5. new_tips \o q \o r \in Seq(NewTips)
          /\ Len(new_tips \o q \o r) = Len(new_tips \o q) + Len(r)
      BY <3>3, <3>4, ConcatProperties
    <3> QED
      BY <1>1, <3>1, <3>2, <3>3, <3>4, <3>5
  <2> QED
    BY <1>1, <2>2, <2>3
<1>15. QueueType'
  BY <1>1, <1>13, <1>14 DEF TypeInv, QueueType
<1> QED
  BY <1>1, <1>10, <1>11, <1>12, <1>15, Unchanged DEF TypeInv

(* A tip sent to the net task.                                              *)
LEMMA SendType ==
    ASSUME TypeInv, NEW t \in Tips, NEW gone \in BOOLEAN, SendNewTip(t, gone),
           UNCHANGED <<block_events, descendant_tips>>
    PROVE  QueueType'
<1>1. new_tips \in Seq(NewTips) /\ Len(new_tips) <= MaxTips /\ MaxTips \in Nat
  BY NodeSyncAssumption DEF TypeInv, QueueType
<1>2. \/ new_tips' = new_tips
      \/ Len(new_tips) < MaxTips /\ new_tips' = Append(new_tips, NewTip(t, gone))
  BY DEF SendNewTip
<1>3. NewTip(t, gone) \in NewTips
  BY DEF NewTip, NewTips
<1>4. new_tips' \in Seq(NewTips) /\ Len(new_tips') <= MaxTips
  BY <1>1, <1>2, <1>3
<1> QED
  BY <1>4 DEF TypeInv, QueueType

(* A tip of a peer is queued.                                               *)
LEMMA TypePeerTip ==
    ASSUME TypeInv, NEW t \in Tips, peer_tip_ready(t)
    PROVE  TypeInv'
<1>1. QueueType'
  BY SendType DEF peer_tip_ready
<1> QED
  BY <1>1, Unchanged DEF peer_tip_ready, TypeInv

(* A submitted header is stored and its tip remembered.                     *)
LEMMA TypeSubmitHeader ==
    ASSUME TypeInv, NEW t \in Tips, submit_header(t.block_hash, t.main_block_hash)
    PROVE  TypeInv'
<1>1. t.block_hash \in SideBlocks /\ Tip(t.block_hash, t.main_block_hash) \in Tips
  BY DEF Tips, Tip
<1>2. put_header(bmm_results, t.block_hash) \in Results
  BY <1>1, StoredType, PutHeaderType
<1>3. ArchiveType'
  BY <1>1, <1>2 DEF submit_header, TypeInv, ArchiveType
<1>4. ChainType'
  BY <1>1 DEF submit_header, TypeInv, ChainType
<1> QED
  BY <1>3, <1>4, Unchanged DEF submit_header, TypeInv, net_vars

(* A submitted body is stored and its tip queued.                           *)
LEMMA TypeSubmitBody ==
    ASSUME TypeInv, submit_body
    PROVE  TypeInv'
<1> DEFINE s == submit.block_hash
<1>1. submit \in Tips /\ s \in SideBlocks
  BY DEF submit_body, TypeInv, ChainType, Tips
<1>2. /\ SendNewTip(submit, FALSE) \/ UNCHANGED new_tips
      /\ \/ bodies' = [bodies EXCEPT ![s] = "good"] /\ Store(put_body(SideTips, s))
         \/ UNCHANGED <<bodies, side_tips_vars>>
      /\ submit' = NoTip
      /\ UNCHANGED <<main_infos, headers, invalid_blocks, bmm_results, state_tip, main_vars,
                     net_task, block_events, descendant_tips>>
  BY DEF submit_body
<1> HIDE DEF s
<1>3. QueueType'
  BY <1>1, <1>2, SendType, Unchanged DEF TypeInv
<1>4. ArchiveType'
  BY <1>1, <1>2 DEF TypeInv, ArchiveType
<1>5. IndexType'
  <2>1. put_body(SideTips, s) \in SideTipsType
    BY <1>1, StoredType, PutBodyType
  <2> QED
    BY <1>2, <2>1, StoreType, Unchanged DEF TypeInv
<1>6. ChainType'
  BY <1>2 DEF TypeInv, ChainType
<1> QED
  BY <1>2, <1>3, <1>4, <1>5, <1>6, Unchanged DEF TypeInv

(* A tip that was asked for is queued with one of its verifications.        *)
LEMMA TypeSyncToTip ==
    ASSUME TypeInv, NEW s \in SideBlocks, NEW gone \in BOOLEAN, sync_to_tip(s, gone)
    PROVE  TypeInv'
<1>1. PICK m \in BestMainVerifications(s) : SendNewTip(Tip(s, m), gone)
  BY DEF sync_to_tip
<1>2. Tip(s, m) \in Tips
  BY VerifiedType DEF Tip, Tips
<1>3. QueueType'
  BY <1>1, <1>2, SendType DEF sync_to_tip
<1> QED
  BY <1>3, Unchanged DEF sync_to_tip, TypeInv

(* Invalidation moves the tip to the parent of the block.                   *)
LEMMA TypeInvalidate ==
    ASSUME TypeInv, NEW s \in SideBlocks, invalidate_block(s)
    PROVE  TypeInv'
<1>1. prev_side[s] \in SideBlocks \cup {None}
  BY ChainsAssumption
<1>2. ChainType'
  BY <1>1 DEF invalidate_block, TypeInv, ChainType
<1>3. ArchiveType'
  BY DEF invalidate_block, TypeInv, ArchiveType
<1> QED
  BY <1>2, <1>3, Unchanged DEF invalidate_block, TypeInv, net_vars

(* A restart keeps the databases and empties the queues.                    *)
LEMMA TypeRestart ==
    ASSUME TypeInv, Restart
    PROVE  TypeInv'
<1>1. env' \in Environment
  <2>1. env \in Environment /\ env.restarts \in Nat /\ env.restarts > 0
    BY DEF TypeInv, MainchainType, Restart, Environment
  <2>2. env.restarts - 1 \in Nat /\ env' = [env EXCEPT !.restarts = env.restarts - 1]
    BY <2>1 DEF Restart
  <2> QED
    BY <2>1, <2>2 DEF Environment
<1>2. MainchainType'
  <2>1. main_task' = Stopped /\ stream' = <<>> /\ enforcer_tip' = enforcer_tip
    BY DEF Restart, Stop
  <2>2. main_task' \in MainTasks /\ MainTaskInv'
    BY <2>1 DEF MainTaskInv, MainTasks, Stopped
  <2>3. stream' \in Seq(StreamEvents)
    BY <2>1
  <2> QED
    BY <1>1, <2>1, <2>2, <2>3 DEF TypeInv, MainchainType
<1>3. QueueType'
  <2>1. MaxEvents \in Nat /\ MaxTips \in Nat
    BY NodeSyncAssumption
  <2>2. new_tips' \in Seq(NewTips) /\ Len(new_tips') = 0
    BY DEF Restart
  <2>3. block_events' \in 0..MaxEvents /\ descendant_tips' = {}
    BY <2>1 DEF Restart
  <2> QED
    BY <2>1, <2>2, <2>3 DEF QueueType
<1>4. NetTaskType'
  BY NetTaskForms DEF Restart, NetTaskType
<1>5. ChainType'
  BY DEF Restart, TypeInv, ChainType
<1> QED
  BY <1>2, <1>3, <1>4, <1>5, Unchanged DEF Restart, TypeInv

(* Every step keeps the types.                                              *)
LEMMA TypeStep ==
    ASSUME TypeInv, [Next]_vars
    PROVE  TypeInv'
<1>1. CASE UNCHANGED vars
  BY <1>1, Unchanged DEF TypeInv, vars, net_vars
<1>2. CASE \E m \in MainBlocks : MineMainBlock(m)
  BY <1>2, TypeMine
<1>3. CASE \E m \in MainBlocks, announced \in BOOLEAN : ReorgMainchain(m, announced)
  BY <1>3, TypeReorg
<1>4. CASE MainTask
  BY <1>4, TypeSubscribe, TypeSync, TypeBlockEvent DEF MainTask
<1>5. CASE \E m \in MainBlocks : handle_request(m)
  BY <1>5, TypeRequest
<1>6. CASE StreamCloses
  BY <1>6, TypeClose
<1>7. CASE NetTask
  BY <1>7, TypeMainchainEvent, TypeNewTip, TypeReorgToTip, TypeDiscard, TypeStoreHeaders
     DEF NetTask
<1>8. CASE \E t \in CommittedTips, start \in SideBlocks \cup {None} : check_headers(t, start)
  BY <1>8, TypeCheckHeaders DEF CommittedTips
<1>9. CASE \E s \in SideBlocks, t \in CommittedTips, body \in {"good", "bad"},
              fork \in SideBlocks \cup {None} : receive_body(s, t, body, fork)
  BY <1>9, TypeReceiveBody DEF CommittedTips
<1>10. CASE \E t \in CommittedTips : peer_tip_ready(t)
  BY <1>10, TypePeerTip DEF CommittedTips
<1>11. CASE \E t \in CommittedTips : submit_header(t.block_hash, t.main_block_hash)
  BY <1>11, TypeSubmitHeader DEF CommittedTips
<1>12. CASE submit_body
  BY <1>12, TypeSubmitBody
<1>13. CASE \E s \in SideBlocks, gone \in BOOLEAN : sync_to_tip(s, gone)
  BY <1>13, TypeSyncToTip
<1>14. CASE \E s \in SideBlocks : invalidate_block(s)
  BY <1>14, TypeInvalidate
<1>15. CASE Restart
  BY <1>15, TypeRestart
<1> QED
  BY <1>1, <1>2, <1>3, <1>4, <1>5, <1>6, <1>7, <1>8, <1>9, <1>10, <1>11, <1>12, <1>13, <1>14,
     <1>15 DEF Next

(* The state of the archive, the index of side tips, the two tasks and      *)
(* their queues is always well typed; the queues stay within their bounds.  *)
THEOREM TypeCorrect ==
    Spec => []TypeInv
<1>1. Init => TypeInv
  BY TypeInit
<1>2. TypeInv /\ [Next]_vars => TypeInv'
  BY TypeStep
<1> QED
  BY <1>1, <1>2, PTL DEF Spec

-----------------------------------------------------------------------------
(* BMM verification.                                                        *)

(* The recursive definition of valid merge-mining defines a function: the   *)
(* valid pairs are what every set closed under the rule holds.              *)
LEMMA ValidBmmDef ==
    \A s \in SideBlocks, m \in MainBlocks :
        ValidBmm[<<s, m>>] <=>
            /\ bmm_commitment[m] = s
            /\ prev_main[s] = main_prev[m]
            /\ prev_side[s] = None
                   \/ \E n \in MainAncestors[m] \ {m} : ValidBmm[<<prev_side[s], n>>]
<1> DEFINE P == SideBlocks \X MainBlocks
           Rule(C, k) ==
               /\ bmm_commitment[k[2]] = k[1]
               /\ prev_main[k[1]] = main_prev[k[2]]
               /\ prev_side[k[1]] = None
                      \/ \E n \in MainAncestors[k[2]] \ {k[2]} : <<prev_side[k[1]], n>> \in C
           Closed(C) == \A k \in P : Rule(C, k) => k \in C
           V == {k \in P : \A C \in SUBSET P : Closed(C) => k \in C}
           W == {k \in P : Rule(V, k)}
<1>1. ASSUME NEW C \in SUBSET P, Closed(C), NEW k \in P, Rule(V, k) PROVE k \in C
  <2>1. V \subseteq C
    BY <1>1
  <2>2. Rule(C, k)
    <3> HIDE DEF V
    <3> QED
      BY <1>1, <2>1
  <2> QED
    BY <1>1, <2>2
<1>2. W \subseteq V
  <2> SUFFICES ASSUME NEW k \in W, NEW C \in SUBSET P, Closed(C) PROVE k \in C
    OBVIOUS
  <2>1. k \in P /\ Rule(V, k)
    OBVIOUS
  <2> HIDE DEF V, Closed, Rule, P
  <2> QED
    BY <1>1, <2>1
<1>3. Closed(W)
  <2> SUFFICES ASSUME NEW k \in P, Rule(W, k) PROVE k \in W
    OBVIOUS
  <2>1. Rule(V, k)
    <3> HIDE DEF W, V
    <3> QED
      BY <1>2
  <2> QED
    BY <2>1
<1>4. V \subseteq W
  <2>1. W \in SUBSET P
    OBVIOUS
  <2> HIDE DEF W, Closed
  <2> QED
    BY <1>3, <2>1
<1>5. \A k \in P : k \in V <=> Rule(V, k)
  <2> HIDE DEF V, Rule
  <2> QED
    BY <1>2, <1>4 DEF W
<1> DEFINE f == [k \in P |-> k \in V]
           Eq(g) == g = [k \in P |->
                       LET s == k[1]
                           m == k[2]
                       IN  /\ bmm_commitment[m] = s
                           /\ prev_main[s] = main_prev[m]
                           /\ prev_side[s] = None
                                  \/ \E n \in MainAncestors[m] \ {m} : g[<<prev_side[s], n>>]]
<1>6. Eq(f)
  <2>1. ASSUME NEW k \in P
        PROVE  (k \in V) <=>
                   (/\ bmm_commitment[k[2]] = k[1]
                    /\ prev_main[k[1]] = main_prev[k[2]]
                    /\ prev_side[k[1]] = None
                           \/ \E n \in MainAncestors[k[2]] \ {k[2]} : f[<<prev_side[k[1]], n>>])
    <3>1. k[1] \in SideBlocks /\ k[2] \in MainBlocks
      OBVIOUS
    <3>2. \A n \in MainAncestors[k[2]] : n \in MainBlocks
      BY <3>1, MainAncestry
    <3>3. prev_side[k[1]] # None => prev_side[k[1]] \in SideBlocks
      BY <3>1, ChainsAssumption
    <3>4. prev_side[k[1]] # None => \A n \in MainAncestors[k[2]] :
             f[<<prev_side[k[1]], n>>] <=> <<prev_side[k[1]], n>> \in V
      <4> HIDE DEF V
      <4> QED
        BY <3>2, <3>3
    <3>5. k \in V <=> Rule(V, k)
      BY <1>5
    <3> HIDE DEF V, f
    <3>6. prev_side[k[1]] # None =>
             ((\E n \in MainAncestors[k[2]] \ {k[2]} : f[<<prev_side[k[1]], n>>])
              <=> \E n \in MainAncestors[k[2]] \ {k[2]} : <<prev_side[k[1]], n>> \in V)
      BY <3>4
    <3> QED
      BY <3>5, <3>6
  <2> DEFINE h == [k \in P |->
                     /\ bmm_commitment[k[2]] = k[1]
                     /\ prev_main[k[1]] = main_prev[k[2]]
                     /\ prev_side[k[1]] = None
                            \/ \E n \in MainAncestors[k[2]] \ {k[2]} : f[<<prev_side[k[1]], n>>]]
  <2>2. f \in [P -> BOOLEAN]
    <3> HIDE DEF V
    <3> QED
      OBVIOUS
  <2>3. h \in [P -> BOOLEAN]
    <3> HIDE DEF f
    <3> QED
      OBVIOUS
  <2>4. \A k \in P : f[k] <=> h[k]
    <3>1. \A k \in P : f[k] <=> k \in V
      <4> HIDE DEF V
      <4> QED
        OBVIOUS
    <3> HIDE DEF f, V
    <3> QED
      BY <2>1, <3>1
  <2>5. f = h
    <3> HIDE DEF f, h, P
    <3> QED
      BY <2>2, <2>3, <2>4
  <2> HIDE DEF f
  <2> QED
    BY <2>5
<1>7. ValidBmm = CHOOSE g : Eq(g)
  BY DEF ValidBmm
<1>8. Eq(ValidBmm)
  <2> HIDE DEF Eq, f
  <2> QED
    BY <1>6, <1>7
<1> SUFFICES ASSUME NEW s \in SideBlocks, NEW m \in MainBlocks
             PROVE  ValidBmm[<<s, m>>] <=>
                        /\ bmm_commitment[m] = s
                        /\ prev_main[s] = main_prev[m]
                        /\ prev_side[s] = None
                               \/ \E n \in MainAncestors[m] \ {m} : ValidBmm[<<prev_side[s], n>>]
  OBVIOUS
<1>9. <<s, m>> \in P
  OBVIOUS
<1> QED
  BY <1>8, <1>9

(* A verification of r is valid; the valid ones of H and M are in r.        *)
SoundBmm(r) ==
    \A s \in SideBlocks, m \in MainBlocks : r[<<s, m>>] = "Verified" => ValidBmm[<<s, m>>]
CompleteBmm(r, H, M) ==
    \A s \in H, m \in M : ValidBmm[<<s, m>>] => r[<<s, m>>] = "Verified"

(* No verification of r is taken back in q.                                 *)
VerifiedStays(r, q) ==
    \A s \in SideBlocks, m \in MainBlocks :
        r[<<s, m>>] = "Verified" => q[<<s, m>>] = "Verified"

(* Sets of blocks that hold the parents of their members.                   *)
ClosedSide(H) == \A s \in H : prev_side[s] = None \/ prev_side[s] \in H
ClosedMain(M) == \A m \in M : main_prev[m] = Zero \/ main_prev[m] \in M

(* They hold all ancestors.                                                 *)
LEMMA ClosedAncestors ==
    /\ \A M \in SUBSET MainBlocks : ClosedMain(M) => \A m \in M : MainAncestors[m] \subseteq M
    /\ \A H \in SUBSET SideBlocks : ClosedSide(H) => \A s \in H : Ancestors[s] \subseteq H
<1>1. ASSUME NEW M \in SUBSET MainBlocks, ClosedMain(M)
      PROVE  \A m \in M : MainAncestors[m] \subseteq M
  <2> DEFINE G == {m \in MainBlocks : m \in M => MainAncestors[m] \subseteq M}
  <2>1. ASSUME NEW m \in MainBlocks, main_prev[m] # Zero => main_prev[m] \in G PROVE m \in G
    BY <1>1, <2>1, MainAncestry DEF ClosedMain
  <2>2. G \in SUBSET MainBlocks
    OBVIOUS
  <2>3. G = MainBlocks
    <3> HIDE DEF G
    <3> QED
      BY <2>1, <2>2, BothTrees, TreeInduction
  <2> QED
    BY <2>3
<1>2. ASSUME NEW H \in SUBSET SideBlocks, ClosedSide(H)
      PROVE  \A s \in H : Ancestors[s] \subseteq H
  <2> DEFINE G == {s \in SideBlocks : s \in H => Ancestors[s] \subseteq H}
  <2>1. ASSUME NEW s \in SideBlocks, prev_side[s] # None => prev_side[s] \in G PROVE s \in G
    BY <1>2, <2>1, SideAncestry DEF ClosedSide
  <2>2. G \in SUBSET SideBlocks
    OBVIOUS
  <2>3. G = SideBlocks
    <3> HIDE DEF G
    <3> QED
      BY <2>1, <2>2, BothTrees, TreeInduction
  <2> QED
    BY <2>3
<1> QED
  BY <1>1, <1>2

(* The check of one header at one mainchain block is right if the results   *)
(* so far are right for the parent.                                         *)
LEMMA BmmResultExact ==
    ASSUME NEW r, SoundBmm(r), NEW s \in SideBlocks, NEW m \in MainBlocks
    PROVE  /\ BmmResult(r, s, m) = "Verified" => ValidBmm[<<s, m>>]
           /\ \A H, M : /\ CompleteBmm(r, H, M)
                        /\ prev_side[s] = None \/ prev_side[s] \in H
                        /\ MainAncestors[m] \ {m} \subseteq M
                        /\ ValidBmm[<<s, m>>]
                        => BmmResult(r, s, m) = "Verified"
<1>1. ASSUME BmmResult(r, s, m) = "Verified" PROVE ValidBmm[<<s, m>>]
  <2>1. /\ bmm_commitment[m] = s
        /\ prev_main[s] = main_prev[m]
        /\ prev_side[s] = None
              \/ \E n \in MainBlocks :
                     r[<<prev_side[s], n>>] = "Verified" /\ IsMainDescendant(n, m)
    BY <1>1 DEF BmmResult
  <2>2. CASE prev_side[s] = None
    BY <2>1, <2>2, ValidBmmDef
  <2>3. CASE prev_side[s] # None
    <3>1. PICK n \in MainBlocks :
              r[<<prev_side[s], n>>] = "Verified" /\ IsMainDescendant(n, m)
      BY <2>1, <2>3
    <3>2. prev_side[s] \in SideBlocks /\ s \notin Ancestors[prev_side[s]]
          /\ prev_side[s] \in Ancestors[prev_side[s]]
      BY <2>3, SideAncestry
    <3>3. ValidBmm[<<prev_side[s], n>>]
      BY <3>1, <3>2 DEF SoundBmm
    <3>4. bmm_commitment[n] = prev_side[s]
      BY <3>2, <3>3, ValidBmmDef
    <3>5. n \in MainAncestors[m] \ {m}
      BY <2>1, <3>1, <3>2, <3>4 DEF IsMainDescendant
    <3> QED
      BY <2>1, <3>3, <3>5, ValidBmmDef
  <2> QED
    BY <2>2, <2>3
<1>2. ASSUME NEW H, NEW M, CompleteBmm(r, H, M),
             prev_side[s] = None \/ prev_side[s] \in H,
             MainAncestors[m] \ {m} \subseteq M,
             ValidBmm[<<s, m>>]
      PROVE  BmmResult(r, s, m) = "Verified"
  <2>1. /\ bmm_commitment[m] = s
        /\ prev_main[s] = main_prev[m]
        /\ prev_side[s] = None
              \/ \E n \in MainAncestors[m] \ {m} : ValidBmm[<<prev_side[s], n>>]
    BY <1>2, ValidBmmDef
  <2>2. CASE prev_side[s] = None
    BY <2>1, <2>2 DEF BmmResult
  <2>3. CASE prev_side[s] # None
    <3>1. PICK n \in MainAncestors[m] \ {m} : ValidBmm[<<prev_side[s], n>>]
      BY <2>1, <2>3
    <3>2. r[<<prev_side[s], n>>] = "Verified"
      BY <1>2, <2>3, <3>1 DEF CompleteBmm
    <3>3. n \in MainBlocks /\ IsMainDescendant(n, m)
      BY <3>1, MainAncestry, ChainsAssumption DEF IsMainDescendant
    <3> QED
      BY <2>1, <3>2, <3>3 DEF BmmResult
  <2> QED
    BY <2>2, <2>3
<1> QED
  BY <1>1, <1>2

(* put_header leaves the results right, the header's included.              *)
LEMMA PutHeaderExact ==
    ASSUME NEW r \in Results, SoundBmm(r), NEW H \in SUBSET SideBlocks,
           main_infos \subseteq MainBlocks, ClosedMain(main_infos),
           CompleteBmm(r, H, main_infos),
           NEW s \in SideBlocks, prev_side[s] = None \/ prev_side[s] \in H
    PROVE  /\ SoundBmm(put_header(r, s))
           /\ CompleteBmm(put_header(r, s), H \cup {s}, main_infos)
           /\ VerifiedStays(r, put_header(r, s))
<1>1. \A x \in SideBlocks, m \in MainBlocks :
         put_header(r, s)[<<x, m>>] =
             IF x = s /\ m \in main_infos /\ main_prev[m] = prev_main[s]
             THEN BmmResult(r, s, m) ELSE r[<<x, m>>]
  BY DEF put_header, Results
<1>2. SoundBmm(put_header(r, s))
  BY <1>1, BmmResultExact DEF SoundBmm
<1>3. ASSUME NEW x \in H \cup {s}, NEW m \in main_infos, ValidBmm[<<x, m>>]
      PROVE  put_header(r, s)[<<x, m>>] = "Verified"
  <2>1. x \in SideBlocks /\ m \in MainBlocks /\ MainAncestors[m] \subseteq main_infos
    BY ClosedAncestors
  <2>2. CASE x # s
    BY <1>1, <1>3, <2>1, <2>2 DEF CompleteBmm
  <2>3. CASE x = s
    <3>1. prev_main[s] = main_prev[m]
      BY <1>3, <2>1, <2>3, ValidBmmDef
    <3>2. BmmResult(r, s, m) = "Verified"
      BY <1>3, <2>1, <2>3, BmmResultExact
    <3> QED
      BY <1>1, <2>1, <2>3, <3>1, <3>2
  <2> QED
    BY <2>2, <2>3
<1>4. ASSUME NEW x \in SideBlocks, NEW m \in MainBlocks, r[<<x, m>>] = "Verified"
      PROVE  put_header(r, s)[<<x, m>>] = "Verified"
  <2>1. ValidBmm[<<x, m>>]
    BY <1>4 DEF SoundBmm
  <2> QED
    BY <1>1, <1>3, <1>4, <2>1
<1> QED
  BY <1>2, <1>3, <1>4 DEF CompleteBmm, VerifiedStays

(* put_main_block_info leaves the results right, the new block's included.  *)
LEMMA PutInfoExact ==
    ASSUME NEW r \in Results, SoundBmm(r), headers \subseteq SideBlocks, ClosedSide(headers),
           NEW M \in SUBSET MainBlocks, ClosedMain(M), CompleteBmm(r, headers, M),
           NEW m \in MainBlocks, main_prev[m] = Zero \/ main_prev[m] \in M
    PROVE  /\ SoundBmm(put_main_block_info(r, m))
           /\ CompleteBmm(put_main_block_info(r, m), headers, M \cup {m})
           /\ VerifiedStays(r, put_main_block_info(r, m))
<1> DEFINE s == bmm_commitment[m]
<1>1. CASE s = None \/ s \notin headers
  <2>1. put_main_block_info(r, m) = r
    BY <1>1 DEF put_main_block_info
  <2>2. ASSUME NEW x \in headers, ValidBmm[<<x, m>>] PROVE FALSE
    BY <1>1, <2>2, ValidBmmDef, ChainsAssumption
  <2> QED
    BY <2>1, <2>2 DEF CompleteBmm, VerifiedStays
<1>2. CASE s # None /\ s \in headers
  <2>1. s \in SideBlocks /\ put_main_block_info(r, m) = [r EXCEPT ![<<s, m>>] = BmmResult(r, s, m)]
    BY <1>2 DEF put_main_block_info
  <2>2. \A x \in SideBlocks, n \in MainBlocks :
           put_main_block_info(r, m)[<<x, n>>] =
               IF x = s /\ n = m THEN BmmResult(r, s, m) ELSE r[<<x, n>>]
    <3> HIDE DEF s
    <3> QED
      BY <2>1 DEF Results
  <2> HIDE DEF s
  <2>3. SoundBmm(put_main_block_info(r, m))
    BY <2>1, <2>2, BmmResultExact DEF SoundBmm
  <2>4. ASSUME NEW x \in headers, NEW n \in M \cup {m}, ValidBmm[<<x, n>>]
        PROVE  put_main_block_info(r, m)[<<x, n>>] = "Verified"
    <3>1. x \in SideBlocks /\ n \in MainBlocks
      OBVIOUS
    <3>2. CASE x = s /\ n = m
      <4>1. MainAncestors[m] \ {m} \subseteq M
        BY MainAncestry, ClosedAncestors
      <4>2. BmmResult(r, s, m) = "Verified"
        BY <2>1, <2>4, <3>2, <4>1, BmmResultExact DEF ClosedSide
      <4> QED
        BY <2>2, <3>1, <3>2, <4>2
    <3>3. CASE ~(x = s /\ n = m)
      <4>1. n # m
        BY <2>4, <3>1, <3>3, ValidBmmDef DEF s
      <4> QED
        BY <2>2, <2>4, <3>1, <3>3, <4>1 DEF CompleteBmm
    <3> QED
      BY <3>2, <3>3
  <2>5. ASSUME NEW x \in SideBlocks, NEW n \in MainBlocks, r[<<x, n>>] = "Verified"
        PROVE  put_main_block_info(r, m)[<<x, n>>] = "Verified"
    <3>1. ValidBmm[<<x, n>>]
      BY <2>5 DEF SoundBmm
    <3>2. s \in headers
      BY <1>2 DEF s
    <3> QED
      BY <2>2, <2>4, <2>5, <3>1, <3>2
  <2> QED
    BY <2>3, <2>4, <2>5 DEF CompleteBmm, VerifiedStays
<1> QED
  BY <1>1, <1>2

(* The inductive invariant of BMM verification: what is stored is closed    *)
(* under parents, no result is wrong, and none is missing for what is       *)
(* stored.  Soundness is of all results: those of an invalidated header     *)
(* stay behind and count again when the header comes back.                  *)
BmmInv ==
    /\ TypeInv
    /\ ClosedSide(headers)
    /\ ClosedMain(main_infos)
    /\ SoundBmm(bmm_results)
    /\ CompleteBmm(bmm_results, headers, main_infos)

(* request_ancestor_infos keeps it.                                         *)
LEMMA BmmRequest ==
    ASSUME BmmInv, NEW m \in MainBlocks, request_ancestor_infos(m)
    PROVE  /\ ClosedMain(main_infos')
           /\ SoundBmm(bmm_results')
           /\ CompleteBmm(bmm_results', headers, main_infos')
           /\ VerifiedStays(bmm_results, bmm_results')
<1> DEFINE path == MainPath(Zero, m)
           n == Len(path)
           Infos(i) == main_infos \cup {path[j] : j \in 1..i}
<1>1. /\ path \in Seq(MainBlocks)
      /\ \A i \in 1..n : path[i] \in MainBlocks
      /\ \A i \in 1..n : main_prev[path[i]] = IF i = 1 THEN Zero ELSE path[i - 1]
      /\ \A x : (\E i \in 1..n : path[i] = x) <=> x \in MainSet(m)
  <2>1. PathFacts(path, MainAncestors, MainBlocks, Zero, main_prev, Zero, m)
    BY MainPaths
  <2>2. MainSet(m) = ChainTo(MainAncestors, Zero, m) \ ChainTo(MainAncestors, Zero, Zero)
    BY DEF MainSet, ChainTo
  <2> HIDE DEF path
  <2> QED
    BY <2>1, <2>2 DEF PathFacts
<1>2. /\ n \in Nat
      /\ bmm_results' = FoldLeft(put_missing_info, bmm_results, path)
      /\ main_infos' = main_infos \cup MainSet(m)
  BY <1>1 DEF request_ancestor_infos
<1> HIDE DEF path
<1>3. /\ bmm_results \in Results /\ headers \subseteq SideBlocks /\ main_infos \subseteq MainBlocks
      /\ ClosedSide(headers) /\ ClosedMain(main_infos) /\ SoundBmm(bmm_results)
      /\ CompleteBmm(bmm_results, headers, main_infos)
  BY DEF BmmInv, TypeInv, ArchiveType
<1>4. PICK w \in [0..n -> Results] :
          /\ w[0] = bmm_results
          /\ \A i \in 1..n : w[i] = put_missing_info(w[i - 1], path[i])
          /\ FoldLeft(put_missing_info, bmm_results, path) = w[n]
  BY <1>1, <1>3, FoldPutInfo
<1> DEFINE Good(i) == /\ ClosedMain(Infos(i))
                      /\ SoundBmm(w[i])
                      /\ CompleteBmm(w[i], headers, Infos(i))
                      /\ VerifiedStays(bmm_results, w[i])
           G == {i \in 0..n : Good(i)}
<1>5. Good(0)
  <2>1. Infos(0) = main_infos
    OBVIOUS
  <2> QED
    BY <1>3, <1>4, <2>1 DEF VerifiedStays
<1>6. ASSUME NEW i \in 1..n, Good(i - 1) PROVE Good(i)
  <2> DEFINE x == path[i]
  <2>1. i \in 0..n /\ i - 1 \in 0..n /\ i \in Nat
    BY <1>2
  <2>2. Infos(i) = Infos(i - 1) \cup {x}
    <3>1. 1..i = 1..(i - 1) \cup {i}
      BY <2>1
    <3> QED
      BY <3>1
  <2>3. x \in MainBlocks /\ Infos(i - 1) \in SUBSET MainBlocks
    BY <1>1, <1>3, <2>1
  <2>4. main_prev[x] = Zero \/ main_prev[x] \in Infos(i - 1)
    <3>1. CASE i = 1
      BY <1>1, <3>1
    <3>2. CASE i # 1
      <4>1. i - 1 \in 1..(i - 1)
        BY <2>1, <3>2
      <4> QED
        BY <1>1, <3>2, <4>1
    <3> QED
      BY <3>1, <3>2
  <2>5. w[i - 1] \in Results /\ w[i] = put_missing_info(w[i - 1], x)
    BY <1>4, <2>1
  <2> HIDE DEF Infos, x
  <2>6. ClosedMain(Infos(i))
    BY <1>6, <2>2, <2>4 DEF ClosedMain
  <2>7. CASE x \in main_infos
    <3>1. w[i] = w[i - 1] /\ Infos(i) = Infos(i - 1)
      BY <2>2, <2>5, <2>7 DEF put_missing_info, Infos
    <3> QED
      BY <1>6, <2>6, <3>1
  <2>8. CASE x \notin main_infos
    <3>1. w[i] = put_main_block_info(w[i - 1], x)
      BY <2>5, <2>8 DEF put_missing_info
    <3>2. /\ SoundBmm(put_main_block_info(w[i - 1], x))
          /\ CompleteBmm(put_main_block_info(w[i - 1], x), headers, Infos(i - 1) \cup {x})
          /\ VerifiedStays(w[i - 1], put_main_block_info(w[i - 1], x))
      BY <1>3, <1>6, <2>3, <2>4, <2>5, PutInfoExact
    <3>3. VerifiedStays(bmm_results, w[i])
      BY <1>6, <3>1, <3>2 DEF VerifiedStays
    <3> QED
      BY <2>2, <2>6, <3>1, <3>2, <3>3
  <2> QED
    BY <2>7, <2>8
<1> HIDE DEF Good
<1>7. \A i \in 0..n : i \in G
  <2>1. 0 \in G
    BY <1>2, <1>5
  <2>2. ASSUME NEW i \in 1..n, i - 1 \in G PROVE i \in G
    BY <1>2, <1>6, <2>2
  <2> HIDE DEF G
  <2> QED
    BY <1>2, <2>1, <2>2, Loop!Steps
<1>8. Good(n)
  BY <1>2, <1>7
<1>9. Infos(n) = main_infos'
  BY <1>1, <1>2
<1> QED
  BY <1>2, <1>4, <1>8, <1>9 DEF Good

(* reorg_to_tip keeps it.                                                   *)
LEMMA BmmReorg ==
    ASSUME BmmInv, NEW path \in Seq(SideBlocks), ToSet(path) \subseteq headers
    PROVE  /\ SoundBmm(FoldLeft(put_header, bmm_results, path))
           /\ CompleteBmm(FoldLeft(put_header, bmm_results, path), headers, main_infos)
           /\ VerifiedStays(bmm_results, FoldLeft(put_header, bmm_results, path))
<1> DEFINE n == Len(path)
<1>1. /\ bmm_results \in Results /\ headers \in SUBSET SideBlocks /\ main_infos \subseteq MainBlocks
      /\ ClosedSide(headers) /\ ClosedMain(main_infos) /\ SoundBmm(bmm_results)
      /\ CompleteBmm(bmm_results, headers, main_infos)
  BY DEF BmmInv, TypeInv, ArchiveType
<1>2. PICK w \in [0..n -> Results] :
          /\ w[0] = bmm_results
          /\ \A i \in 1..n : w[i] = put_header(w[i - 1], path[i])
          /\ FoldLeft(put_header, bmm_results, path) = w[n]
  BY <1>1, FoldPutHeader
<1> DEFINE G == {i \in 0..n : /\ SoundBmm(w[i])
                              /\ CompleteBmm(w[i], headers, main_infos)
                              /\ VerifiedStays(bmm_results, w[i])}
<1>3. 0 \in G
  BY <1>1, <1>2 DEF VerifiedStays
<1>4. ASSUME NEW i \in 1..n, i - 1 \in G PROVE i \in G
  <2>1. i \in 0..n /\ i - 1 \in 0..n
    OBVIOUS
  <2>2. path[i] \in SideBlocks /\ path[i] \in headers
    BY DEF ToSet
  <2>3. w[i - 1] \in Results /\ w[i] = put_header(w[i - 1], path[i])
    BY <1>2, <2>1
  <2>4. prev_side[path[i]] = None \/ prev_side[path[i]] \in headers
    BY <1>1, <2>2 DEF ClosedSide
  <2>5. headers \cup {path[i]} = headers
    BY <2>2
  <2>6. /\ SoundBmm(w[i - 1]) /\ CompleteBmm(w[i - 1], headers, main_infos)
        /\ VerifiedStays(bmm_results, w[i - 1])
    BY <1>4
  <2>7. /\ SoundBmm(w[i]) /\ CompleteBmm(w[i], headers \cup {path[i]}, main_infos)
        /\ VerifiedStays(w[i - 1], w[i])
    BY <1>1, <2>2, <2>3, <2>4, <2>6, PutHeaderExact
  <2>8. VerifiedStays(bmm_results, w[i])
    BY <2>6, <2>7 DEF VerifiedStays
  <2> QED
    BY <2>1, <2>5, <2>7, <2>8
<1>5. \A i \in 0..n : i \in G
  <2>1. n \in Nat
    OBVIOUS
  <2> HIDE DEF G, n
  <2> QED
    BY <1>3, <1>4, <2>1, Loop!Steps
<1>6. n \in 0..n
  OBVIOUS
<1> QED
  BY <1>2, <1>5, <1>6

(* store_headers keeps it, and only adds headers.                           *)
LEMMA BmmStoreHeaders ==
    ASSUME BmmInv, NEW path \in Seq(SideBlocks), NEW acc,
           acc = [headers |-> headers, results |-> bmm_results, stop |-> FALSE, ok |-> TRUE],
           NEW stored, stored = FoldLeft(StoreHeader, acc, path)
    PROVE  /\ ClosedSide(stored.headers)
           /\ SoundBmm(stored.results)
           /\ CompleteBmm(stored.results, stored.headers, main_infos)
           /\ headers \subseteq stored.headers
           /\ VerifiedStays(bmm_results, stored.results)
<1> DEFINE n == Len(path)
           Good(a) == /\ ClosedSide(a.headers)
                      /\ SoundBmm(a.results)
                      /\ CompleteBmm(a.results, a.headers, main_infos)
                      /\ headers \subseteq a.headers
                      /\ VerifiedStays(bmm_results, a.results)
<1>1. /\ bmm_results \in Results /\ headers \subseteq SideBlocks /\ main_infos \subseteq MainBlocks
      /\ ClosedSide(headers) /\ ClosedMain(main_infos) /\ SoundBmm(bmm_results)
      /\ CompleteBmm(bmm_results, headers, main_infos)
  BY DEF BmmInv, TypeInv, ArchiveType
<1>2. acc \in Storing
  BY <1>1 DEF Storing
<1>3. PICK w \in [0..n -> Storing] :
          /\ w[0] = acc
          /\ \A i \in 1..n : w[i] = StoreHeader(w[i - 1], path[i])
          /\ FoldLeft(StoreHeader, acc, path) = w[n]
  BY <1>2, FoldStoreHeader
<1>4. ASSUME NEW a \in Storing, Good(a), NEW s \in SideBlocks PROVE Good(StoreHeader(a, s))
  <2>1. \/ StoreHeader(a, s) = a
        \/ StoreHeader(a, s) = [a EXCEPT !.stop = TRUE]
        \/ StoreHeader(a, s) = [a EXCEPT !.stop = TRUE, !.ok = FALSE]
        \/ /\ prev_side[s] = None \/ prev_side[s] \in a.headers
           /\ StoreHeader(a, s) = [a EXCEPT !.headers = a.headers \cup {s},
                                            !.results = put_header(a.results, s)]
    BY DEF StoreHeader
  <2>2. a.results \in Results /\ a.headers \in SUBSET SideBlocks
    BY DEF Storing
  <2>3. CASE \/ StoreHeader(a, s) = a
             \/ StoreHeader(a, s) = [a EXCEPT !.stop = TRUE]
             \/ StoreHeader(a, s) = [a EXCEPT !.stop = TRUE, !.ok = FALSE]
    <3>1. StoreHeader(a, s).headers = a.headers /\ StoreHeader(a, s).results = a.results
      BY <2>3 DEF Storing
    <3> QED
      BY <1>4, <3>1
  <2>4. CASE /\ prev_side[s] = None \/ prev_side[s] \in a.headers
             /\ StoreHeader(a, s) = [a EXCEPT !.headers = a.headers \cup {s},
                                              !.results = put_header(a.results, s)]
    <3>1. /\ StoreHeader(a, s).headers = a.headers \cup {s}
          /\ StoreHeader(a, s).results = put_header(a.results, s)
      BY <2>4 DEF Storing
    <3>2. /\ SoundBmm(put_header(a.results, s))
          /\ CompleteBmm(put_header(a.results, s), a.headers \cup {s}, main_infos)
          /\ VerifiedStays(a.results, put_header(a.results, s))
      BY <1>1, <1>4, <2>2, <2>4, PutHeaderExact
    <3>3. ClosedSide(a.headers \cup {s})
      BY <1>4, <2>4 DEF ClosedSide
    <3>4. VerifiedStays(bmm_results, put_header(a.results, s))
      BY <1>4, <3>2 DEF VerifiedStays
    <3> QED
      BY <1>4, <3>1, <3>2, <3>3, <3>4
  <2> QED
    BY <2>1, <2>3, <2>4
<1> DEFINE G == {i \in 0..n : Good(w[i])}
<1>5. Good(acc)
  BY <1>1 DEF VerifiedStays
<1> HIDE DEF Good
<1>6. 0 \in G
  BY <1>3, <1>5
<1>7. ASSUME NEW i \in 1..n, i - 1 \in G PROVE i \in G
  <2>1. i \in 0..n /\ i - 1 \in 0..n /\ path[i] \in SideBlocks
    OBVIOUS
  <2>2. w[i - 1] \in Storing /\ Good(w[i - 1]) /\ w[i] = StoreHeader(w[i - 1], path[i])
    BY <1>3, <1>7, <2>1
  <2> QED
    BY <1>4, <2>1, <2>2
<1>8. \A i \in 0..n : i \in G
  <2>1. n \in Nat
    OBVIOUS
  <2> HIDE DEF G, n
  <2> QED
    BY <1>6, <1>7, <2>1, Loop!Steps
<1>9. n \in 0..n
  OBVIOUS
<1>10. Good(stored)
  BY <1>3, <1>8, <1>9
<1> QED
  BY <1>10 DEF Good

(* handle_block_event keeps it: a block is connected after its parent.      *)
LEMMA BmmBlockEvent ==
    ASSUME BmmInv, handle_block_event
    PROVE  /\ ClosedMain(main_infos')
           /\ SoundBmm(bmm_results')
           /\ CompleteBmm(bmm_results', headers, main_infos')
           /\ VerifiedStays(bmm_results, bmm_results')
<1> DEFINE event == Head(stream)
           m == event.block
<1>1. /\ bmm_results \in Results /\ headers \subseteq SideBlocks
      /\ main_infos \in SUBSET MainBlocks
      /\ ClosedSide(headers) /\ ClosedMain(main_infos) /\ SoundBmm(bmm_results)
      /\ CompleteBmm(bmm_results, headers, main_infos)
  BY DEF BmmInv, TypeInv, ArchiveType
<1>2. m \in MainBlocks
  <2>1. stream \in Seq(StreamEvents) /\ stream # <<>>
    BY DEF BmmInv, TypeInv, MainchainType, handle_block_event
  <2>2. event \in StreamEvents
    BY <2>1
  <2> QED
    BY <2>2 DEF StreamEvents
<1>3. \/ UNCHANGED <<main_infos, bmm_results>>
      \/ /\ main_infos' = main_infos \cup {m}
         /\ \/ /\ main_prev[m] \in main_infos \cup {Zero}
               /\ bmm_results' = put_main_block_info(bmm_results, m)
            \/ m \in main_infos /\ bmm_results' = bmm_results
  BY DEF handle_block_event
<1> HIDE DEF m
<1>4. CASE UNCHANGED <<main_infos, bmm_results>>
  BY <1>1, <1>4 DEF VerifiedStays
<1>5. CASE main_infos' = main_infos \cup {m} /\ m \in main_infos /\ bmm_results' = bmm_results
  <2>1. main_infos' = main_infos
    BY <1>5
  <2> QED
    BY <1>1, <1>5, <2>1 DEF VerifiedStays
<1>6. CASE /\ main_infos' = main_infos \cup {m}
           /\ main_prev[m] \in main_infos \cup {Zero}
           /\ bmm_results' = put_main_block_info(bmm_results, m)
  <2>1. /\ SoundBmm(put_main_block_info(bmm_results, m))
        /\ CompleteBmm(put_main_block_info(bmm_results, m), headers, main_infos \cup {m})
        /\ VerifiedStays(bmm_results, put_main_block_info(bmm_results, m))
    BY <1>1, <1>2, <1>6, PutInfoExact
  <2>2. ClosedMain(main_infos \cup {m})
    BY <1>1, <1>6 DEF ClosedMain
  <2> QED
    BY <1>6, <2>1, <2>2
<1> QED
  BY <1>3, <1>4, <1>5, <1>6

(* invalidate_block keeps it: a header goes with all its descendants.       *)
LEMMA BmmInvalidate ==
    ASSUME BmmInv, NEW s \in SideBlocks, invalidate_block(s)
    PROVE  /\ ClosedSide(headers')
           /\ CompleteBmm(bmm_results, headers', main_infos)
<1>1. headers \subseteq SideBlocks /\ ClosedSide(headers)
      /\ CompleteBmm(bmm_results, headers, main_infos)
  BY DEF BmmInv, TypeInv, ArchiveType
<1>2. headers' = {x \in headers : ~IsDescendant(s, x)}
  BY DEF invalidate_block
<1>3. ASSUME NEW x \in headers, ~IsDescendant(s, x), prev_side[x] # None
      PROVE  prev_side[x] \in headers /\ ~IsDescendant(s, prev_side[x])
  <2>1. prev_side[x] \in headers
    BY <1>1, <1>3 DEF ClosedSide
  <2>2. Ancestors[prev_side[x]] \subseteq Ancestors[x]
    BY <1>1, <1>3, SideAncestry
  <2> QED
    BY <1>3, <2>1, <2>2, ChainsAssumption DEF IsDescendant
<1> QED
  BY <1>1, <1>2, <1>3 DEF ClosedSide, CompleteBmm

(* Every step keeps the invariant of BMM verification, and every            *)
(* verification.                                                            *)
LEMMA BmmStep ==
    ASSUME BmmInv, [Next]_vars
    PROVE  BmmInv' /\ VerifiedStays(bmm_results, bmm_results')
<1> DEFINE BmmPart == /\ ClosedSide(headers)
                      /\ ClosedMain(main_infos)
                      /\ SoundBmm(bmm_results)
                      /\ CompleteBmm(bmm_results, headers, main_infos)
<1>1. BmmPart /\ TypeInv
  BY DEF BmmInv
<1>2. TypeInv'
  BY <1>1, TypeStep
<1>3. ASSUME UNCHANGED <<main_infos, headers, bmm_results>>
      PROVE  BmmPart' /\ VerifiedStays(bmm_results, bmm_results')
  BY <1>1, <1>3 DEF ClosedSide, ClosedMain, SoundBmm, CompleteBmm, VerifiedStays
<1>4. SUFFICES BmmPart' /\ VerifiedStays(bmm_results, bmm_results')
  BY <1>2 DEF BmmInv
<1>5. CASE UNCHANGED vars
  BY <1>3, <1>5 DEF vars, archive_vars
<1>6. CASE \E m \in MainBlocks : MineMainBlock(m)
  BY <1>3, <1>6 DEF MineMainBlock, archive_vars
<1>7. CASE \E m \in MainBlocks, announced \in BOOLEAN : ReorgMainchain(m, announced)
  BY <1>3, <1>7 DEF ReorgMainchain, archive_vars
<1>8. CASE subscribe_block_events
  <2>1. request_ancestor_infos(enforcer_tip) /\ headers' = headers
    BY <1>8 DEF subscribe_block_events
  <2>2. enforcer_tip \in MainBlocks
    BY <1>1 DEF TypeInv, MainchainType
  <2> QED
    BY <1>1, <2>1, <2>2, BmmRequest
<1>9. CASE sync_side_tips_to_tip
  BY <1>3, <1>9 DEF sync_side_tips_to_tip, archive_vars
<1>10. CASE handle_block_event
  <2>1. headers' = headers
    BY <1>10 DEF handle_block_event
  <2> QED
    BY <1>1, <1>10, <2>1, BmmBlockEvent
<1>11. CASE \E m \in MainBlocks : handle_request(m)
  <2>1. PICK m \in MainBlocks : handle_request(m)
    BY <1>11
  <2>2. request_ancestor_infos(m) /\ headers' = headers
    BY <2>1 DEF handle_request
  <2> QED
    BY <1>1, <2>2, BmmRequest
<1>12. CASE StreamCloses
  BY <1>3, <1>12 DEF StreamCloses, archive_vars
<1>13. CASE handle_mainchain_block_event \/ new_tip_ready
  BY <1>3, <1>13 DEF handle_mainchain_block_event, new_tip_ready, archive_vars
<1>14. CASE reorg_to_tip
  <2> DEFINE t == net_task.tip
             s == t.block_hash
             applied == SidePath(ForkWith(s), s)
  <2>1. t \in Tips /\ s \in SideBlocks /\ state_tip \in SideBlocks \cup {None}
    <3>1. net_task.tip \in Tips
      BY <1>1, <1>14 DEF reorg_to_tip, Reorging, TypeInv, NetTaskType, NetTaskOK
    <3> QED
      BY <1>1, <3>1 DEF Tips, TypeInv, ChainType
  <2>2. PICK o : ReorgStep(t, o) /\ OutcomeOK(t, o)
    BY <1>1, <1>14, ReorgOutcomes
  <2>3. UNCHANGED <<main_infos, headers>>
    BY <1>14 DEF reorg_to_tip
  <2>4. CASE bmm_results' = bmm_results
    BY <1>3, <2>3, <2>4
  <2>5. CASE bmm_results' # bmm_results
    <3>1. /\ o = "done"
          /\ bmm_results' = FoldLeft(put_header, bmm_results, applied)
      BY <2>2, <2>5 DEF ReorgStep
    <3>2. applied \in Seq(SideBlocks) /\ ToSet(applied) = SideSet(s) \ SideSet(ForkWith(s))
      BY <2>1, Forks
    <3>3. ToSet(applied) \subseteq headers
      BY <2>2, <3>1, <3>2 DEF OutcomeOK
    <3> HIDE DEF applied
    <3>4. /\ SoundBmm(bmm_results') /\ CompleteBmm(bmm_results', headers, main_infos)
          /\ VerifiedStays(bmm_results, bmm_results')
      BY <3>1, <3>2, <3>3, BmmReorg
    <3> QED
      BY <1>1, <2>3, <3>4
  <2> QED
    BY <2>4, <2>5
<1>15. CASE discard_body
  BY <1>3, <1>15 DEF discard_body
<1>16. CASE store_headers
  <2> DEFINE path == SidePath(net_task.block, net_task.tip.block_hash)
             acc == [headers |-> headers, results |-> bmm_results, stop |-> FALSE, ok |-> TRUE]
             stored == FoldLeft(StoreHeader, acc, path)
  <2>1. path \in Seq(SideBlocks)
    <3>1. net_task.tip.block_hash \in SideBlocks
          /\ net_task.block \in SideSet(net_task.tip.block_hash) \cup {None}
      BY <1>1, <1>16 DEF store_headers, TypeInv, NetTaskType, NetTaskOK, Tips
    <3> QED
      BY <3>1, SidePaths DEF PathFacts
  <2>2. \/ headers' = stored.headers /\ bmm_results' = stored.results
        \/ UNCHANGED <<headers, bmm_results>>
    BY <1>16 DEF store_headers
  <2>3. main_infos' = main_infos
    BY <1>16 DEF store_headers
  <2> HIDE DEF path
  <2>4. /\ ClosedSide(stored.headers)
        /\ SoundBmm(stored.results)
        /\ CompleteBmm(stored.results, stored.headers, main_infos)
        /\ VerifiedStays(bmm_results, stored.results)
    BY <2>1, BmmStoreHeaders
  <2> HIDE DEF stored
  <2> QED
    BY <1>1, <1>3, <2>2, <2>3, <2>4
<1>17. CASE \E t \in CommittedTips, start \in SideBlocks \cup {None} : check_headers(t, start)
  BY <1>3, <1>17 DEF check_headers, archive_vars
<1>18. CASE \E s \in SideBlocks, t \in CommittedTips, body \in {"good", "bad"},
              fork \in SideBlocks \cup {None} : receive_body(s, t, body, fork)
  BY <1>3, <1>18 DEF receive_body
<1>19. CASE \E t \in CommittedTips : peer_tip_ready(t)
  BY <1>3, <1>19 DEF peer_tip_ready, archive_vars
<1>20. CASE \E t \in CommittedTips : submit_header(t.block_hash, t.main_block_hash)
  <2>1. PICK t \in CommittedTips : submit_header(t.block_hash, t.main_block_hash)
    BY <1>20
  <2> DEFINE s == t.block_hash
  <2>2. s \in SideBlocks /\ bmm_results \in Results /\ headers \in SUBSET SideBlocks
        /\ main_infos \subseteq MainBlocks
    BY <1>1 DEF CommittedTips, Tips, TypeInv, ArchiveType
  <2>3. /\ prev_side[s] = None \/ prev_side[s] \in headers
        /\ headers' = headers \cup {s}
        /\ bmm_results' = put_header(bmm_results, s)
        /\ main_infos' = main_infos
    BY <2>1 DEF submit_header, HeaderStorable
  <2> HIDE DEF s
  <2>4. /\ SoundBmm(put_header(bmm_results, s))
        /\ CompleteBmm(put_header(bmm_results, s), headers \cup {s}, main_infos)
        /\ VerifiedStays(bmm_results, put_header(bmm_results, s))
    BY <1>1, <2>2, <2>3, PutHeaderExact
  <2>5. ClosedSide(headers \cup {s})
    BY <1>1, <2>3 DEF ClosedSide
  <2> QED
    BY <1>1, <2>3, <2>4, <2>5
<1>21. CASE submit_body
  BY <1>3, <1>21 DEF submit_body
<1>22. CASE \E s \in SideBlocks, gone \in BOOLEAN : sync_to_tip(s, gone)
  BY <1>3, <1>22 DEF sync_to_tip, archive_vars
<1>23. CASE \E s \in SideBlocks : invalidate_block(s)
  <2>1. PICK s \in SideBlocks : invalidate_block(s)
    BY <1>23
  <2>2. UNCHANGED <<main_infos, bmm_results>>
    BY <2>1 DEF invalidate_block
  <2> QED
    BY <1>1, <2>1, <2>2, BmmInvalidate DEF VerifiedStays
<1>24. CASE Restart
  BY <1>3, <1>24 DEF Restart, archive_vars
<1> QED
  BY <1>5, <1>6, <1>7, <1>8, <1>9, <1>10, <1>11, <1>12, <1>13, <1>14, <1>15, <1>16, <1>17, <1>18,
     <1>19, <1>20, <1>21, <1>22, <1>23, <1>24 DEF Next, MainTask, NetTask

(* An empty archive satisfies it.                                           *)
LEMMA BmmInit ==
    Init => BmmInv
<1>1. Init => TypeInv
  BY TypeInit
<1>2. Init => /\ ClosedSide(headers) /\ ClosedMain(main_infos)
              /\ SoundBmm(bmm_results)
              /\ CompleteBmm(bmm_results, headers, main_infos)
  BY DEF Init, ClosedSide, ClosedMain, SoundBmm, CompleteBmm
<1> QED
  BY <1>1, <1>2 DEF BmmInv

(* Whatever the order in which headers and mainchain infos arrive, from     *)
(* peers, from the stream, from a resubscription or a reorganisation, and   *)
(* whatever is invalidated in between, a stored header is marked Verified   *)
(* at exactly the known mainchain blocks that validly merge-mine it.        *)
THEOREM BmmAlwaysExact ==
    Spec => []BmmExact
<1>1. Init => BmmInv
  BY BmmInit
<1>2. BmmInv /\ [Next]_vars => BmmInv'
  BY BmmStep
<1>3. BmmInv => BmmExact
  <2>1. BmmInv => headers \subseteq SideBlocks /\ main_infos \subseteq MainBlocks
    BY DEF BmmInv, TypeInv, ArchiveType
  <2> QED
    BY <2>1 DEF BmmInv, SoundBmm, CompleteBmm, BmmExact
<1> QED
  BY <1>1, <1>2, <1>3, PTL DEF Spec

(* put_header and put_main_block_info check a block again whenever its      *)
(* header or the mainchain block's info is stored again: a verification is  *)
(* never taken back by that, not even one of an invalidated block.          *)
THEOREM VerificationsKept ==
    Spec => [][VerifiedStays(bmm_results, bmm_results')]_vars
<1>1. Init => BmmInv
  BY BmmInit
<1>2. BmmInv /\ [Next]_vars => BmmInv'
  BY BmmStep
<1>3. BmmInv /\ [Next]_vars => [VerifiedStays(bmm_results, bmm_results')]_vars
  BY BmmStep
<1> QED
  BY <1>1, <1>2, <1>3, PTL DEF Spec

-----------------------------------------------------------------------------
(* The connected chain.                                                     *)

(* The body the net task is about to discard is of no connected block.      *)
DiscardsOffChain ==
    net_task.pc \in {"mainchain discard", "peer discard"} =>
        net_task.block \notin SideSet(state_tip)

(* No wrong body can come for a block whose body is stored.                 *)
NoWrongLateBody == ~(env.bad /\ env.late)

(* The inductive invariant of the connected chain.  The middle part is what *)
(* the environment promises, the last what the net task remembers between   *)
(* the transaction that fails and the one that discards the body.           *)
ChainPart == StateChainSound /\ NoWrongLateBody /\ DiscardsOffChain

(* The parts of what the net task is in the middle of.                      *)
LEMMA TaskFields ==
    \A p, t, b, g : LET task == [pc |-> p, tip |-> t, block |-> b, gone |-> g]
                    IN  task.pc = p /\ task.tip = t /\ task.block = b
  OBVIOUS

(* What holds of the pc it is made with holds of its pc.                    *)
LEMMA TaskPc ==
    \A D, task :
        (\E p, t, b, g : p \notin D /\ task = [pc |-> p, tip |-> t, block |-> b, gone |-> g])
            => task.pc \notin D
  OBVIOUS

(* In these no body is about to be discarded.                               *)
LEMMA NotDiscarding ==
    ASSUME NEW task, NEW t, NEW b, NEW g,
           \/ task = Idle
           \/ task = Dead
           \/ task = [pc |-> "headers", tip |-> t, block |-> b, gone |-> g]
           \/ task = [pc |-> "mainchain reorg", tip |-> t, block |-> b, gone |-> g]
           \/ task = [pc |-> "peer reorg", tip |-> t, block |-> b, gone |-> g]
    PROVE  task.pc \notin {"mainchain discard", "peer discard"}
<1> DEFINE D == {"mainchain discard", "peer discard"}
<1>1. \E p, u, c, h : p \notin D /\ task = [pc |-> p, tip |-> u, block |-> c, gone |-> h]
  <2>1. /\ "idle" \notin D /\ "dead" \notin D /\ "headers" \notin D
        /\ "mainchain reorg" \notin D /\ "peer reorg" \notin D
    OBVIOUS
  <2> HIDE DEF D
  <2> QED
    BY <2>1, Zenon DEF Idle, Dead, AtRest
<1> HIDE DEF D
<1>2. task.pc \notin D
  BY <1>1, TaskPc, Zenon
<1> QED
  BY <1>2 DEF D

(* A step that adds no block to the chain keeps the invariant, if what is   *)
(* stored of the blocks it leaves connected stays.                          *)
LEMMA ChainShrinks ==
    ASSUME ChainPart,
           SideSet(state_tip') \subseteq SideSet(state_tip),
           \A x \in SideSet(state_tip') :
               /\ x \in headers => x \in headers'
               /\ bodies[x] = "good" => bodies'[x] = "good",
           env'.bad = env.bad, env'.late = env.late,
           \/ net_task' = net_task
           \/ net_task'.pc \notin {"mainchain discard", "peer discard"}
    PROVE  ChainPart'
<1>1. SideSet(state_tip)' = SideSet(state_tip')
  BY DEF SideSet
<1>2. StateChainSound'
  BY <1>1 DEF ChainPart, StateChainSound
<1>3. NoWrongLateBody'
  BY DEF ChainPart, NoWrongLateBody
<1>4. DiscardsOffChain'
  BY <1>1 DEF ChainPart, DiscardsOffChain
<1> QED
  BY <1>2, <1>3, <1>4 DEF ChainPart

(* A step that leaves the chain and what is stored of it alone.             *)
LEMMA ChainStays ==
    ASSUME ChainPart, state_tip' = state_tip, headers \subseteq headers', bodies' = bodies,
           env' = env,
           \/ net_task' = net_task
           \/ net_task'.pc \notin {"mainchain discard", "peer discard"}
    PROVE  ChainPart'
<1>1. SideSet(state_tip') = SideSet(state_tip)
  OBVIOUS
<1> QED
  BY <1>1, ChainShrinks

(* A reorganisation connects only stored blocks whose bodies are theirs; of *)
(* one that fails, the body to discard is of no connected block.            *)
LEMMA ChainReorg ==
    ASSUME TypeInv, ChainPart, reorg_to_tip
    PROVE  ChainPart'
<1> DEFINE t == net_task.tip
           s == t.block_hash
<1>1. t \in Tips /\ s \in SideBlocks /\ state_tip \in SideBlocks \cup {None}
  <2>1. net_task.tip \in Tips
    BY DEF reorg_to_tip, Reorging, TypeInv, NetTaskType, NetTaskOK
  <2> QED
    BY <2>1 DEF Tips, TypeInv, ChainType
<1>2. PICK o : ReorgStep(t, o) /\ OutcomeOK(t, o)
  BY ReorgOutcomes
<1>3. UNCHANGED <<headers, bodies, env>>
  BY DEF reorg_to_tip, main_vars, enforcer_vars
<1>4. \A x \in SideSet(state_tip) : x \in headers /\ bodies[x] = "good"
  BY DEF ChainPart, StateChainSound
<1>5. CASE o = "done"
  <2>1. state_tip' = s /\ net_task' \in {Idle, Dead}
    BY <1>2, <1>5, AnsweredForms DEF ReorgStep
  <2>2. \A x \in SideSet(s) \ SideSet(ForkWith(s)) :
            x \in headers /\ bodies[x] \notin {"none", "bad"}
    BY <1>2, <1>5 DEF OutcomeOK
  <2>3. SideSet(s) \subseteq SideBlocks
    BY <1>1, SideAncestry, ChainsAssumption DEF SideSet
  <2>4. bodies \in [SideBlocks -> {"none", "good", "bad"}]
    BY DEF TypeInv, ArchiveType
  <2>5. \A x \in SideSet(s) \cap SideSet(ForkWith(s)) : x \in headers /\ bodies[x] = "good"
    BY <1>1, <1>4, Forks
  <2>6. \A x \in SideSet(s) : x \in headers /\ bodies[x] = "good"
    BY <2>2, <2>3, <2>4, <2>5
  <2>7. SideSet(state_tip)' = SideSet(s)
    BY <2>1 DEF SideSet
  <2>8. StateChainSound'
    BY <1>3, <2>6, <2>7 DEF StateChainSound
  <2>9. NoWrongLateBody' /\ DiscardsOffChain'
    BY <1>3, <2>1, NotDiscarding DEF ChainPart, NoWrongLateBody, DiscardsOffChain
  <2> QED
    BY <2>8, <2>9 DEF ChainPart
<1>6. CASE o \in {"kept", "fatal", "undo failed"}
  <2>1. state_tip' = state_tip /\ net_task' \in {Idle, Dead}
    BY <1>2, <1>6, AnsweredForms DEF ReorgStep
  <2>2. net_task'.pc \notin {"mainchain discard", "peer discard"}
    BY <2>1, NotDiscarding
  <2> QED
    BY <1>3, <2>1, <2>2, ChainStays
<1>7. CASE o \notin {"kept", "done", "fatal", "undo failed"}
  <2>1. bodies[o] = "bad"
    BY <1>2, <1>7 DEF OutcomeOK
  <2>2. o \notin SideSet(state_tip)
    BY <1>4, <2>1
  <2>3. state_tip' = state_tip /\ net_task'.block = o
    <3>1. /\ state_tip' = state_tip
          /\ \E p, g : net_task' = [pc |-> p, tip |-> t, block |-> o, gone |-> g]
      BY <1>2, <1>7, Zenon DEF ReorgStep
    <3> QED
      BY <3>1, TaskFields
  <2>4. SideSet(state_tip)' = SideSet(state_tip)
    BY <2>3 DEF SideSet
  <2>5. StateChainSound'
    BY <1>3, <1>4, <2>4 DEF StateChainSound
  <2>6. NoWrongLateBody' /\ DiscardsOffChain'
    BY <1>3, <2>2, <2>3, <2>4 DEF ChainPart, NoWrongLateBody, DiscardsOffChain
  <2> QED
    BY <2>5, <2>6 DEF ChainPart
<1> QED
  BY <1>5, <1>6, <1>7

(* A body that arrives is of no connected block, or it is the right one.    *)
LEMMA ChainReceiveBody ==
    ASSUME TypeInv, ChainPart, NEW s \in SideBlocks, NEW t, NEW body \in {"good", "bad"},
           NEW fork, receive_body(s, t, body, fork)
    PROVE  ChainPart'
<1>1. /\ state_tip' = state_tip /\ headers' = headers /\ env' = env
      /\ bodies' = bodies \/ bodies' = [bodies EXCEPT ![s] = body]
      /\ body = "bad" => env.bad
      /\ env.late \/ bodies[s] = "none"
      /\ net_task' = Idle \/ net_task' = Dead
  BY DEF receive_body, main_vars, enforcer_vars
<1>2. bodies \in [SideBlocks -> {"none", "good", "bad"}]
  BY DEF TypeInv, ArchiveType
<1>3. ASSUME NEW x \in SideBlocks, bodies[x] = "good" PROVE bodies'[x] = "good"
  BY <1>1, <1>2, <1>3 DEF ChainPart, NoWrongLateBody
<1>4. SideSet(state_tip) \subseteq SideBlocks
  BY SideAncestry DEF TypeInv, ChainType, SideSet
<1>5. net_task'.pc \notin {"mainchain discard", "peer discard"}
  BY <1>1, NotDiscarding
<1> QED
  BY <1>1, <1>3, <1>4, <1>5, ChainShrinks

(* The body that is discarded is of no connected block.                     *)
LEMMA ChainDiscard ==
    ASSUME TypeInv, ChainPart, discard_body
    PROVE  ChainPart'
<1> DEFINE s == net_task.block
<1>1. /\ state_tip' = state_tip /\ headers' = headers /\ env' = env
      /\ bodies' = bodies \/ bodies' = [bodies EXCEPT ![s] = "none"]
      /\ net_task' = Idle \/ net_task' = Dead
      /\ s \notin SideSet(state_tip)
  BY AnsweredForms DEF discard_body, main_vars, enforcer_vars, ChainPart, DiscardsOffChain
<1> HIDE DEF s
<1>2. bodies \in [SideBlocks -> {"none", "good", "bad"}]
  BY DEF TypeInv, ArchiveType
<1>3. SideSet(state_tip) \subseteq SideBlocks
  BY SideAncestry DEF TypeInv, ChainType, SideSet
<1>4. ASSUME NEW x \in SideSet(state_tip) PROVE bodies'[x] = bodies[x]
  BY <1>1, <1>2, <1>3
<1>5. net_task'.pc \notin {"mainchain discard", "peer discard"}
  BY <1>1, NotDiscarding
<1> QED
  BY <1>1, <1>4, <1>5, ChainShrinks

(* Invalidation takes the chain back below the block it removes.            *)
LEMMA ChainInvalidate ==
    ASSUME TypeInv, ChainPart, NEW s \in SideBlocks, invalidate_block(s)
    PROVE  ChainPart'
<1>1. /\ headers' = {x \in headers : ~IsDescendant(s, x)}
      /\ bodies' = [x \in SideBlocks |->
                       IF x \in headers /\ IsDescendant(s, x) THEN "none" ELSE bodies[x]]
      /\ state_tip' = IF s \in SideSet(state_tip) THEN prev_side[s] ELSE state_tip
      /\ env' = env /\ net_task' = net_task
  BY DEF invalidate_block, main_vars, enforcer_vars, net_vars
<1>2. state_tip \in SideBlocks \cup {None}
  BY DEF TypeInv, ChainType
<1>3. SideSet(state_tip') \subseteq SideSet(state_tip)
      /\ \A x \in SideSet(state_tip') : x \in SideBlocks /\ ~IsDescendant(s, x)
  <2>1. CASE s \in SideSet(state_tip)
    <3>1. SideSet(state_tip') = SideSet(prev_side[s])
      BY <1>1, <2>1
    <3>2. Ancestors[s] \subseteq SideSet(state_tip)
      BY <1>2, <2>1, SideAncestry DEF SideSet
    <3> QED
      BY <3>1, <3>2, SideAncestry, ChainsAssumption DEF SideSet, IsDescendant
  <2>2. CASE s \notin SideSet(state_tip)
    <3>1. SideSet(state_tip') = SideSet(state_tip)
      BY <1>1, <2>2
    <3> QED
      BY <1>2, <2>2, <3>1, SideAncestry, ChainsAssumption DEF SideSet, IsDescendant
  <2> QED
    BY <2>1, <2>2
<1> QED
  BY <1>1, <1>3, ChainShrinks

(* Every step keeps the invariant of the connected chain.                   *)
LEMMA ChainStep ==
    ASSUME BmmInv, ChainPart, [Next]_vars
    PROVE  ChainPart'
<1>1. TypeInv
  BY DEF BmmInv
<1> DEFINE AtWork(pc) == pc \in {"mainchain discard", "peer discard"}
<1>2. CASE UNCHANGED vars
  BY <1>2, ChainStays DEF vars, archive_vars, main_vars, enforcer_vars, net_vars
<1>3. CASE \E m \in MainBlocks : MineMainBlock(m)
  BY <1>3, ChainStays DEF MineMainBlock, archive_vars, net_vars
<1>4. CASE \E m \in MainBlocks, announced \in BOOLEAN : ReorgMainchain(m, announced)
  <2>1. env \in Environment
    BY <1>1 DEF TypeInv, MainchainType
  <2>2. /\ UNCHANGED <<headers, bodies, state_tip, net_task>>
        /\ env' = [env EXCEPT !.reorgs = env.reorgs - 1]
    BY <1>4 DEF ReorgMainchain, archive_vars, net_vars
  <2>3. env'.bad = env.bad /\ env'.late = env.late
    BY <2>1, <2>2 DEF Environment
  <2>4. SideSet(state_tip') = SideSet(state_tip)
    BY <2>2
  <2> QED
    BY <2>2, <2>3, <2>4, ChainShrinks
<1>5. CASE subscribe_block_events
  BY <1>5, ChainStays DEF subscribe_block_events, enforcer_vars, net_vars
<1>6. CASE sync_side_tips_to_tip
  BY <1>6, ChainStays DEF sync_side_tips_to_tip, archive_vars, enforcer_vars
<1>7. CASE handle_block_event
  BY <1>7, ChainStays DEF handle_block_event, enforcer_vars
<1>8. CASE \E m \in MainBlocks : handle_request(m)
  BY <1>8, ChainStays DEF handle_request, main_vars, enforcer_vars, net_vars
<1>9. CASE StreamCloses
  BY <1>9, ChainStays DEF StreamCloses, archive_vars, enforcer_vars, net_vars
<1>10. CASE handle_mainchain_block_event
  <2>1. \/ state_tip' = Kept /\ net_task' = Idle
        \/ /\ state_tip' = Kept
           /\ \E t \in BestSideTips :
                  net_task' = [pc |-> "mainchain reorg", tip |-> t, block |-> None,
                               gone |-> FALSE]
        \/ state_tip' = state_tip /\ net_task' = Dead
    BY <1>10 DEF handle_mainchain_block_event, Kept
  <2>2. UNCHANGED <<headers, bodies, env>>
    BY <1>10 DEF handle_mainchain_block_event, archive_vars, main_vars, enforcer_vars
  <2>3. ~AtWork(net_task'.pc)
    BY <2>1, NotDiscarding
  <2>4. SideSet(state_tip') \subseteq SideSet(state_tip)
    BY <1>1, <2>1, KeptOnChain
  <2> QED
    BY <2>2, <2>3, <2>4, ChainShrinks
<1>11. CASE new_tip_ready
  <2>1. UNCHANGED <<state_tip, headers, bodies, env>>
    BY <1>11 DEF new_tip_ready, archive_vars, main_vars, enforcer_vars
  <2>2. net_task' \in {Idle, Dead, [pc |-> "peer reorg", tip |-> Head(new_tips).tip,
                                    block |-> None, gone |-> Head(new_tips).gone]}
    BY <1>11, AnsweredForms DEF new_tip_ready
  <2>3. ~AtWork(net_task'.pc)
    BY <2>2, NotDiscarding
  <2> QED
    BY <2>1, <2>3, ChainStays
<1>12. CASE reorg_to_tip
  BY <1>1, <1>12, ChainReorg
<1>13. CASE discard_body
  BY <1>1, <1>13, ChainDiscard
<1>14. CASE store_headers
  <2> DEFINE path == SidePath(net_task.block, net_task.tip.block_hash)
             acc == [headers |-> headers, results |-> bmm_results, stop |-> FALSE, ok |-> TRUE]
             stored == FoldLeft(StoreHeader, acc, path)
  <2>1. path \in Seq(SideBlocks)
    <3>1. net_task.tip.block_hash \in SideBlocks
          /\ net_task.block \in SideSet(net_task.tip.block_hash) \cup {None}
      BY <1>1, <1>14 DEF store_headers, TypeInv, NetTaskType, NetTaskOK, Tips
    <3> QED
      BY <3>1, SidePaths DEF PathFacts
  <2>2. \/ headers' = stored.headers /\ net_task' = Idle
        \/ headers' = headers /\ net_task' = Dead
    BY <1>14 DEF store_headers
  <2>3. UNCHANGED <<state_tip, bodies, env>>
    BY <1>14 DEF store_headers, main_vars, enforcer_vars
  <2>4. headers \subseteq stored.headers
    <3> HIDE DEF path
    <3> QED
      BY <2>1, BmmStoreHeaders
  <2> HIDE DEF stored
  <2>5. ~AtWork(net_task'.pc)
    BY <2>2, NotDiscarding
  <2> QED
    BY <2>2, <2>3, <2>4, <2>5, ChainStays
<1>15. CASE \E t \in CommittedTips, start \in SideBlocks \cup {None} : check_headers(t, start)
  <2>1. PICK t \in CommittedTips, start \in SideBlocks \cup {None} : check_headers(t, start)
    BY <1>15
  <2>2. UNCHANGED <<state_tip, headers, bodies, env>>
    BY <2>1 DEF check_headers, archive_vars, main_vars, enforcer_vars
  <2>3. net_task' \in {Dead, [pc |-> "headers", tip |-> t, block |-> start, gone |-> FALSE]}
    BY <2>1 DEF check_headers
  <2>4. ~AtWork(net_task'.pc)
    BY <2>3, NotDiscarding
  <2> QED
    BY <2>2, <2>4, ChainStays
<1>16. CASE \E s \in SideBlocks, t \in CommittedTips, body \in {"good", "bad"},
              fork \in SideBlocks \cup {None} : receive_body(s, t, body, fork)
  BY <1>1, <1>16, ChainReceiveBody
<1>17. CASE \E t \in CommittedTips : peer_tip_ready(t)
  BY <1>17, ChainStays DEF peer_tip_ready, archive_vars, main_vars, enforcer_vars
<1>18. CASE \E t \in CommittedTips : submit_header(t.block_hash, t.main_block_hash)
  BY <1>18, ChainStays DEF submit_header, main_vars, enforcer_vars, net_vars
<1>19. CASE submit_body
  <2> DEFINE s == submit.block_hash
  <2>1. /\ UNCHANGED <<state_tip, headers, env, net_task>>
        /\ bodies' = bodies \/ bodies' = [bodies EXCEPT ![s] = "good"]
    BY <1>19 DEF submit_body, main_vars, enforcer_vars
  <2>2. bodies \in [SideBlocks -> {"none", "good", "bad"}]
    BY <1>1 DEF TypeInv, ArchiveType
  <2>3. SideSet(state_tip) \subseteq SideBlocks
    BY <1>1, SideAncestry DEF TypeInv, ChainType, SideSet
  <2> HIDE DEF s
  <2>4. ASSUME NEW x \in SideSet(state_tip), bodies[x] = "good" PROVE bodies'[x] = "good"
    BY <2>1, <2>2, <2>3, <2>4
  <2>5. SideSet(state_tip') = SideSet(state_tip)
    BY <2>1
  <2> QED
    BY <2>1, <2>4, <2>5, ChainShrinks
<1>20. CASE \E s \in SideBlocks, gone \in BOOLEAN : sync_to_tip(s, gone)
  BY <1>20, ChainStays DEF sync_to_tip, archive_vars, main_vars, enforcer_vars
<1>21. CASE \E s \in SideBlocks : invalidate_block(s)
  BY <1>1, <1>21, ChainInvalidate
<1>22. CASE Restart
  <2>1. env \in Environment
    BY <1>1 DEF TypeInv, MainchainType
  <2>2. /\ UNCHANGED <<headers, bodies, state_tip>>
        /\ net_task' = Idle
        /\ env' = [env EXCEPT !.restarts = env.restarts - 1]
    BY <1>22 DEF Restart, archive_vars
  <2>3. env'.bad = env.bad /\ env'.late = env.late
    BY <2>1, <2>2 DEF Environment
  <2>4. SideSet(state_tip') = SideSet(state_tip) /\ ~AtWork(net_task'.pc)
    BY <2>2, NotDiscarding
  <2> QED
    BY <2>2, <2>3, <2>4, ChainShrinks
<1> QED
  BY <1>2, <1>3, <1>4, <1>5, <1>6, <1>7, <1>8, <1>9, <1>10, <1>11, <1>12, <1>13, <1>14, <1>15,
     <1>16, <1>17, <1>18, <1>19, <1>20, <1>21, <1>22 DEF Next, MainTask, NetTask

(* The connected chain consists of stored blocks whose bodies are the ones  *)
(* their headers commit to, through every reorganisation, failed or not,    *)
(* discarded body, late answer, invalidation and restart, as long as peers  *)
(* that send wrong bodies do not send them for blocks that have one:        *)
(* put_body would overwrite the body of a connected block.                  *)
THEOREM StateChainAlwaysSound ==
    ASSUME \A e \in Environments : ~(e.bad /\ e.late)
    PROVE  Spec => []StateChainSound
<1>1. Init => BmmInv /\ ChainPart
  <2>1. Init => BmmInv
    BY BmmInit
  <2>2. Init => StateChainSound
    BY DEF Init, StateChainSound, SideSet
  <2>3. Init => NoWrongLateBody
    BY DEF Init, NoWrongLateBody
  <2>4. Init => DiscardsOffChain
    BY DEF Init, DiscardsOffChain, Idle, AtRest
  <2> QED
    BY <2>1, <2>2, <2>3, <2>4 DEF ChainPart
<1>2. BmmInv /\ ChainPart /\ [Next]_vars => (BmmInv /\ ChainPart)'
  BY BmmStep, ChainStep
<1>3. BmmInv /\ ChainPart => StateChainSound
  BY DEF ChainPart
<1> QED
  BY <1>1, <1>2, <1>3, PTL DEF Spec


-----------------------------------------------------------------------------
(* The index of side tips, proved sound for every mainchain, sidechain and  *)
(* environment: the two tables agree, hold only what the active mainchain   *)
(* merge-mines, and every tip can be re-orged to.                           *)

(* The stream of block events as a walk through the mainchain.  A reorgani- *)
(* sation whose Disconnect events are missing is a walk too: it jumps.      *)

(* Where an event leaves the walk.                                          *)
AfterEvent(e) == IF e.type = "Connect" THEN e.block ELSE main_prev[e.block]

(* Each Disconnect event is of the block where the walk is.                 *)
Walk(start, events, end) ==
    /\ \A i \in 1..Len(events) : events[i].type = "Disconnect" =>
           events[i].block = IF i = 1 THEN start ELSE AfterEvent(events[i - 1])
    /\ end = IF Len(events) = 0 THEN start ELSE AfterEvent(events[Len(events)])

(* Two walks, one after the other.                                          *)
LEMMA WalkOn ==
    ASSUME NEW u \in Seq(StreamEvents), NEW v \in Seq(StreamEvents), NEW a, NEW b, NEW c,
           Walk(a, u, b), Walk(b, v, c)
    PROVE  Walk(a, u \o v, c)
<1> DEFINE n == Len(u)
           k == Len(v)
           w == u \o v
<1>1. n \in Nat /\ k \in Nat /\ Len(w) = n + k
      /\ (\A i \in 1..n : w[i] = u[i]) /\ (\A i \in 1..k : w[n + i] = v[i])
  <2>1. \A i \in 1..(n + k) : w[i] = IF i <= n THEN u[i] ELSE v[i - n]
    OBVIOUS
  <2> QED
    BY <2>1
<1>2. b = IF n = 0 THEN a ELSE AfterEvent(u[n])
  BY DEF Walk
<1>3. c = IF k = 0 THEN b ELSE AfterEvent(v[k])
  BY DEF Walk
<1>4. \A i \in 1..n : u[i].type = "Disconnect" =>
          u[i].block = IF i = 1 THEN a ELSE AfterEvent(u[i - 1])
  BY DEF Walk
<1>5. \A i \in 1..k : v[i].type = "Disconnect" =>
          v[i].block = IF i = 1 THEN b ELSE AfterEvent(v[i - 1])
  BY DEF Walk
<1> HIDE DEF w, n, k
<1>6. c = IF n + k = 0 THEN a ELSE AfterEvent(w[n + k])
  <2>1. CASE k = 0
    <3>1. n # 0 => n \in 1..n
      BY <1>1
    <3> QED
      BY <1>1, <1>2, <1>3, <2>1, <3>1
  <2>2. CASE k # 0
    <3>1. k \in 1..k /\ n + k # 0
      BY <1>1, <2>2
    <3> QED
      BY <1>1, <1>3, <2>2, <3>1
  <2> QED
    BY <2>1, <2>2
<1>7. ASSUME NEW i \in 1..(n + k), w[i].type = "Disconnect"
      PROVE  w[i].block = IF i = 1 THEN a ELSE AfterEvent(w[i - 1])
  <2>1. CASE i \in 1..n
    <3>1. i # 1 => i - 1 \in 1..n
      BY <1>1, <2>1
    <3> QED
      BY <1>1, <1>4, <1>7, <2>1, <3>1
  <2>2. CASE i \notin 1..n
    <3> DEFINE j == i - n
    <3>1. j \in 1..k /\ i = n + j
      BY <1>1, <2>2
    <3>2. w[i] = v[j]
      BY <1>1, <3>1
    <3>3. v[j].block = IF j = 1 THEN b ELSE AfterEvent(v[j - 1])
      BY <1>5, <1>7, <3>1, <3>2
    <3>4. CASE j = 1
      <4>1. n = 0 => i = 1
        BY <3>1, <3>4
      <4>2. n # 0 => i # 1 /\ i - 1 = n /\ n \in 1..n
        BY <1>1, <3>1, <3>4
      <4> QED
        BY <1>1, <1>2, <3>2, <3>3, <3>4, <4>1, <4>2
    <3>5. CASE j # 1
      <4>1. j - 1 \in 1..k /\ i - 1 = n + (j - 1) /\ i # 1
        BY <1>1, <3>1, <3>5
      <4>2. w[i - 1] = v[j - 1]
        BY <1>1, <4>1
      <4> QED
        BY <3>2, <3>3, <3>5, <4>1, <4>2
    <3> QED
      BY <3>4, <3>5
  <2> QED
    BY <2>1, <2>2
<1> QED
  BY <1>1, <1>6, <1>7 DEF Walk, w

(* The first step of a walk, and the rest of it.                            *)
LEMMA WalkTail ==
    ASSUME NEW u \in Seq(StreamEvents), u # <<>>, NEW a, NEW c, Walk(a, u, c)
    PROVE  /\ Head(u).type = "Disconnect" => Head(u).block = a
           /\ Walk(AfterEvent(Head(u)), Tail(u), c)
<1> DEFINE n == Len(u)
           v == Tail(u)
<1>1. n \in Nat /\ n > 0 /\ Len(v) = n - 1 /\ Head(u) = u[1] /\ \A i \in 1..(n - 1) : v[i] = u[i + 1]
  OBVIOUS
<1>2. c = AfterEvent(u[n])
  BY <1>1 DEF Walk
<1>3. \A i \in 1..n : u[i].type = "Disconnect" =>
          u[i].block = IF i = 1 THEN a ELSE AfterEvent(u[i - 1])
  BY DEF Walk
<1> HIDE DEF n, v
<1>4. c = IF Len(v) = 0 THEN AfterEvent(u[1]) ELSE AfterEvent(v[Len(v)])
  <2>1. CASE n = 1
    BY <1>1, <1>2, <2>1
  <2>2. CASE n # 1
    <3>1. n - 1 \in 1..(n - 1) /\ (n - 1) + 1 = n /\ Len(v) # 0
      BY <1>1, <2>2
    <3> QED
      BY <1>1, <1>2, <3>1
  <2> QED
    BY <2>1, <2>2
<1>5. ASSUME NEW i \in 1..(n - 1), v[i].type = "Disconnect"
      PROVE  v[i].block = IF i = 1 THEN AfterEvent(u[1]) ELSE AfterEvent(v[i - 1])
  <2>1. i + 1 \in 1..n /\ i + 1 # 1 /\ (i + 1) - 1 = i /\ v[i] = u[i + 1]
    BY <1>1
  <2>2. v[i].block = AfterEvent(u[i])
    BY <1>3, <1>5, <2>1
  <2>3. i # 1 => i - 1 \in 1..(n - 1) /\ (i - 1) + 1 = i
    BY <1>1
  <2> QED
    BY <1>1, <2>2, <2>3
<1>6. 1 \in 1..n
  BY <1>1
<1> QED
  BY <1>1, <1>3, <1>4, <1>5, <1>6 DEF Walk, v

(* The walks up a path and down a path.                                     *)
LEMMA WalkPaths ==
    ASSUME NEW a \in MainBlocks \cup {Zero}, NEW b \in MainBlocks \cup {Zero}, NEW p,
           PathFacts(p, MainAncestors, MainBlocks, Zero, main_prev, a, b)
    PROVE  /\ \A c : Len(p) > 0 => Walk(c, Events("Connect", p), b)
           /\ Walk(b, Events("Disconnect", Reverse(p)), a)
<1> DEFINE n == Len(p)
           up == Events("Connect", p)
           down == Events("Disconnect", Reverse(p))
<1>1. /\ p \in Seq(MainBlocks)
      /\ \A i \in 1..n : main_prev[p[i]] = IF i = 1 THEN a ELSE p[i - 1]
      /\ n = 0 => a = b
      /\ n > 0 => p[n] = b
  BY DEF PathFacts
<1>2. n \in Nat /\ Len(up) = n /\ \A i \in 1..n : up[i].type = "Connect" /\ up[i].block = p[i]
  BY <1>1 DEF Events
<1>3. Len(down) = n
      /\ \A i \in 1..n : down[i].type = "Disconnect" /\ down[i].block = p[(n - i) + 1]
  <2>1. Reverse(p) = [i \in 1..n |-> p[(n - i) + 1]]
    BY DEF Reverse
  <2>2. DOMAIN Reverse(p) = 1..n
    BY <2>1
  <2>3. down = [i \in 1..n |-> [type |-> "Disconnect", block |-> p[(n - i) + 1]]]
    BY <2>1, <2>2 DEF Events
  <2> QED
    BY <1>2, <2>3
<1> HIDE DEF up, down, n
<1>4. ASSUME NEW c, n > 0 PROVE Walk(c, up, b)
  <2>1. n \in 1..n /\ n # 0
    BY <1>2, <1>4
  <2>2. \A i \in 1..n : up[i].type # "Disconnect"
    BY <1>2
  <2>3. AfterEvent(up[n]) = b
    BY <1>1, <1>2, <1>4, <2>1 DEF AfterEvent
  <2> QED
    BY <1>2, <2>1, <2>2, <2>3 DEF Walk
<1>5. \A i \in 1..n : AfterEvent(down[i]) = IF i = n THEN a ELSE p[n - i]
  <2> SUFFICES ASSUME NEW i \in 1..n PROVE AfterEvent(down[i]) = IF i = n THEN a ELSE p[n - i]
    OBVIOUS
  <2>1. AfterEvent(down[i]) = main_prev[p[(n - i) + 1]]
    BY <1>3 DEF AfterEvent
  <2>2. (n - i) + 1 \in 1..n /\ ((n - i) + 1 = 1 <=> i = n) /\ ((n - i) + 1) - 1 = n - i
    BY <1>2
  <2> QED
    BY <1>1, <2>1, <2>2
<1>6. ASSUME NEW i \in 1..n
      PROVE  down[i].block = IF i = 1 THEN b ELSE AfterEvent(down[i - 1])
  <2>1. CASE i = 1
    <3>1. n > 0 /\ (n - i) + 1 = n
      BY <1>2, <2>1
    <3> QED
      BY <1>1, <1>3, <2>1, <3>1
  <2>2. CASE i # 1
    <3>1. i - 1 \in 1..n /\ i - 1 # n /\ n - (i - 1) = (n - i) + 1
      BY <1>2, <2>2
    <3> QED
      BY <1>3, <1>5, <2>2, <3>1
  <2> QED
    BY <2>1, <2>2
<1>7. a = IF n = 0 THEN b ELSE AfterEvent(down[n])
  <2>1. n # 0 => n \in 1..n
    BY <1>2
  <2> QED
    BY <1>1, <1>5, <2>1
<1>8. Walk(b, down, a)
  BY <1>3, <1>6, <1>7 DEF Walk
<1> QED
  BY <1>4, <1>8 DEF up, down, n

-----------------------------------------------------------------------------
(* The operations on the tables.                                            *)

(* The sorted table holds only tips on the active mainchain, as the other   *)
(* table has them and as they were verified.                                *)
Sorted(st, r) ==
    \A t \in st.ordered :
        /\ IsMainDescendant(t.main_block_hash, st.tip)
        /\ st.tips[t.block_hash] = t.main_block_hash
        /\ r[<<t.block_hash, t.main_block_hash>>] = "Verified"

(* The ancestors of a tip are stored, with their bodies, and tips.          *)
Whole(st, H, B) ==
    \A s \in SideBlocks : st.tips[s] # None =>
        \A x \in Ancestors[s] : x \in H /\ B[x] # "none" /\ st.tips[x] # None

(* No body is stored without its header.                                    *)
BodiesStored == \A s \in SideBlocks : bodies[s] # "none" => s \in headers

(* A new side tip, merge-mined by mainchain block m.                        *)
Connects(st, m, r, c) ==
    \E s \in SideBlocks :
        /\ st.tips[s] = None
        /\ bodies[s] # "none" /\ ParentIsTip(st, s) /\ r[<<s, m>>] = "Verified"
        /\ c.tips = [st.tips EXCEPT ![s] = m]
        /\ c.ordered = st.ordered \cup {Tip(s, m)}

(* What connect_mainchain_tip comes to: nothing but the failure is noted,   *)
(* or the tip advances to a child, with a new side tip or without.          *)
LEMMA ConnectForms ==
    ASSUME NEW st \in SideTipsType, NEW m \in MainBlocks, NEW r,
           NEW c, c = connect_mainchain_tip(st, m, r)
    PROVE  \/ ~c.ok /\ c.tip = st.tip /\ c.tips = st.tips /\ c.ordered = st.ordered
           \/ /\ main_prev[m] = st.tip /\ c.tip = m
              /\ (c.tips = st.tips /\ c.ordered = st.ordered) \/ Connects(st, m, r, c)
<1> DEFINE s == bmm_commitment[m]
           d == connect_sidechain_tip(st, s, m)
           commitment == /\ s # None
                         /\ bodies[s] # "none"
                         /\ ParentIsTip(st, s)
                         /\ r[<<s, m>>] = "Verified"
<1>1. \A x \in SideTipsType :
          /\ [x EXCEPT !.ok = FALSE].ok = FALSE /\ [x EXCEPT !.ok = FALSE].tip = x.tip
          /\ [x EXCEPT !.ok = FALSE].tips = x.tips /\ [x EXCEPT !.ok = FALSE].ordered = x.ordered
          /\ [x EXCEPT !.tip = m].tip = m
          /\ [x EXCEPT !.tip = m].tips = x.tips /\ [x EXCEPT !.tip = m].ordered = x.ordered
  BY DEF SideTipsType
<1>2. s \in SideBlocks \cup {None}
  BY ChainsAssumption
<1>3. commitment /\ st.tips[s] = None =>
          /\ d \in SideTipsType
          /\ d.tips = [st.tips EXCEPT ![s] = m] /\ d.ordered = st.ordered \cup {Tip(s, m)}
  <2> SUFFICES ASSUME commitment, st.tips[s] = None
               PROVE  /\ d \in SideTipsType
                      /\ d.tips = [st.tips EXCEPT ![s] = m]
                      /\ d.ordered = st.ordered \cup {Tip(s, m)}
    OBVIOUS
  <2>1. s \in SideBlocks /\ Tip(s, m) \in Tips
    BY <1>2 DEF Tip, Tips
  <2>2. d = [st EXCEPT !.tips = [st.tips EXCEPT ![s] = m], !.ordered = st.ordered \cup {Tip(s, m)}]
    BY DEF connect_sidechain_tip
  <2> HIDE DEF s, d
  <2> QED
    BY <2>1, <2>2 DEF SideTipsType
<1>4. commitment /\ st.tips[s] # None => d = st
  BY DEF connect_sidechain_tip
<1>5. \/ c = [st EXCEPT !.ok = FALSE]
      \/ main_prev[m] = st.tip /\ ~commitment /\ c = [st EXCEPT !.tip = m]
      \/ main_prev[m] = st.tip /\ commitment /\ c = [d EXCEPT !.tip = m]
  BY DEF connect_mainchain_tip
<1> HIDE DEF d, s
<1>6. CASE c = [st EXCEPT !.ok = FALSE]
  BY <1>1, <1>6
<1>7. CASE main_prev[m] = st.tip /\ ~commitment /\ c = [st EXCEPT !.tip = m]
  BY <1>1, <1>7
<1>8. CASE main_prev[m] = st.tip /\ commitment /\ c = [d EXCEPT !.tip = m]
  <2>1. CASE st.tips[s] = None
    <3>1. /\ s \in SideBlocks /\ c.tip = m
          /\ c.tips = [st.tips EXCEPT ![s] = m] /\ c.ordered = st.ordered \cup {Tip(s, m)}
      BY <1>1, <1>2, <1>3, <1>8, <2>1
    <3>2. Connects(st, m, r, c)
      BY <1>8, <2>1, <3>1 DEF Connects
    <3> QED
      BY <1>8, <3>1, <3>2
  <2>2. CASE st.tips[s] # None
    BY <1>1, <1>4, <1>8, <2>2
  <2> QED
    BY <2>1, <2>2
<1> QED
  BY <1>5, <1>6, <1>7, <1>8

(* connect_mainchain_tip keeps the tables sound.                            *)
LEMMA ConnectKeeps ==
    ASSUME NEW st \in SideTipsType, NEW m \in MainBlocks, NEW r, BodiesStored, Sorted(st, r),
           NEW c, c = connect_mainchain_tip(st, m, r)
    PROVE  /\ Sorted(c, r)
           /\ Whole(st, headers, bodies) => Whole(c, headers, bodies)
           /\ c.ok => c.tip = m
<1>1. st.tips \in [SideBlocks -> MainBlocks \cup {None}] /\ st.ordered \subseteq Tips
  BY DEF SideTipsType
<1>2. None \notin MainBlocks /\ None \notin SideBlocks /\ Zero \notin MainBlocks
  BY ChainsAssumption
<1>3. CASE ~c.ok /\ c.tip = st.tip /\ c.tips = st.tips /\ c.ordered = st.ordered
  BY <1>3 DEF Sorted, Whole
<1>4. CASE main_prev[m] = st.tip /\ c.tip = m
  <2>1. \A a : IsMainDescendant(a, st.tip) => IsMainDescendant(a, c.tip)
    BY <1>2, <1>4, MainAncestry DEF IsMainDescendant
  <2>2. IsMainDescendant(m, c.tip)
    BY <1>2, <1>4, MainAncestry DEF IsMainDescendant
  <2>3. CASE c.tips = st.tips /\ c.ordered = st.ordered
    BY <1>4, <2>1, <2>3 DEF Sorted, Whole
  <2>4. ASSUME NEW s \in SideBlocks, st.tips[s] = None,
               bodies[s] # "none", ParentIsTip(st, s), r[<<s, m>>] = "Verified",
               c.tips = [st.tips EXCEPT ![s] = m], c.ordered = st.ordered \cup {Tip(s, m)}
        PROVE  Sorted(c, r) /\ (Whole(st, headers, bodies) => Whole(c, headers, bodies))
    <3>1. c.tips[s] = m /\ \A x \in SideBlocks : x # s => c.tips[x] = st.tips[x]
      BY <1>1, <2>4
    <3>2. ASSUME NEW t \in c.ordered
          PROVE  /\ IsMainDescendant(t.main_block_hash, c.tip)
                 /\ c.tips[t.block_hash] = t.main_block_hash
                 /\ r[<<t.block_hash, t.main_block_hash>>] = "Verified"
      <4>1. CASE t = Tip(s, m)
        BY <2>2, <2>4, <3>1, <4>1 DEF Tip
      <4>2. CASE t \in st.ordered
        <5>1. /\ IsMainDescendant(t.main_block_hash, st.tip)
              /\ st.tips[t.block_hash] = t.main_block_hash
              /\ r[<<t.block_hash, t.main_block_hash>>] = "Verified"
          BY <4>2 DEF Sorted
        <5>2. t.block_hash \in SideBlocks /\ t.main_block_hash \in MainBlocks
          BY <1>1, <4>2 DEF Tips
        <5>3. t.block_hash # s
          BY <1>2, <2>4, <5>1, <5>2
        <5> QED
          BY <2>1, <3>1, <5>1, <5>2, <5>3
      <4> QED
        BY <2>4, <4>1, <4>2
    <3>3. ASSUME Whole(st, headers, bodies), NEW y \in SideBlocks, c.tips[y] # None,
                 NEW x \in Ancestors[y]
          PROVE  x \in headers /\ bodies[x] # "none" /\ c.tips[x] # None
      <4>1. x \in SideBlocks
        BY SideAncestry
      <4>2. \A z \in SideBlocks : st.tips[z] # None => c.tips[z] # None
        BY <1>2, <3>1
      <4>3. ASSUME NEW z \in SideBlocks, st.tips[z] # None, x \in Ancestors[z]
            PROVE  x \in headers /\ bodies[x] # "none" /\ c.tips[x] # None
        BY <3>3, <4>1, <4>2, <4>3 DEF Whole
      <4>4. CASE y # s
        BY <3>1, <3>3, <4>3, <4>4
      <4>5. CASE x = s
        BY <1>2, <2>4, <3>1, <4>1, <4>5 DEF BodiesStored
      <4>6. CASE y = s /\ x # s
        <5>1. prev_side[s] \in SideBlocks /\ x \in Ancestors[prev_side[s]]
          BY <4>6, SideAncestry
        <5>2. st.tips[prev_side[s]] # None
          BY <1>2, <2>4, <5>1 DEF ParentIsTip
        <5> QED
          BY <4>3, <5>1, <5>2
      <4> QED
        BY <4>4, <4>5, <4>6
    <3> QED
      BY <3>2, <3>3 DEF Sorted, Whole
  <2>5. (c.tips = st.tips /\ c.ordered = st.ordered) \/ Connects(st, m, r, c)
    BY ConnectForms
  <2>6. Sorted(c, r) /\ (Whole(st, headers, bodies) => Whole(c, headers, bodies))
    BY <2>3, <2>4, <2>5 DEF Connects
  <2> QED
    BY <1>4, <2>6
<1> QED
  BY <1>3, <1>4, ConnectForms

(* disconnect_mainchain_tip keeps the tables sound if it is called for the  *)
(* block it disconnects: that block commits to no other tip.                *)
LEMMA DisconnectKeeps ==
    ASSUME NEW st \in SideTipsType, NEW m \in MainBlocks, NEW r, SoundBmm(r), Sorted(st, r),
           st.ok => st.tip = m,
           NEW d, d = disconnect_mainchain_tip(st, m)
    PROVE  /\ Sorted(d, r)
           /\ \A H, B : Whole(st, H, B) => Whole(d, H, B)
           /\ d.ok => d.tip = main_prev[m]
<1> DEFINE s == bmm_commitment[m]
<1>1. \/ ~d.ok /\ d.tip = st.tip /\ d.tips = st.tips /\ d.ordered = st.ordered
      \/ /\ st.ok /\ d.tip = main_prev[m] /\ d.tips = st.tips
         /\ d.ordered = IF s # None THEN st.ordered \ {Tip(s, st.tip)} ELSE st.ordered
  BY DEF disconnect_mainchain_tip, SideTipsType
<1> HIDE DEF s
<1>2. st.ordered \subseteq Tips
  BY DEF SideTipsType
<1>3. CASE ~d.ok /\ d.tip = st.tip /\ d.tips = st.tips /\ d.ordered = st.ordered
  BY <1>3 DEF Sorted, Whole
<1>4. CASE /\ st.ok /\ d.tip = main_prev[m] /\ d.tips = st.tips
           /\ d.ordered = IF s # None THEN st.ordered \ {Tip(s, st.tip)} ELSE st.ordered
  <2>1. st.tip = m
    BY <1>4
  <2>2. ASSUME NEW t \in d.ordered
        PROVE  /\ IsMainDescendant(t.main_block_hash, d.tip)
               /\ d.tips[t.block_hash] = t.main_block_hash
               /\ r[<<t.block_hash, t.main_block_hash>>] = "Verified"
    <3>1. t \in st.ordered /\ t \in Tips
      BY <1>2, <1>4
    <3>2. /\ IsMainDescendant(t.main_block_hash, m)
          /\ st.tips[t.block_hash] = t.main_block_hash
          /\ r[<<t.block_hash, t.main_block_hash>>] = "Verified"
      BY <2>1, <3>1 DEF Sorted
    <3>3. t.block_hash \in SideBlocks /\ t.main_block_hash \in MainBlocks
          /\ t = Tip(t.block_hash, t.main_block_hash)
      BY <3>1 DEF Tips, Tip
    <3>4. t.main_block_hash # m
      <4> SUFFICES ASSUME t.main_block_hash = m PROVE FALSE
        OBVIOUS
      <4>1. ValidBmm[<<t.block_hash, m>>]
        BY <3>2, <3>3 DEF SoundBmm
      <4>2. s = t.block_hash
        BY <3>3, <4>1, ValidBmmDef DEF s
      <4>3. s # None
        BY <3>3, <4>2, ChainsAssumption
      <4> QED
        BY <1>4, <2>1, <2>2, <3>3, <4>2, <4>3
    <3>5. IsMainDescendant(t.main_block_hash, main_prev[m])
      BY <3>2, <3>4, MainAncestry DEF IsMainDescendant
    <3> QED
      BY <1>4, <3>2, <3>5
  <2> QED
    BY <1>4, <2>2 DEF Sorted, Whole
<1> QED
  BY <1>1, <1>3, <1>4

(* put_body keeps the tables sound: the blocks it connects are BMM-verified *)
(* on the active mainchain, and so are their ancestors down to a tip.       *)
LEMMA PutBodyKeeps ==
    ASSUME headers \in SUBSET SideBlocks, ClosedSide(headers),
           NEW st \in SideTipsType, NEW s \in SideBlocks, Sorted(st, bmm_results),
           NEW p, p = put_body(st, s)
    PROVE  /\ Sorted(p, bmm_results)
           /\ p.tip = st.tip
           /\ \A B : /\ B[s] # "none"
                     /\ \A x \in SideBlocks : bodies[x] # "none" => B[x] # "none"
                     /\ Whole(st, headers, B)
                     => Whole(p, headers, B)
<1> DEFINE main(x) == CHOOSE m \in ActiveVerifications(st, x) : TRUE
           new == {x \in ConnectedByBody(st, s) : st.tips[x] = None}
<1>1. /\ st.tips \in [SideBlocks -> MainBlocks \cup {None}] /\ st.ordered \subseteq Tips
      /\ None \notin MainBlocks /\ None \notin SideBlocks
  BY ChainsAssumption DEF SideTipsType
<1>2. ASSUME NEW x \in new
      PROVE  /\ x \in SideBlocks /\ x \in ConnectedByBody(st, s) /\ st.tips[x] = None
             /\ main(x) \in MainBlocks
             /\ bmm_results[<<x, main(x)>>] = "Verified"
             /\ IsMainDescendant(main(x), st.tip)
  <2>1. x \in SideBlocks /\ ActiveVerifications(st, x) # {}
    BY Connected
  <2>2. main(x) \in ActiveVerifications(st, x)
    BY <2>1
  <2>3. main(x) \in VerifiedAt(x) /\ IsMainDescendant(main(x), st.tip)
    BY <2>2 DEF ActiveVerifications
  <2>4. main(x) \in MainBlocks /\ bmm_results[<<x, main(x)>>] = "Verified"
    <3> HIDE DEF main
    <3> QED
      BY <1>1, <2>1, <2>3 DEF VerifiedAt
  <2> QED
    BY <2>1, <2>3, <2>4
<1>3. /\ p.tip = st.tip
      /\ p.tips = [x \in SideBlocks |-> IF x \in new THEN main(x) ELSE st.tips[x]]
      /\ p.ordered = st.ordered \cup {Tip(x, main(x)) : x \in new}
  <2>1. p = [st EXCEPT !.tips = [x \in SideBlocks |-> IF x \in new THEN main(x) ELSE @[x]],
                       !.ordered = @ \cup {Tip(x, main(x)) : x \in new}]
    BY DEF put_body
  <2> HIDE DEF main, new
  <2> QED
    BY <2>1 DEF SideTipsType
<1>4. \A x \in SideBlocks : x \in ConnectedByBody(st, s) /\ st.tips[x] = None => x \in new
  OBVIOUS
<1> HIDE DEF main, new
<1>5. ASSUME NEW t \in p.ordered
      PROVE  /\ IsMainDescendant(t.main_block_hash, p.tip)
             /\ p.tips[t.block_hash] = t.main_block_hash
             /\ bmm_results[<<t.block_hash, t.main_block_hash>>] = "Verified"
  <2>1. CASE t \in st.ordered
    <3>1. /\ IsMainDescendant(t.main_block_hash, st.tip)
          /\ st.tips[t.block_hash] = t.main_block_hash
          /\ bmm_results[<<t.block_hash, t.main_block_hash>>] = "Verified"
      BY <2>1 DEF Sorted
    <3>2. t.block_hash \in SideBlocks /\ t.main_block_hash \in MainBlocks
      BY <1>1, <2>1 DEF Tips
    <3>3. t.block_hash \notin new
      BY <1>1, <1>2, <3>1, <3>2
    <3> QED
      BY <1>3, <3>1, <3>2, <3>3
  <2>2. CASE t \notin st.ordered
    <3>1. PICK x \in new : t = Tip(x, main(x))
      BY <1>3, <2>2
    <3>2. t.block_hash = x /\ t.main_block_hash = main(x)
      BY <3>1 DEF Tip
    <3> QED
      BY <1>2, <1>3, <3>2
  <2> QED
    BY <2>1, <2>2
<1>6. ASSUME NEW B, B[s] # "none", \A x \in SideBlocks : bodies[x] # "none" => B[x] # "none",
             Whole(st, headers, B), NEW y \in SideBlocks, p.tips[y] # None, NEW x \in Ancestors[y]
      PROVE  x \in headers /\ B[x] # "none" /\ p.tips[x] # None
  <2>1. x \in SideBlocks
    BY SideAncestry
  <2>2. \A z \in SideBlocks : (st.tips[z] # None \/ z \in new) <=> p.tips[z] # None
    <3> SUFFICES ASSUME NEW z \in SideBlocks
                 PROVE  (st.tips[z] # None \/ z \in new) <=> p.tips[z] # None
      OBVIOUS
    <3>1. CASE z \in new
      <4>1. p.tips[z] = main(z)
        BY <1>3, <3>1
      <4>2. main(z) \in MainBlocks
        BY <1>2, <3>1
      <4> QED
        BY <1>1, <3>1, <4>1, <4>2
    <3>2. CASE z \notin new
      BY <1>3, <3>2
    <3> QED
      BY <3>1, <3>2
  <2>3. ASSUME NEW z \in SideBlocks, st.tips[z] # None, x \in Ancestors[z]
        PROVE  x \in headers /\ B[x] # "none" /\ p.tips[x] # None
    BY <1>6, <2>1, <2>2, <2>3 DEF Whole
  <2>4. CASE st.tips[y] # None
    BY <1>6, <2>3, <2>4
  <2>5. CASE y \in new
    <3>1. /\ y \in ConnectedByBody(st, s) /\ y \in headers /\ s \in Ancestors[y]
          /\ ParentIsTip(st, s)
      BY <1>2, <2>5, Connected
    <3>2. CASE s \in Ancestors[x]
      <4>1. x \in headers
        BY <1>6, <3>1, ClosedAncestors
      <4>2. x \in ConnectedByBody(st, s)
        BY <1>6, <3>1, <3>2, <4>1, Connected
      <4>3. x = s \/ bodies[x] # "none"
        BY <4>2, Connected
      <4>4. p.tips[x] # None
        BY <1>4, <2>1, <2>2, <4>2
      <4> QED
        BY <1>6, <2>1, <4>1, <4>3, <4>4
    <3>3. CASE s \notin Ancestors[x]
      <4>1. x \in Ancestors[s] /\ x # s
        BY <1>6, <2>1, <3>1, <3>3, SideAncestry
      <4>2. prev_side[s] \in SideBlocks /\ x \in Ancestors[prev_side[s]]
        BY <4>1, SideAncestry
      <4>3. st.tips[prev_side[s]] # None
        BY <1>1, <3>1, <4>2 DEF ParentIsTip
      <4> QED
        BY <2>3, <4>2, <4>3
    <3> QED
      BY <3>2, <3>3
  <2> QED
    BY <1>6, <2>2, <2>4, <2>5
<1> QED
  BY <1>3, <1>5, <1>6 DEF Sorted, Whole

(* delete_body keeps the tables sound: with the block go all tips that need *)
(* its body.                                                                *)
LEMMA DeleteBodyKeeps ==
    ASSUME NEW st \in SideTipsType, NEW s \in SideBlocks, NEW r, Sorted(st, r),
           NEW d, d = delete_body(st, s)
    PROVE  /\ Sorted(d, r)
           /\ d.tip = st.tip
           /\ \A H, B, C : /\ \A x \in SideBlocks : x # s => C[x] = B[x]
                           /\ Whole(st, H, B)
                           => Whole(d, H, C)
<1> DEFINE gone == {x \in SideBlocks :
                       /\ IsDescendant(s, x)
                       /\ \A y \in Ancestors[x] : IsDescendant(s, y) => st.tips[y] # None}
<1>1. st.tips \in [SideBlocks -> MainBlocks \cup {None}] /\ st.ordered \subseteq Tips
  BY DEF SideTipsType
<1>2. /\ d.tip = st.tip
      /\ d.tips = [x \in SideBlocks |-> IF x \in gone THEN None ELSE st.tips[x]]
      /\ d.ordered = {t \in st.ordered : ~(t.block_hash \in gone
                                           /\ t.main_block_hash = st.tips[t.block_hash])}
  <2>1. d = [st EXCEPT !.tips = [x \in SideBlocks |-> IF x \in gone THEN None ELSE @[x]],
                       !.ordered = {t \in @ : ~(t.block_hash \in gone
                                                /\ t.main_block_hash = st.tips[t.block_hash])}]
    BY DEF delete_body
  <2> HIDE DEF gone
  <2> QED
    BY <2>1 DEF SideTipsType
<1>3. \A x \in gone : s \in Ancestors[x]
  BY DEF IsDescendant
<1>4. \A x \in SideBlocks : s \in Ancestors[x] /\ (\A y \in Ancestors[x] : st.tips[y] # None)
                               => x \in gone
  BY DEF IsDescendant
<1> HIDE DEF gone
<1>5. ASSUME NEW t \in d.ordered
      PROVE  /\ IsMainDescendant(t.main_block_hash, d.tip)
             /\ d.tips[t.block_hash] = t.main_block_hash
             /\ r[<<t.block_hash, t.main_block_hash>>] = "Verified"
  <2>1. t \in st.ordered /\ t.block_hash \in SideBlocks
    BY <1>1, <1>2 DEF Tips
  <2>2. /\ IsMainDescendant(t.main_block_hash, st.tip)
        /\ st.tips[t.block_hash] = t.main_block_hash
        /\ r[<<t.block_hash, t.main_block_hash>>] = "Verified"
    BY <2>1 DEF Sorted
  <2>3. t.block_hash \notin gone
    BY <1>2, <2>2
  <2> QED
    BY <1>2, <2>1, <2>2, <2>3
<1>6. Sorted(d, r)
  BY <1>5 DEF Sorted
<1>7. ASSUME NEW H, NEW B, NEW C, \A x \in SideBlocks : x # s => C[x] = B[x], Whole(st, H, B)
      PROVE  Whole(d, H, C)
  <2> SUFFICES ASSUME NEW y \in SideBlocks, d.tips[y] # None, NEW x \in Ancestors[y]
               PROVE  x \in H /\ C[x] # "none" /\ d.tips[x] # None
    BY DEF Whole
  <2>1. x \in SideBlocks /\ Ancestors[x] \subseteq Ancestors[y]
    BY SideAncestry
  <2>2. y \notin gone /\ st.tips[y] # None
    BY <1>2
  <2>3. \A z \in Ancestors[y] : z \in H /\ B[z] # "none" /\ st.tips[z] # None
    BY <1>7, <2>2 DEF Whole
  <2>4. s \notin Ancestors[y]
    BY <1>4, <2>2, <2>3
  <2>5. x \notin gone /\ x # s
    BY <1>3, <2>1, <2>4
  <2> QED
    BY <1>2, <1>7, <2>1, <2>3, <2>5
<1> QED
  BY <1>2, <1>6, <1>7

-----------------------------------------------------------------------------
(* The loops.                                                               *)

(* The way down of sync_side_tips_to_tip: it disconnects the block where it *)
(* is, so that it ends at the fork.                                         *)
LEMMA UndoneKeeps ==
    ASSUME BmmInv, Sorted(SideTips, bmm_results),
           NEW fork \in MainBlocks \cup {Zero}, NEW p,
           PathFacts(p, MainAncestors, MainBlocks, Zero, main_prev, fork, mainchain_tip),
           NEW u, u = FoldLeft(disconnect_mainchain_tip, SideTips, Reverse(p))
    PROVE  /\ u \in SideTipsType
           /\ Sorted(u, bmm_results)
           /\ Whole(SideTips, headers, bodies) => Whole(u, headers, bodies)
           /\ u.ok => u.tip = fork
<1> DEFINE n == Len(p)
           q == Reverse(p)
           down(i) == IF i = n THEN fork ELSE p[n - i]
<1>1. /\ p \in Seq(MainBlocks) /\ n \in Nat
      /\ \A i \in 1..n : p[i] \in MainBlocks
      /\ \A i \in 1..n : main_prev[p[i]] = IF i = 1 THEN fork ELSE p[i - 1]
      /\ n = 0 => fork = mainchain_tip
      /\ n > 0 => p[n] = mainchain_tip
  BY DEF PathFacts
<1>2. q \in Seq(MainBlocks) /\ Len(q) = n /\ \A i \in 1..n : q[i] = p[(n - i) + 1]
  BY <1>1, EventsType DEF Reverse
<1>3. SideTips \in SideTipsType /\ SoundBmm(bmm_results)
  BY StoredType DEF BmmInv
<1>4. SideTips.tip = down(0)
  BY <1>1 DEF SideTips
<1> HIDE DEF q, n
<1>5. PICK w \in [0..n -> SideTipsType] :
          /\ w[0] = SideTips
          /\ \A i \in 1..n : w[i] = disconnect_mainchain_tip(w[i - 1], q[i])
          /\ FoldLeft(disconnect_mainchain_tip, SideTips, q) = w[n]
  BY <1>2, <1>3, FoldDisconnect
<1> DEFINE Good(st, i) == /\ Sorted(st, bmm_results)
                          /\ Whole(SideTips, headers, bodies) => Whole(st, headers, bodies)
                          /\ st.ok => st.tip = down(i)
           G == {i \in 0..n : Good(w[i], i)}
<1>6. 0 \in G
  <2>1. Good(SideTips, 0)
    BY <1>4
  <2> HIDE DEF Good
  <2> QED
    BY <1>1, <1>5, <2>1
<1>7. ASSUME NEW i \in 1..n, i - 1 \in G PROVE i \in G
  <2>1. i - 1 \in 0..n /\ i \in 0..n /\ i - 1 # n /\ n - (i - 1) = (n - i) + 1
        /\ (n - i) + 1 \in 1..n /\ ((n - i) + 1) - 1 = n - i /\ ((n - i) + 1 = 1 <=> i = n)
    BY <1>1
  <2>2. Good(w[i - 1], i - 1)
    BY <1>7
  <2>3. q[i] \in MainBlocks /\ down(i - 1) = q[i] /\ main_prev[q[i]] = down(i)
    BY <1>1, <1>2, <2>1
  <2>4. w[i - 1] \in SideTipsType /\ w[i] = disconnect_mainchain_tip(w[i - 1], q[i])
    BY <1>5, <2>1
  <2>5. Sorted(w[i - 1], bmm_results) /\ (w[i - 1].ok => w[i - 1].tip = q[i])
    BY <2>2, <2>3
  <2> HIDE DEF down
  <2>6. /\ Sorted(w[i], bmm_results)
        /\ \A H, B : Whole(w[i - 1], H, B) => Whole(w[i], H, B)
        /\ w[i].ok => w[i].tip = main_prev[q[i]]
    BY <1>3, <2>3, <2>4, <2>5, DisconnectKeeps
  <2>7. Good(w[i], i)
    BY <2>2, <2>3, <2>6
  <2> HIDE DEF Good
  <2> QED
    BY <2>1, <2>7
<1> HIDE DEF Good
<1>8. n \in G
  <2> HIDE DEF G
  <2>1. \A i \in 0..n : i \in G
    BY <1>1, <1>6, <1>7, Loop!Steps
  <2> QED
    BY <1>1, <2>1
<1>9. Good(u, n) /\ u \in SideTipsType
  BY <1>1, <1>5, <1>8 DEF q
<1> QED
  BY <1>9 DEF Good

(* Its way up: each block it connects is a child of the one before.         *)
LEMMA RedoneKeeps ==
    ASSUME BmmInv, BodiesStored,
           NEW fork \in MainBlocks \cup {Zero}, NEW target \in MainBlocks, NEW p,
           PathFacts(p, MainAncestors, MainBlocks, Zero, main_prev, fork, target),
           NEW u \in SideTipsType, Sorted(u, bmm_results), u.ok => u.tip = fork,
           NEW c, c = FoldLeft(connect_known_tip, u, p)
    PROVE  /\ Sorted(c, bmm_results)
           /\ Whole(u, headers, bodies) => Whole(c, headers, bodies)
           /\ c.ok => c.tip = target
<1> DEFINE n == Len(p)
<1>1. /\ p \in Seq(MainBlocks) /\ n \in Nat
      /\ \A i \in 1..n : p[i] \in MainBlocks
      /\ n = 0 => fork = target
      /\ n > 0 => p[n] = target
  BY DEF PathFacts
<1>2. bmm_results \in Results
  BY StoredType DEF BmmInv
<1>3. PICK w \in [0..n -> SideTipsType] :
          /\ w[0] = u
          /\ \A i \in 1..n : w[i] = connect_known_tip(w[i - 1], p[i])
          /\ FoldLeft(connect_known_tip, u, p) = w[n]
  BY <1>1, <1>2, FoldConnect
<1> HIDE DEF n
<1> DEFINE Good(st, i) == /\ Sorted(st, bmm_results)
                          /\ Whole(u, headers, bodies) => Whole(st, headers, bodies)
                          /\ st.ok => st.tip = IF i = 0 THEN fork ELSE p[i]
           G == {i \in 0..n : Good(w[i], i)}
<1>4. 0 \in G
  BY <1>1, <1>3
<1>5. ASSUME NEW i \in 1..n, i - 1 \in G PROVE i \in G
  <2>1. i - 1 \in 0..n /\ i \in 0..n /\ i # 0
    BY <1>1
  <2>2. /\ Sorted(w[i - 1], bmm_results)
        /\ Whole(u, headers, bodies) => Whole(w[i - 1], headers, bodies)
    BY <1>5
  <2>3. w[i - 1] \in SideTipsType /\ p[i] \in MainBlocks
        /\ w[i] = connect_mainchain_tip(w[i - 1], p[i], bmm_results)
    BY <1>1, <1>3, <2>1 DEF connect_known_tip
  <2>4. /\ Sorted(w[i], bmm_results)
        /\ Whole(w[i - 1], headers, bodies) => Whole(w[i], headers, bodies)
        /\ w[i].ok => w[i].tip = p[i]
    BY <2>2, <2>3, ConnectKeeps
  <2>5. Good(w[i], i)
    BY <2>1, <2>2, <2>4
  <2> HIDE DEF Good
  <2> QED
    BY <2>1, <2>5
<1> HIDE DEF Good
<1>6. n \in G
  <2> HIDE DEF G
  <2>1. \A i \in 0..n : i \in G
    BY <1>1, <1>4, <1>5, Loop!Steps
  <2> QED
    BY <1>1, <2>1
<1>7. Good(c, n)
  BY <1>1, <1>3, <1>6
<1> QED
  BY <1>1, <1>7 DEF Good

(* sync_side_tips_to_tip keeps the tables sound and, if it succeeds, leaves *)
(* the archive's mainchain tip at its target.                               *)
LEMMA SyncKeeps ==
    ASSUME BmmInv, BodiesStored, Sorted(SideTips, bmm_results), NEW target \in MainBlocks,
           NEW st, st = SyncedSideTips(target)
    PROVE  /\ Sorted(st, bmm_results)
           /\ Whole(SideTips, headers, bodies) => Whole(st, headers, bodies)
           /\ st.ok => st.tip = target
<1> DEFINE fork == IF mainchain_tip = Zero THEN Zero
                   ELSE LastCommonMainAncestor(target, mainchain_tip)
           p == MainPath(fork, mainchain_tip)
           q == MainPath(fork, target)
           u == FoldLeft(disconnect_mainchain_tip, SideTips, Reverse(p))
<1>1. /\ fork \in MainSet(target) \cup {Zero} /\ fork \in MainSet(mainchain_tip) \cup {Zero}
      /\ mainchain_tip \in MainBlocks \cup {Zero}
  BY SyncPaths DEF BmmInv, TypeInv, IndexType
<1>2. st = FoldLeft(connect_known_tip, u, q)
  BY DEF SyncedSideTips
<1> HIDE DEF fork
<1>3. fork \in MainBlocks \cup {Zero}
  BY <1>1, MainAncestry DEF MainSet
<1>4. PathFacts(p, MainAncestors, MainBlocks, Zero, main_prev, fork, mainchain_tip)
  BY <1>1, MainPaths
<1>5. PathFacts(q, MainAncestors, MainBlocks, Zero, main_prev, fork, target)
  BY <1>1, MainPaths
<1> HIDE DEF p, q
<1>6. /\ u \in SideTipsType
      /\ Sorted(u, bmm_results)
      /\ Whole(SideTips, headers, bodies) => Whole(u, headers, bodies)
      /\ u.ok => u.tip = fork
  BY <1>3, <1>4, UndoneKeeps
<1> HIDE DEF u
<1> QED
  BY <1>2, <1>3, <1>5, <1>6, RedoneKeeps

(* The bodies reorg_to_tip stores again.                                    *)
LEMMA ReorgKeeps ==
    ASSUME BmmInv, Sorted(SideTips, bmm_results), NEW path \in Seq(SideBlocks),
           \A i \in 1..Len(path) : bodies[path[i]] # "none",
           NEW p, p = FoldLeft(put_body, SideTips, path)
    PROVE  /\ Sorted(p, bmm_results)
           /\ p.tip = mainchain_tip
           /\ Whole(SideTips, headers, bodies) => Whole(p, headers, bodies)
<1> DEFINE n == Len(path)
<1>1. n \in Nat /\ \A i \in 1..n : path[i] \in SideBlocks
  OBVIOUS
<1>2. SideTips \in SideTipsType /\ headers \in SUBSET SideBlocks /\ ClosedSide(headers)
  BY StoredType DEF BmmInv
<1>3. PICK w \in [0..n -> SideTipsType] :
          /\ w[0] = SideTips
          /\ \A i \in 1..n : w[i] = put_body(w[i - 1], path[i])
          /\ FoldLeft(put_body, SideTips, path) = w[n]
  BY <1>2, FoldPutBody
<1> DEFINE Good(st) == /\ Sorted(st, bmm_results)
                       /\ st.tip = mainchain_tip
                       /\ Whole(SideTips, headers, bodies) => Whole(st, headers, bodies)
           G == {i \in 0..n : Good(w[i])}
<1>4. Good(SideTips)
  BY DEF SideTips
<1>5. ASSUME NEW i \in 1..n, i - 1 \in G PROVE i \in G
  <2>1. i - 1 \in 0..n /\ i \in 0..n
    BY <1>1
  <2>2. Good(w[i - 1])
    BY <1>5
  <2>3. w[i - 1] \in SideTipsType /\ w[i] = put_body(w[i - 1], path[i]) /\ bodies[path[i]] # "none"
    BY <1>3, <2>1
  <2>4. /\ Sorted(w[i], bmm_results)
        /\ w[i].tip = w[i - 1].tip
        /\ \A B : /\ B[path[i]] # "none"
                  /\ \A x \in SideBlocks : bodies[x] # "none" => B[x] # "none"
                  /\ Whole(w[i - 1], headers, B)
                  => Whole(w[i], headers, B)
    BY <1>1, <1>2, <2>2, <2>3, PutBodyKeeps
  <2>5. Whole(w[i - 1], headers, bodies) => Whole(w[i], headers, bodies)
    BY <2>3, <2>4
  <2>6. Good(w[i])
    BY <2>2, <2>4, <2>5
  <2> HIDE DEF Good
  <2> QED
    BY <2>1, <2>6
<1> HIDE DEF Good
<1>6. 0 \in G
  BY <1>1, <1>3, <1>4
<1>7. n \in G
  <2> HIDE DEF G, n
  <2>1. \A i \in 0..n : i \in G
    BY <1>1, <1>5, <1>6, Loop!Steps
  <2> QED
    BY <1>1, <2>1
<1>8. Good(p)
  BY <1>1, <1>3, <1>7
<1> QED
  BY <1>8 DEF Good

-----------------------------------------------------------------------------
(* The inductive invariant.                                                 *)

(* The events still to come lead from where the mainchain task is to the    *)
(* mainchain node's tip: it disconnects no block but its own tip.           *)
StreamOK ==
    /\ main_task.pc = "stopped" => stream = <<>>
    /\ main_task.pc = "syncing" => Walk(main_task.tip, stream, enforcer_tip)
    /\ main_task.pc = "streaming" => Walk(mainchain_tip, stream, enforcer_tip)

(* The index is sound, whole until an invalidation, and has its bodies.     *)
IndexInv ==
    /\ Sorted(SideTips, bmm_results)
    /\ invalid_blocks = {} => Whole(SideTips, headers, bodies)
    /\ BodiesStored

(* The inductive invariant.                                                 *)
SideInv == BmmInv /\ IndexInv /\ StreamOK

(* What is stored is sound if what the operation returned is.               *)
LEMMA StoreSound ==
    ASSUME NEW st, Store(st)
    PROVE  /\ Sorted(st, bmm_results') => Sorted(SideTips, bmm_results)'
           /\ Whole(st, headers', bodies') => Whole(SideTips, headers, bodies)'
  BY DEF Store, SideTips, Sorted, Whole

(* The tables stay sound when verifications are added.                      *)
LEMMA SortedStays ==
    ASSUME NEW st, st.ordered \subseteq Tips, NEW r, NEW q, VerifiedStays(r, q), Sorted(st, r)
    PROVE  Sorted(st, q)
<1>1. \A t \in st.ordered : t.block_hash \in SideBlocks /\ t.main_block_hash \in MainBlocks
  BY DEF Tips
<1> QED
  BY <1>1 DEF Sorted, VerifiedStays

(* And when headers are.                                                    *)
LEMMA IndexStays ==
    ASSUME SideInv, VerifiedStays(bmm_results, bmm_results'), headers \subseteq headers',
           UNCHANGED <<bodies, invalid_blocks, side_tips_vars>>
    PROVE  IndexInv'
<1>1. SideTips' = SideTips /\ SideTips.ordered \subseteq Tips
  BY DEF side_tips_vars, SideTips, SideInv, BmmInv, TypeInv, IndexType
<1>2. Sorted(SideTips, bmm_results')
  BY <1>1, SortedStays DEF SideInv, IndexInv
<1>3. Sorted(SideTips, bmm_results)'
  BY <1>1, <1>2 DEF Sorted
<1>4. invalid_blocks' = {} => Whole(SideTips, headers', bodies)
  BY DEF SideInv, IndexInv, Whole
<1>5. invalid_blocks' = {} => Whole(SideTips, headers, bodies)'
  BY <1>1, <1>4 DEF Whole
<1>6. BodiesStored'
  BY DEF SideInv, IndexInv, BodiesStored
<1> QED
  BY <1>3, <1>5, <1>6 DEF IndexInv

(* The stream of a task that does not move.                                 *)
LEMMA StreamStays ==
    ASSUME StreamOK, UNCHANGED <<stream, main_task, enforcer_tip, mainchain_tip>>
    PROVE  StreamOK'
  BY DEF StreamOK, Walk, AfterEvent

(* A task that stops drops its stream.                                      *)
LEMMA StreamStops ==
    ASSUME Stop PROVE StreamOK'
  BY DEF Stop, Stopped, StreamOK

(* The mainchain node extends the walk.                                     *)
LEMMA StreamEmits ==
    ASSUME SideInv, NEW new \in Seq(StreamEvents), NEW m, Walk(enforcer_tip, new, m),
           Emit(new), enforcer_tip' = m, UNCHANGED <<main_task, mainchain_tip>>
    PROVE  StreamOK'
<1>1. stream \in Seq(StreamEvents) /\ main_task \in MainTasks /\ StreamOK
  BY DEF SideInv, BmmInv, TypeInv, MainchainType
<1>2. CASE main_task.pc = "stopped"
  BY <1>1, <1>2 DEF StreamOK, Emit, Subscribed
<1>3. CASE main_task.pc = "syncing"
  <2>1. stream' = stream \o new
    BY <1>3 DEF Emit, Subscribed
  <2>2. Walk(main_task.tip, stream \o new, m)
    BY <1>1, <1>3, WalkOn DEF StreamOK
  <2>3. Walk(main_task.tip, stream, enforcer_tip)'
    BY <2>1, <2>2 DEF Walk, AfterEvent
  <2> QED
    BY <1>3, <2>3 DEF StreamOK
<1>4. CASE main_task.pc = "streaming"
  <2>1. stream' = stream \o new
    BY <1>4 DEF Emit, Subscribed
  <2>2. Walk(mainchain_tip, stream \o new, m)
    BY <1>1, <1>4, WalkOn DEF StreamOK
  <2>3. Walk(mainchain_tip, stream, enforcer_tip)'
    BY <2>1, <2>2 DEF Walk, AfterEvent
  <2> QED
    BY <1>4, <2>3 DEF StreamOK
<1> QED
  BY <1>1, <1>2, <1>3, <1>4 DEF MainTasks

(* MineMainBlock: one step up.                                              *)
LEMMA SideMine ==
    ASSUME SideInv, NEW m \in MainBlocks, MineMainBlock(m)
    PROVE  StreamOK'
<1> DEFINE new == Events("Connect", <<m>>)
<1>1. new \in Seq(StreamEvents)
  <2>1. <<m>> \in Seq(MainBlocks)
    OBVIOUS
  <2> QED
    BY <2>1, EventsType
<1>2. Walk(enforcer_tip, new, m)
  <2>1. Len(new) = 1 /\ new[1].type = "Connect" /\ new[1].block = m
    BY DEF Events
  <2> HIDE DEF new
  <2>2. AfterEvent(new[1]) = m
    BY <2>1 DEF AfterEvent
  <2> QED
    BY <2>1, <2>2 DEF Walk
<1>3. Emit(new) /\ enforcer_tip' = m /\ UNCHANGED <<main_task, mainchain_tip>>
  BY DEF MineMainBlock, side_tips_vars
<1> HIDE DEF new
<1> QED
  BY <1>1, <1>2, <1>3, StreamEmits

(* ReorgMainchain: down to the fork, unless these events are missing, and   *)
(* up the branch with more work, which has at least one block.              *)
LEMMA SideReorg ==
    ASSUME SideInv, NEW m \in MainBlocks, NEW announced \in BOOLEAN, ReorgMainchain(m, announced)
    PROVE  StreamOK'
<1> DEFINE fork == LastCommonMainAncestor(enforcer_tip, m)
           p == MainPath(fork, enforcer_tip)
           q == MainPath(fork, m)
           left == Events("Disconnect", Reverse(p))
           right == Events("Connect", q)
<1>1. enforcer_tip \in MainBlocks
  BY DEF SideInv, BmmInv, TypeInv, MainchainType
<1>2. fork \in MainAncestors[enforcer_tip] /\ fork \in MainAncestors[m] /\ fork \in MainBlocks
  BY <1>1, CommonMainAncestor, MainAncestry
<1>3. m \notin MainAncestors[enforcer_tip]
  <2>1. TotalWork[m] > TotalWork[enforcer_tip]
    BY DEF ReorgMainchain
  <2>2. TotalWork[m] \in Nat /\ TotalWork[enforcer_tip] \in Nat
    BY <1>1, WorkIncreases
  <2>3. m \in MainAncestors[enforcer_tip] => m = enforcer_tip \/ TotalWork[m] < TotalWork[enforcer_tip]
    BY <1>1, WorkIncreases
  <2> QED
    BY <2>1, <2>2, <2>3
<1>4. fork # m
  BY <1>2, <1>3
<1>5. \/ Emit(left \o right)
      \/ Emit(<<>> \o right)
  BY DEF ReorgMainchain
<1>6. enforcer_tip' = m /\ UNCHANGED <<main_task, mainchain_tip>>
  BY DEF ReorgMainchain, side_tips_vars
<1> HIDE DEF fork
<1>7. /\ PathFacts(p, MainAncestors, MainBlocks, Zero, main_prev, fork, enforcer_tip)
      /\ PathFacts(q, MainAncestors, MainBlocks, Zero, main_prev, fork, m)
  BY <1>1, <1>2, MainPaths, ChainsAssumption DEF MainSet
<1>8. p \in Seq(MainBlocks) /\ q \in Seq(MainBlocks) /\ Len(q) > 0
  BY <1>4, <1>7 DEF PathFacts
<1> HIDE DEF p, q
<1>9. Walk(enforcer_tip, left, fork) /\ Walk(fork, right, m) /\ Walk(enforcer_tip, right, m)
  BY <1>1, <1>2, <1>7, <1>8, WalkPaths
<1>10. left \in Seq(StreamEvents) /\ right \in Seq(StreamEvents)
  BY <1>8, EventsType
<1> HIDE DEF left, right
<1>11. left \o right \in Seq(StreamEvents) /\ <<>> \o right = right
  BY <1>10
<1>12. Walk(enforcer_tip, left \o right, m)
  BY <1>9, <1>10, WalkOn
<1>13. CASE Emit(left \o right)
  BY <1>6, <1>11, <1>12, <1>13, StreamEmits
<1>14. CASE Emit(<<>> \o right)
  BY <1>6, <1>9, <1>10, <1>11, <1>14, StreamEmits
<1> QED
  BY <1>5, <1>13, <1>14

(* sync_side_tips_to_tip: the walk starts where the task has synced to.     *)
LEMMA SideSync ==
    ASSUME SideInv, sync_side_tips_to_tip
    PROVE  IndexInv' /\ StreamOK'
<1> DEFINE target == main_task.tip
           st == SyncedSideTips(target)
<1>1. target \in MainBlocks /\ BmmInv /\ IndexInv /\ StreamOK /\ main_task.pc = "syncing"
  BY DEF sync_side_tips_to_tip, SideInv, BmmInv, TypeInv, MainchainType, MainTaskInv
<1>2. /\ Sorted(st, bmm_results)
      /\ Whole(SideTips, headers, bodies) => Whole(st, headers, bodies)
      /\ st.ok => st.tip = target
  BY <1>1, SyncKeeps DEF IndexInv
<1>3. UNCHANGED <<headers, bodies, invalid_blocks, bmm_results, enforcer_tip>>
  BY DEF sync_side_tips_to_tip, archive_vars, enforcer_vars
<1>4. \/ /\ st.ok /\ Store(st) /\ stream' = stream
         /\ main_task' = [pc |-> "streaming", tip |-> Zero]
      \/ UNCHANGED side_tips_vars /\ Stop
  BY DEF sync_side_tips_to_tip
<1> HIDE DEF st
<1>5. CASE /\ st.ok /\ Store(st) /\ stream' = stream
           /\ main_task' = [pc |-> "streaming", tip |-> Zero]
  <2>1. Sorted(SideTips, bmm_results)'
    BY <1>2, <1>3, <1>5, StoreSound
  <2>2. invalid_blocks' = {} => Whole(SideTips, headers, bodies)'
    BY <1>1, <1>2, <1>3, <1>5, StoreSound DEF IndexInv
  <2>3. BodiesStored'
    BY <1>1, <1>3 DEF IndexInv, BodiesStored
  <2>4. mainchain_tip' = target
    BY <1>2, <1>5 DEF Store
  <2>5. Walk(target, stream, enforcer_tip)
    BY <1>1 DEF StreamOK
  <2>6. Walk(mainchain_tip, stream, enforcer_tip)'
    BY <1>3, <1>5, <2>4, <2>5 DEF Walk, AfterEvent
  <2>7. StreamOK'
    BY <1>5, <2>6 DEF StreamOK
  <2> QED
    BY <2>1, <2>2, <2>3, <2>7 DEF IndexInv
<1>6. CASE UNCHANGED side_tips_vars /\ Stop
  BY <1>3, <1>6, IndexStays, StreamStops DEF VerifiedStays
<1> QED
  BY <1>4, <1>5, <1>6

(* handle_block_event takes the first step of the walk.                     *)
LEMMA SideBlockEvent ==
    ASSUME SideInv, handle_block_event
    PROVE  IndexInv' /\ StreamOK'
<1> DEFINE event == Head(stream)
           m == event.block
           results == IF event.type = "Connect" THEN put_main_block_info(bmm_results, m)
                      ELSE bmm_results
           st == IF event.type = "Connect" THEN connect_mainchain_tip(SideTips, m, results)
                 ELSE disconnect_mainchain_tip(SideTips, m)
<1>1. /\ BmmInv /\ IndexInv /\ StreamOK /\ main_task.pc = "streaming"
      /\ stream # <<>> /\ stream \in Seq(StreamEvents)
      /\ SideTips \in SideTipsType /\ SoundBmm(bmm_results)
  BY StoredType DEF handle_block_event, SideInv, BmmInv, TypeInv, MainchainType
<1>2. event \in StreamEvents /\ m \in MainBlocks
  <2>1. event \in StreamEvents
    BY <1>1
  <2> QED
    BY <2>1 DEF StreamEvents
<1>3. /\ event.type = "Disconnect" => m = mainchain_tip
      /\ Walk(AfterEvent(event), Tail(stream), enforcer_tip)
  BY <1>1, WalkTail DEF StreamOK
<1>4. UNCHANGED <<headers, bodies, invalid_blocks, enforcer_tip>>
  BY DEF handle_block_event, enforcer_vars
<1>5. VerifiedStays(bmm_results, bmm_results')
  BY <1>1, BmmBlockEvent
<1>6. \/ st.ok /\ Store(st) /\ bmm_results' = results
         /\ stream' = Tail(stream) /\ main_task' = main_task
      \/ UNCHANGED <<side_tips_vars, bmm_results>> /\ Stop
  BY DEF handle_block_event
<1>7. SideTips.tip = mainchain_tip
  BY DEF SideTips
<1>8. /\ event.type = "Connect" => st = connect_mainchain_tip(SideTips, m, results)
      /\ event.type # "Connect" => st = disconnect_mainchain_tip(SideTips, m) /\ results = bmm_results
  OBVIOUS
<1>9. \/ event.type = "Connect" /\ AfterEvent(event) = m
      \/ event.type = "Disconnect" /\ AfterEvent(event) = main_prev[m]
  BY <1>2 DEF AfterEvent, StreamEvents
<1> HIDE DEF event, m, results, st
<1>10. CASE /\ st.ok /\ Store(st) /\ bmm_results' = results
            /\ stream' = Tail(stream) /\ main_task' = main_task
  <2>1. /\ Sorted(st, results)
        /\ Whole(SideTips, headers, bodies) => Whole(st, headers, bodies)
        /\ st.tip = AfterEvent(event)
    <3>1. CASE event.type = "Connect"
      <4>1. Sorted(SideTips, results)
        BY <1>1, <1>5, <1>10, SortedStays DEF IndexInv, SideTipsType
      <4> QED
        BY <1>1, <1>2, <1>8, <1>9, <1>10, <3>1, <4>1, ConnectKeeps DEF IndexInv
    <3>2. CASE event.type = "Disconnect"
      BY <1>1, <1>2, <1>3, <1>7, <1>8, <1>9, <1>10, <3>2, DisconnectKeeps DEF IndexInv
    <3> QED
      BY <1>9, <3>1, <3>2
  <2>2. Sorted(SideTips, bmm_results)'
    BY <1>10, <2>1, StoreSound
  <2>3. invalid_blocks' = {} => Whole(SideTips, headers, bodies)'
    BY <1>1, <1>4, <1>10, <2>1, StoreSound DEF IndexInv
  <2>4. BodiesStored'
    BY <1>1, <1>4 DEF IndexInv, BodiesStored
  <2>5. mainchain_tip' = AfterEvent(event)
    BY <1>10, <2>1 DEF Store
  <2>6. Walk(mainchain_tip', stream', enforcer_tip')
    BY <1>3, <1>4, <1>10, <2>5
  <2>7. Walk(mainchain_tip, stream, enforcer_tip)'
    BY <2>6 DEF Walk, AfterEvent
  <2>8. StreamOK'
    BY <1>1, <1>10, <2>7 DEF StreamOK
  <2> QED
    BY <2>2, <2>3, <2>4, <2>8 DEF IndexInv
<1>11. CASE UNCHANGED <<side_tips_vars, bmm_results>> /\ Stop
  BY <1>4, <1>5, <1>11, IndexStays, StreamStops
<1> QED
  BY <1>6, <1>10, <1>11

(* reorg_to_tip stores again what is stored.                                *)
LEMMA SideReorgToTip ==
    ASSUME SideInv, reorg_to_tip, VerifiedStays(bmm_results, bmm_results')
    PROVE  IndexInv' /\ StreamOK'
<1> DEFINE t == net_task.tip
           s == t.block_hash
           applied == SidePath(ForkWith(s), s)
           st == FoldLeft(put_body, SideTips, applied)
<1>1. BmmInv /\ IndexInv /\ StreamOK /\ TypeInv
  BY DEF SideInv, BmmInv
<1>2. t \in Tips /\ s \in SideBlocks /\ state_tip \in SideBlocks \cup {None}
  <2>1. net_task.tip \in Tips
    BY <1>1 DEF reorg_to_tip, Reorging, TypeInv, NetTaskType, NetTaskOK
  <2> QED
    BY <1>1, <2>1 DEF Tips, TypeInv, ChainType
<1>3. PICK o : ReorgStep(t, o) /\ OutcomeOK(t, o)
  BY <1>1, ReorgOutcomes
<1>4. UNCHANGED <<headers, bodies, invalid_blocks, stream, main_task, enforcer_tip>>
  BY DEF reorg_to_tip, main_vars, enforcer_vars
<1>5. CASE UNCHANGED side_tips_vars
  BY <1>1, <1>4, <1>5, IndexStays, StreamStays DEF side_tips_vars
<1>6. CASE ~UNCHANGED side_tips_vars
  <2>1. o = "done" /\ Store(st)
    BY <1>3, <1>6 DEF ReorgStep
  <2>2. applied \in Seq(SideBlocks) /\ ToSet(applied) = SideSet(s) \ SideSet(ForkWith(s))
    BY <1>2, Forks
  <2>3. \A x \in ToSet(applied) : bodies[x] # "none"
    BY <1>3, <2>1, <2>2 DEF OutcomeOK
  <2> HIDE DEF applied
  <2>4. \A i \in 1..Len(applied) : bodies[applied[i]] # "none"
    BY <2>2, <2>3 DEF ToSet
  <2>5. /\ Sorted(st, bmm_results) /\ st.tip = mainchain_tip
        /\ Whole(SideTips, headers, bodies) => Whole(st, headers, bodies)
    BY <1>1, <2>2, <2>4, ReorgKeeps DEF IndexInv
  <2>6. st.ordered \subseteq Tips
    <3>1. IndexType'
      BY <1>1, TypeStep DEF Next, NetTask, TypeInv
    <3> QED
      BY <2>1, <3>1 DEF IndexType, Store
  <2> HIDE DEF st
  <2>7. Sorted(st, bmm_results')
    BY <2>5, <2>6, SortedStays
  <2>8. Sorted(SideTips, bmm_results)'
    BY <2>1, <2>7, StoreSound
  <2>9. invalid_blocks' = {} => Whole(SideTips, headers, bodies)'
    BY <1>1, <1>4, <2>1, <2>5, StoreSound DEF IndexInv
  <2>10. BodiesStored'
    BY <1>1, <1>4 DEF IndexInv, BodiesStored
  <2>11. mainchain_tip' = mainchain_tip
    BY <2>1, <2>5 DEF Store
  <2> QED
    BY <1>1, <1>4, <2>8, <2>9, <2>10, <2>11, StreamStays DEF IndexInv
<1> QED
  BY <1>5, <1>6

(* discard_body: with the body go the tips that need it.                    *)
LEMMA SideDiscard ==
    ASSUME SideInv, discard_body
    PROVE  IndexInv' /\ StreamOK'
<1> DEFINE s == net_task.block
           st == delete_body(SideTips, s)
<1>1. BmmInv /\ IndexInv /\ StreamOK /\ SideTips \in SideTipsType
      /\ bodies \in [SideBlocks -> {"none", "good", "bad"}]
  BY StoredType DEF SideInv, BmmInv, TypeInv, ArchiveType
<1>2. s \in SideBlocks
  BY DEF discard_body, SideInv, BmmInv, TypeInv, NetTaskType, NetTaskOK
<1>3. \/ bodies' = [bodies EXCEPT ![s] = "none"] /\ Store(st)
      \/ UNCHANGED <<bodies, side_tips_vars>>
  BY DEF discard_body
<1>4. UNCHANGED <<headers, invalid_blocks, bmm_results, stream, main_task, enforcer_tip>>
  BY DEF discard_body, main_vars, enforcer_vars
<1>5. CASE UNCHANGED <<bodies, side_tips_vars>>
  BY <1>1, <1>4, <1>5, IndexStays, StreamStays DEF side_tips_vars, VerifiedStays
<1>6. CASE bodies' = [bodies EXCEPT ![s] = "none"] /\ Store(st)
  <2>1. /\ Sorted(st, bmm_results) /\ st.tip = SideTips.tip
        /\ \A H, B, C : /\ \A x \in SideBlocks : x # s => C[x] = B[x]
                        /\ Whole(SideTips, H, B)
                        => Whole(st, H, C)
    BY <1>1, <1>2, DeleteBodyKeeps DEF IndexInv
  <2> HIDE DEF st, s
  <2>2. \A x \in SideBlocks : x # s => bodies'[x] = bodies[x]
    BY <1>1, <1>6
  <2>3. Whole(SideTips, headers, bodies) => Whole(st, headers, bodies')
    BY <2>1, <2>2
  <2>4. Sorted(SideTips, bmm_results)'
    BY <1>4, <1>6, <2>1, StoreSound
  <2>5. invalid_blocks' = {} => Whole(SideTips, headers, bodies)'
    BY <1>1, <1>4, <1>6, <2>3, StoreSound DEF IndexInv
  <2>6. BodiesStored'
    BY <1>1, <1>2, <1>4, <1>6 DEF IndexInv, BodiesStored
  <2>7. mainchain_tip' = mainchain_tip
    BY <1>6, <2>1 DEF Store, SideTips
  <2> QED
    BY <1>1, <1>4, <2>4, <2>5, <2>6, <2>7, StreamStays DEF IndexInv
<1> QED
  BY <1>3, <1>5, <1>6

(* A body that is stored, from a peer or a submission.                      *)
LEMMA SidePutBody ==
    ASSUME SideInv, NEW s \in SideBlocks, NEW body, body # "none", s \in headers,
           bodies' = [bodies EXCEPT ![s] = body], Store(put_body(SideTips, s)),
           UNCHANGED <<headers, invalid_blocks, bmm_results, stream, main_task, enforcer_tip>>
    PROVE  IndexInv' /\ StreamOK'
<1> DEFINE st == put_body(SideTips, s)
<1>1. BmmInv /\ IndexInv /\ StreamOK /\ SideTips \in SideTipsType
      /\ bodies \in [SideBlocks -> {"none", "good", "bad"}]
      /\ headers \in SUBSET SideBlocks /\ ClosedSide(headers)
  BY StoredType DEF SideInv, BmmInv, TypeInv, ArchiveType
<1>2. /\ Sorted(st, bmm_results) /\ st.tip = SideTips.tip
      /\ \A B : /\ B[s] # "none"
                /\ \A x \in SideBlocks : bodies[x] # "none" => B[x] # "none"
                /\ Whole(SideTips, headers, B)
                => Whole(st, headers, B)
  BY <1>1, PutBodyKeeps DEF IndexInv
<1>3. bodies'[s] # "none" /\ \A x \in SideBlocks : bodies[x] # "none" => bodies'[x] # "none"
  BY <1>1
<1>4. Whole(SideTips, headers, bodies) => Whole(SideTips, headers, bodies')
  <2>1. \A x \in SideBlocks : Ancestors[x] \subseteq SideBlocks
    BY SideAncestry
  <2> QED
    BY <1>3, <2>1 DEF Whole
<1>5. Whole(SideTips, headers, bodies) => Whole(st, headers, bodies')
  BY <1>2, <1>3, <1>4
<1> HIDE DEF st
<1>6. Store(st)
  BY DEF st
<1>7. Sorted(SideTips, bmm_results)'
  BY <1>2, <1>6, StoreSound
<1>8. invalid_blocks' = {} => Whole(SideTips, headers, bodies)'
  BY <1>1, <1>5, <1>6, StoreSound DEF IndexInv
<1>9. BodiesStored'
  BY <1>1 DEF IndexInv, BodiesStored
<1>10. mainchain_tip' = mainchain_tip
  BY <1>2, <1>6 DEF Store, SideTips
<1> QED
  BY <1>1, <1>7, <1>8, <1>9, <1>10, StreamStays DEF IndexInv

(* invalidate_block leaves the tables alone: they stay sorted, but not      *)
(* whole.                                                                   *)
LEMMA SideInvalidate ==
    ASSUME SideInv, NEW s \in SideBlocks, invalidate_block(s)
    PROVE  IndexInv' /\ StreamOK'
<1> DEFINE gone == {x \in headers : IsDescendant(s, x)}
<1>1. /\ s \in headers /\ headers' = headers \ gone
      /\ bodies' = [x \in SideBlocks |-> IF x \in gone THEN "none" ELSE bodies[x]]
      /\ invalid_blocks' = invalid_blocks \cup gone
      /\ UNCHANGED <<bmm_results, side_tips_vars, main_vars>>
  BY DEF invalidate_block
<1>2. s \in gone
  BY <1>1, SideAncestry, ChainsAssumption DEF IsDescendant
<1> HIDE DEF gone
<1>3. invalid_blocks' # {}
  BY <1>1, <1>2
<1>4. BodiesStored'
  BY <1>1 DEF SideInv, IndexInv, BodiesStored
<1>5. Sorted(SideTips, bmm_results)'
  BY <1>1 DEF SideInv, IndexInv, Sorted, SideTips, side_tips_vars
<1>6. StreamOK'
  BY <1>1, StreamStays DEF SideInv, side_tips_vars, main_vars, enforcer_vars
<1> QED
  BY <1>3, <1>4, <1>5, <1>6 DEF IndexInv

(* Every step keeps the invariant.                                          *)
LEMMA SideStep ==
    ASSUME SideInv, [Next]_vars
    PROVE  SideInv'
<1>1. BmmInv /\ IndexInv /\ StreamOK
  BY DEF SideInv
<1>2. BmmInv' /\ VerifiedStays(bmm_results, bmm_results')
  BY <1>1, BmmStep
<1>3. headers \in SUBSET SideBlocks
  BY <1>1 DEF BmmInv, TypeInv, ArchiveType
<1>4. ASSUME headers \subseteq headers', UNCHANGED <<bodies, invalid_blocks, side_tips_vars>>
      PROVE  IndexInv'
  BY <1>2, <1>4, IndexStays
<1>5. ASSUME UNCHANGED <<side_tips_vars, main_vars>>
      PROVE  StreamOK'
  BY <1>1, <1>5, StreamStays DEF side_tips_vars, main_vars, enforcer_vars
<1>6. SUFFICES IndexInv' /\ StreamOK'
  BY <1>2 DEF SideInv
<1>7. CASE UNCHANGED vars
  BY <1>4, <1>5, <1>7 DEF vars, archive_vars
<1>8. CASE \E m \in MainBlocks : MineMainBlock(m)
  <2>1. PICK m \in MainBlocks : MineMainBlock(m)
    BY <1>8
  <2>2. UNCHANGED <<archive_vars, side_tips_vars>>
    BY <2>1 DEF MineMainBlock
  <2> QED
    BY <1>4, <2>1, <2>2, SideMine DEF archive_vars
<1>9. CASE \E m \in MainBlocks, announced \in BOOLEAN : ReorgMainchain(m, announced)
  <2>1. PICK m \in MainBlocks, announced \in BOOLEAN : ReorgMainchain(m, announced)
    BY <1>9
  <2>2. UNCHANGED <<archive_vars, side_tips_vars>>
    BY <2>1 DEF ReorgMainchain
  <2> QED
    BY <1>4, <2>1, <2>2, SideReorg DEF archive_vars
<1>10. CASE subscribe_block_events
  <2>1. /\ UNCHANGED <<headers, bodies, invalid_blocks, side_tips_vars, enforcer_tip>>
        /\ main_task' = [pc |-> "syncing", tip |-> enforcer_tip] /\ stream' = <<>>
    BY <1>10 DEF subscribe_block_events, enforcer_vars
  <2>2. Walk(main_task.tip, stream, enforcer_tip)'
    BY <2>1 DEF Walk
  <2> QED
    BY <1>4, <2>1, <2>2 DEF StreamOK
<1>11. CASE sync_side_tips_to_tip
  BY <1>11, SideSync
<1>12. CASE handle_block_event
  BY <1>12, SideBlockEvent
<1>13. CASE \E m \in MainBlocks : handle_request(m)
  BY <1>4, <1>5, <1>13 DEF handle_request
<1>14. CASE StreamCloses
  BY <1>4, <1>14, StreamStops DEF StreamCloses, archive_vars
<1>15. CASE handle_mainchain_block_event \/ new_tip_ready
  BY <1>4, <1>5, <1>15 DEF handle_mainchain_block_event, new_tip_ready, archive_vars
<1>16. CASE reorg_to_tip
  BY <1>2, <1>16, SideReorgToTip
<1>17. CASE discard_body
  BY <1>17, SideDiscard
<1>18. CASE store_headers
  <2> DEFINE path == SidePath(net_task.block, net_task.tip.block_hash)
             acc == [headers |-> headers, results |-> bmm_results, stop |-> FALSE, ok |-> TRUE]
             stored == FoldLeft(StoreHeader, acc, path)
  <2>1. path \in Seq(SideBlocks)
    <3>1. net_task.tip.block_hash \in SideBlocks
          /\ net_task.block \in SideSet(net_task.tip.block_hash) \cup {None}
      BY <1>1, <1>18 DEF store_headers, BmmInv, TypeInv, NetTaskType, NetTaskOK, Tips
    <3> QED
      BY <3>1, SidePaths DEF PathFacts
  <2>2. headers' = stored.headers \/ headers' = headers
    BY <1>18 DEF store_headers
  <2>3. UNCHANGED <<bodies, invalid_blocks, side_tips_vars, main_vars>>
    BY <1>18 DEF store_headers
  <2> HIDE DEF path
  <2>4. headers \subseteq stored.headers
    BY <1>1, <2>1, BmmStoreHeaders
  <2> QED
    BY <1>4, <1>5, <2>2, <2>3, <2>4
<1>19. CASE \E t \in CommittedTips, start \in SideBlocks \cup {None} : check_headers(t, start)
  BY <1>4, <1>5, <1>19 DEF check_headers, archive_vars
<1>20. CASE \E s \in SideBlocks, t \in CommittedTips, body \in {"good", "bad"},
              fork \in SideBlocks \cup {None} : receive_body(s, t, body, fork)
  <2>1. PICK s \in SideBlocks, t \in CommittedTips, body \in {"good", "bad"},
             fork \in SideBlocks \cup {None} : receive_body(s, t, body, fork)
    BY <1>20
  <2>2. /\ \/ /\ s \in headers
              /\ bodies' = [bodies EXCEPT ![s] = body] /\ Store(put_body(SideTips, s))
           \/ UNCHANGED <<bodies, side_tips_vars>>
        /\ UNCHANGED <<headers, invalid_blocks, bmm_results, main_vars>>
    BY <2>1 DEF receive_body, BodyStorable
  <2>3. CASE UNCHANGED <<bodies, side_tips_vars>>
    BY <1>4, <1>5, <2>2, <2>3
  <2>4. CASE /\ s \in headers
             /\ bodies' = [bodies EXCEPT ![s] = body] /\ Store(put_body(SideTips, s))
    BY <2>2, <2>4, SidePutBody DEF main_vars, enforcer_vars
  <2> QED
    BY <2>2, <2>3, <2>4
<1>21. CASE \E t \in CommittedTips : peer_tip_ready(t)
  BY <1>4, <1>5, <1>21 DEF peer_tip_ready, archive_vars
<1>22. CASE \E t \in CommittedTips : submit_header(t.block_hash, t.main_block_hash)
  BY <1>4, <1>5, <1>22 DEF submit_header
<1>23. CASE submit_body
  <2> DEFINE s == submit.block_hash
  <2>1. \/ s \in headers /\ bodies' = [bodies EXCEPT ![s] = "good"] /\ Store(put_body(SideTips, s))
        \/ UNCHANGED <<bodies, side_tips_vars>>
    BY <1>23 DEF submit_body
  <2>2. UNCHANGED <<headers, invalid_blocks, bmm_results, main_vars>>
    BY <1>23 DEF submit_body
  <2> HIDE DEF s
  <2>3. CASE UNCHANGED <<bodies, side_tips_vars>>
    BY <1>4, <1>5, <2>2, <2>3
  <2>4. CASE /\ s \in headers
             /\ bodies' = [bodies EXCEPT ![s] = "good"] /\ Store(put_body(SideTips, s))
    BY <1>3, <2>2, <2>4, SidePutBody DEF main_vars, enforcer_vars
  <2> QED
    BY <2>1, <2>3, <2>4
<1>24. CASE \E s \in SideBlocks, gone \in BOOLEAN : sync_to_tip(s, gone)
  BY <1>4, <1>5, <1>24 DEF sync_to_tip, archive_vars
<1>25. CASE \E s \in SideBlocks : invalidate_block(s)
  BY <1>25, SideInvalidate
<1>26. CASE Restart
  BY <1>4, <1>26, StreamStops DEF Restart, archive_vars
<1> QED
  BY <1>7, <1>8, <1>9, <1>10, <1>11, <1>12, <1>13, <1>14, <1>15, <1>16, <1>17, <1>18, <1>19, <1>20,
     <1>21, <1>22, <1>23, <1>24, <1>25, <1>26 DEF Next, MainTask, NetTask

(* Empty tables and a task that has not started satisfy it.                 *)
LEMMA SideInit ==
    Init => SideInv
<1> SUFFICES ASSUME Init PROVE SideInv
  OBVIOUS
<1>1. BmmInv
  BY BmmInit
<1>2. SideTips.ordered = {} /\ \A s \in SideBlocks : SideTips.tips[s] = None /\ bodies[s] = "none"
  BY DEF Init, SideTips
<1>3. IndexInv
  BY <1>2 DEF IndexInv, Sorted, Whole, BodiesStored
<1>4. StreamOK
  BY DEF Init, Stopped, StreamOK
<1> QED
  BY <1>1, <1>3, <1>4 DEF SideInv

(* The tables of the side tips are sound together: the sorted table holds   *)
(* only tips merge-mined on the active mainchain, as verified and as the    *)
(* other table has them, and, until the operator invalidates a block, every *)
(* ancestor of a tip is a tip whose header and body are stored, whatever    *)
(* the mainchain, the peers, the submissions and the restarts do in turns.  *)
THEOREM SideTipsAlwaysSound ==
    Spec => []SideTipsSound
<1>1. Init => SideInv
  BY SideInit
<1>2. SideInv /\ [Next]_vars => SideInv'
  BY SideStep
<1>3. SideInv => SideTipsSound
  <2>1. SideInv => TypeOK
    BY TypeParts DEF SideInv, BmmInv
  <2>2. SideInv => OrderedTipsActive
    BY DEF SideInv, IndexInv, Sorted, SideTips, OrderedTipsActive
  <2>3. SideInv => TipsComplete
    BY DEF SideInv, IndexInv, Whole, SideTips, TipsComplete
  <2> QED
    BY <2>1, <2>2, <2>3 DEF SideTipsSound
<1> QED
  BY <1>1, <1>2, <1>3, PTL DEF Spec

(* The mainchain task never falls out of step with its stream: a Disconnect *)
(* event is of the archive's own mainchain tip, and once all events are     *)
(* handled the archive's tip is the mainchain node's.                       *)
THEOREM StreamAlwaysInStep ==
    Spec => []StreamOK
<1>1. Init => SideInv
  BY SideInit
<1>2. SideInv /\ [Next]_vars => SideInv'
  BY SideStep
<1>3. SideInv => StreamOK
  BY DEF SideInv
<1> QED
  BY <1>1, <1>2, <1>3, PTL DEF Spec

=============================================================================
