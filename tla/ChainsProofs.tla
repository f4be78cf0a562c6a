---------------------------- MODULE ChainsProofs ----------------------------
(***************************************************************************)
(* Proofs about the two block trees and the order of tips, for every pair  *)
(* of trees.  Grounded, the assumption that hash chains have no cycles, is *)
(* the induction principle: a set of blocks that fail a property has one   *)
(* whose parent does not fail it.                                          *)
(***************************************************************************)
EXTENDS Chains, FiniteSetTheorems, WellFoundedInduction, TLAPS

(* The facts about numbers, sequences and loops on an interval hold for any *)
(* operation.                                                               *)
Loop == INSTANCE LoopTheorems WITH op <- LAMBDA x, e : x, Good <- LAMBDA x : TRUE

-----------------------------------------------------------------------------
(* Ancestry in a tree of blocks B with the parents prev, where the parent  *)
(* of a first block is Root: stated once for both chains.                  *)

(* A tree of blocks: parents are blocks or the root, and chains end.        *)
Tree(B, Root, prev) ==
    /\ Root \notin B
    /\ prev \in [B -> B \cup {Root}]
    /\ Grounded(prev)

(* f gives the ancestors of each block, the block itself included.          *)
AncestorsOf(f, B, Root, prev) ==
    f = [b \in B |-> IF prev[b] = Root THEN {b} ELSE {b} \cup f[prev[b]]]

(* The recursive definition of ancestors defines a function: the ancestors *)
(* of a block are what every set that holds the block and the parents of   *)
(* its members holds.                                                      *)
LEMMA AncestorsExist ==
    ASSUME NEW B, NEW Root, NEW prev, Root \notin B, prev \in [B -> B \cup {Root}]
    PROVE  \E f : AncestorsOf(f, B, Root, prev)
<1> DEFINE Closed(C) == \A y \in C : prev[y] \in B => prev[y] \in C
           f == [b \in B |-> {x \in B : \A C \in SUBSET B : b \in C /\ Closed(C) => x \in C}]
<1>1. \A b \in B : b \in f[b] /\ f[b] \subseteq B
  OBVIOUS
<1>2. \A b \in B : Closed(f[b])
  OBVIOUS
<1>3. ASSUME NEW b \in B, prev[b] = Root PROVE f[b] = {b}
  <2>1. Closed({b})
    BY <1>3
  <2>2. {b} \in SUBSET B
    OBVIOUS
  <2>3. f[b] \subseteq {b}
    BY <2>1, <2>2
  <2> HIDE DEF f
  <2> QED
    BY <1>1, <2>3
<1>4. ASSUME NEW b \in B, prev[b] # Root PROVE f[b] = {b} \cup f[prev[b]]
  <2>1. prev[b] \in B
    BY <1>4
  <2>2. Closed({b} \cup f[prev[b]])
    <3> HIDE DEF f
    <3> QED
      BY <1>1, <1>2, <2>1
  <2>3. {b} \cup f[prev[b]] \in SUBSET B
    BY <1>1, <2>1
  <2>4. f[b] \subseteq {b} \cup f[prev[b]]
    BY <2>2, <2>3
  <2>5. \A C \in SUBSET B : b \in C /\ Closed(C) => prev[b] \in C
    BY <2>1
  <2>6. f[prev[b]] \subseteq f[b]
    BY <2>1, <2>5
  <2> HIDE DEF f
  <2> QED
    BY <1>1, <2>4, <2>6
<1>5. AncestorsOf(f, B, Root, prev)
  <2>1. \A b \in B : f[b] = IF prev[b] = Root THEN {b} ELSE {b} \cup f[prev[b]]
    BY <1>3, <1>4
  <2>2. f = [b \in B |-> f[b]]
    OBVIOUS
  <2> HIDE DEF f
  <2> QED
    BY <2>1, <2>2 DEF AncestorsOf
<1> QED
  BY <1>5

(* Induction along a tree: what holds of a block whenever it holds of its  *)
(* parent holds of every block.                                            *)
LEMMA TreeInduction ==
    ASSUME NEW B, NEW Root, NEW prev, Tree(B, Root, prev),
           NEW G \in SUBSET B,
           \A b \in B : (prev[b] # Root => prev[b] \in G) => b \in G
    PROVE  G = B
<1> SUFFICES ASSUME B \ G # {} PROVE FALSE
  OBVIOUS
<1>1. B \ G \in SUBSET DOMAIN prev
  BY DEF Tree
<1>2. PICK b \in B \ G : prev[b] \notin B \ G
  BY <1>1 DEF Tree, Grounded
<1> QED
  BY <1>2 DEF Tree

(* Ancestry is reflexive and transitive, of finite depth, linear below a   *)
(* block, and no block is its own parent's ancestor.                       *)
LEMMA Ancestry ==
    ASSUME NEW B, NEW Root, NEW prev, NEW f,
           Tree(B, Root, prev), AncestorsOf(f, B, Root, prev)
    PROVE  /\ \A b \in B : prev[b] = Root => f[b] = {b}
           /\ \A b \in B : prev[b] # Root => prev[b] \in B /\ f[b] = {b} \cup f[prev[b]]
           /\ \A b \in B : b \in f[b] /\ f[b] \subseteq B /\ IsFiniteSet(f[b])
           /\ \A b \in B : \A a \in f[b] : f[a] \subseteq f[b]
           /\ \A c \in B : \A a, b \in f[c] : a \in f[b] \/ b \in f[a]
           /\ \A b \in B : prev[b] # Root => b \notin f[prev[b]]
<1>1. \A b \in B : prev[b] = Root => f[b] = {b}
  BY DEF AncestorsOf
<1>2. \A b \in B : prev[b] # Root => prev[b] \in B /\ f[b] = {b} \cup f[prev[b]]
  BY DEF AncestorsOf, Tree
<1>3. \A b \in B : b \in f[b] /\ f[b] \subseteq B /\ IsFiniteSet(f[b])
  <2> DEFINE G == {b \in B : b \in f[b] /\ f[b] \subseteq B /\ IsFiniteSet(f[b])}
  <2>1. ASSUME NEW b \in B, prev[b] # Root => prev[b] \in G PROVE b \in G
    <3>1. CASE prev[b] = Root
      BY <1>1, <3>1, FS_Singleton
    <3>2. CASE prev[b] # Root
      <4>1. f[b] = f[prev[b]] \cup {b}
        BY <1>2, <3>2
      <4>2. IsFiniteSet(f[prev[b]]) /\ f[prev[b]] \subseteq B
        BY <2>1, <3>2
      <4> QED
        BY <4>1, <4>2, FS_AddElement
    <3> QED
      BY <3>1, <3>2
  <2>2. G = B
    <3> HIDE DEF G
    <3>1. G \in SUBSET B
      BY DEF G
    <3> QED
      BY <2>1, <3>1, TreeInduction
  <2> QED
    BY <2>2
<1>4. \A b \in B : \A a \in f[b] : f[a] \subseteq f[b]
  <2> DEFINE G == {b \in B : \A a \in f[b] : f[a] \subseteq f[b]}
  <2>1. ASSUME NEW b \in B, prev[b] # Root => prev[b] \in G PROVE b \in G
    BY <1>1, <1>2, <2>1
  <2>2. G = B
    <3> HIDE DEF G
    <3>1. G \in SUBSET B
      BY DEF G
    <3> QED
      BY <2>1, <3>1, TreeInduction
  <2> QED
    BY <2>2
<1>5. \A c \in B : \A a, b \in f[c] : a \in f[b] \/ b \in f[a]
  <2> DEFINE G == {c \in B : \A a, b \in f[c] : a \in f[b] \/ b \in f[a]}
  <2>1. ASSUME NEW c \in B, prev[c] # Root => prev[c] \in G PROVE c \in G
    <3>1. CASE prev[c] = Root
      BY <1>1, <1>3, <3>1
    <3>2. CASE prev[c] # Root
      BY <1>2, <1>3, <2>1, <3>2
    <3> QED
      BY <3>1, <3>2
  <2>2. G = B
    <3> HIDE DEF G
    <3>1. G \in SUBSET B
      BY DEF G
    <3> QED
      BY <2>1, <3>1, TreeInduction
  <2> QED
    BY <2>2
<1>6. \A b \in B : prev[b] # Root => b \notin f[prev[b]]
  <2> DEFINE G == {b \in B : prev[b] # Root => b \notin f[prev[b]]}
  <2>1. ASSUME NEW b \in B, prev[b] # Root => prev[b] \in G PROVE b \in G
    <3> SUFFICES ASSUME prev[b] # Root, b \in f[prev[b]] PROVE FALSE
      OBVIOUS
    <3> DEFINE p == prev[b]
    <3>1. p \in G /\ p \in B
      BY <1>2, <2>1
    <3>2. p \in f[b]
      BY <1>2, <1>3, <3>1
    <3>3. CASE prev[p] = Root
      BY <1>1, <3>1, <3>3
    <3>4. CASE prev[p] # Root
      <4>1. p \notin f[prev[p]] /\ f[p] = {p} \cup f[prev[p]] /\ prev[p] \in B
        BY <1>2, <3>1, <3>4
      <4>2. b # p
        BY <1>3, <4>1
      <4>3. b \in f[prev[p]]
        BY <4>1, <4>2
      <4>4. f[b] \subseteq f[prev[p]]
        BY <1>4, <4>1, <4>3
      <4> QED
        BY <3>2, <4>1, <4>4
    <3> QED
      BY <3>3, <3>4
  <2>2. G = B
    <3> HIDE DEF G
    <3>1. G \in SUBSET B
      BY DEF G
    <3> QED
      BY <2>1, <3>1, TreeInduction
  <2> QED
    BY <2>2
<1> QED
  BY <1>1, <1>2, <1>3, <1>4, <1>5, <1>6

(* A proper ancestor has fewer ancestors.                                   *)
LEMMA AncestorsFewer ==
    ASSUME NEW B, NEW Root, NEW prev, NEW f,
           Tree(B, Root, prev), AncestorsOf(f, B, Root, prev),
           NEW b \in B, NEW a \in f[b], a # b
    PROVE  Cardinality(f[a]) < Cardinality(f[b])
<1>1. prev[b] # Root /\ a \in f[prev[b]] /\ prev[b] \in B
  BY Ancestry
<1>2. f[a] \subseteq f[prev[b]] /\ b \notin f[prev[b]] /\ b \in f[b]
  BY <1>1, Ancestry
<1>3. f[a] \in SUBSET f[b] /\ f[a] # f[b] /\ IsFiniteSet(f[b])
  BY <1>1, <1>2, Ancestry
<1>4. /\ IsFiniteSet(f[a])
      /\ Cardinality(f[a]) <= Cardinality(f[b])
      /\ Cardinality(f[b]) = Cardinality(f[a]) => f[b] = f[a]
  BY <1>3, FS_Subset
<1>5. Cardinality(f[a]) \in Nat /\ Cardinality(f[b]) \in Nat
  BY <1>3, <1>4, FS_CardinalityType
<1> QED
  BY <1>3, <1>4, <1>5

(* h sums the work w along the ancestors A of some block.                   *)
WorkOn(h, A, w, Root, prev) ==
    /\ h \in [A -> Nat]
    /\ \A x \in A : h[x] = IF prev[x] = Root THEN w[x] ELSE h[prev[x]] + w[x]

(* The recursive definition of the total work defines a function: the sums *)
(* along the ancestors of two blocks agree where both are defined.         *)
LEMMA WorkExists ==
    ASSUME NEW B, NEW Root, NEW prev, NEW f,
           Tree(B, Root, prev), AncestorsOf(f, B, Root, prev),
           NEW w \in [B -> Nat]
    PROVE  \E g : g = [b \in B |-> IF prev[b] = Root THEN w[b] ELSE g[prev[b]] + w[b]]
<1> DEFINE Sum(h, b) == WorkOn(h, f[b], w, Root, prev)
<1>1. \A b \in B : \E h : Sum(h, b)
  <2> DEFINE G == {b \in B : \E h : Sum(h, b)}
  <2>1. ASSUME NEW b \in B, prev[b] # Root => prev[b] \in G PROVE b \in G
    <3>1. CASE prev[b] = Root
      <4>1. Sum([x \in {b} |-> w[b]], b)
        BY <3>1, Ancestry DEF WorkOn
      <4> QED
        BY <4>1
    <3>2. CASE prev[b] # Root
      <4>1. PICK h : Sum(h, prev[b])
        BY <2>1, <3>2
      <4>2. /\ prev[b] \in B /\ f[b] = {b} \cup f[prev[b]] /\ b \notin f[prev[b]]
            /\ prev[b] \in f[prev[b]]
        BY <3>2, Ancestry
      <4>3. \A x \in f[prev[b]] : prev[x] # Root => prev[x] \in f[prev[b]]
        BY <4>2, Ancestry
      <4> DEFINE k == [x \in f[b] |-> IF x = b THEN h[prev[b]] + w[b] ELSE h[x]]
      <4>4. h \in [f[prev[b]] -> Nat] /\ w[b] \in Nat
        BY <4>1 DEF WorkOn
      <4>5. k \in [f[b] -> Nat]
        BY <4>2, <4>4
      <4>6. k[b] = k[prev[b]] + w[b]
        BY <4>2
      <4>7. ASSUME NEW x \in f[prev[b]]
            PROVE  k[x] = IF prev[x] = Root THEN w[x] ELSE k[prev[x]] + w[x]
        <5>1. x # b /\ x \in f[b] /\ k[x] = h[x]
          BY <4>2
        <5>2. prev[x] # Root => prev[x] # b /\ prev[x] \in f[b] /\ k[prev[x]] = h[prev[x]]
          BY <4>2, <4>3
        <5> QED
          BY <4>1, <5>1, <5>2 DEF WorkOn
      <4>8. Sum(k, b)
        <5> HIDE DEF k
        <5> QED
          BY <3>2, <4>2, <4>5, <4>6, <4>7 DEF WorkOn
      <4> QED
        BY <4>8
    <3> QED
      BY <3>1, <3>2
  <2>2. G = B
    <3> HIDE DEF G
    <3>1. G \in SUBSET B
      BY DEF G
    <3> QED
      BY <2>1, <3>1, TreeInduction
  <2> QED
    BY <2>2
<1>2. ASSUME NEW b \in B, NEW c \in B, NEW h, NEW k, Sum(h, b), Sum(k, c)
      PROVE  \A x \in f[b] \cap f[c] : h[x] = k[x]
  <2> DEFINE G == {x \in B : x \in f[b] \cap f[c] => h[x] = k[x]}
  <2>1. ASSUME NEW x \in B, prev[x] # Root => prev[x] \in G PROVE x \in G
    <3> SUFFICES ASSUME x \in f[b] \cap f[c] PROVE h[x] = k[x]
      OBVIOUS
    <3>1. prev[x] # Root => prev[x] \in f[b] \cap f[c]
      BY Ancestry
    <3> QED
      BY <1>2, <2>1, <3>1 DEF WorkOn
  <2>2. G = B
    <3> HIDE DEF G
    <3>1. G \in SUBSET B
      BY DEF G
    <3> QED
      BY <2>1, <3>1, TreeInduction
  <2>3. f[b] \subseteq B
    BY Ancestry
  <2> QED
    BY <2>2, <2>3
<1> DEFINE sum(b) == CHOOSE h : Sum(h, b)
           g == [b \in B |-> sum(b)[b]]
<1>3. \A b \in B : Sum(sum(b), b)
  BY <1>1
<1>4. ASSUME NEW b \in B PROVE g[b] = IF prev[b] = Root THEN w[b] ELSE g[prev[b]] + w[b]
  <2>1. b \in f[b] /\ g[b] = sum(b)[b]
    BY Ancestry
  <2>2. g[b] = IF prev[b] = Root THEN w[b] ELSE sum(b)[prev[b]] + w[b]
    BY <1>3, <2>1 DEF WorkOn
  <2>3. ASSUME prev[b] # Root PROVE g[prev[b]] = sum(b)[prev[b]]
    <3>1. prev[b] \in B /\ prev[b] \in f[b] \cap f[prev[b]]
      BY <2>3, Ancestry
    <3>2. sum(prev[b])[prev[b]] = sum(b)[prev[b]]
      <4> HIDE DEF sum
      <4> QED
        BY <1>2, <1>3, <3>1
    <3> QED
      BY <3>1, <3>2
  <2> QED
    BY <2>2, <2>3
<1>5. g = [b \in B |-> g[b]]
  OBVIOUS
<1>6. g = [b \in B |-> IF prev[b] = Root THEN w[b] ELSE g[prev[b]] + w[b]]
  <2> HIDE DEF g
  <2> QED
    BY <1>4, <1>5
<1> QED
  BY <1>6

-----------------------------------------------------------------------------
(* The two chains.                                                          *)

(* main_ancestors and ancestors are the ancestors of the two trees.         *)
LEMMA BothTrees ==
    /\ Tree(MainBlocks, Zero, main_prev)
    /\ AncestorsOf(MainAncestors, MainBlocks, Zero, main_prev)
    /\ Tree(SideBlocks, None, prev_side)
    /\ AncestorsOf(Ancestors, SideBlocks, None, prev_side)
<1>1. Tree(MainBlocks, Zero, main_prev) /\ Tree(SideBlocks, None, prev_side)
  BY ChainsAssumption DEF Tree
<1>2. \E f : AncestorsOf(f, MainBlocks, Zero, main_prev)
  BY <1>1, AncestorsExist DEF Tree
<1>3. \E f : AncestorsOf(f, SideBlocks, None, prev_side)
  BY <1>1, AncestorsExist DEF Tree
<1>4. AncestorsOf(MainAncestors, MainBlocks, Zero, main_prev)
  BY <1>2 DEF AncestorsOf, MainAncestors
<1>5. AncestorsOf(Ancestors, SideBlocks, None, prev_side)
  BY <1>3 DEF AncestorsOf, Ancestors
<1> QED
  BY <1>1, <1>4, <1>5

(* The facts of lemma Ancestry for the mainchain.                           *)
LEMMA MainAncestry ==
    /\ \A m \in MainBlocks : main_prev[m] = Zero => MainAncestors[m] = {m}
    /\ \A m \in MainBlocks : main_prev[m] # Zero =>
           main_prev[m] \in MainBlocks
           /\ MainAncestors[m] = {m} \cup MainAncestors[main_prev[m]]
    /\ \A m \in MainBlocks :
           m \in MainAncestors[m] /\ MainAncestors[m] \subseteq MainBlocks
           /\ IsFiniteSet(MainAncestors[m])
    /\ \A m \in MainBlocks : \A a \in MainAncestors[m] : MainAncestors[a] \subseteq MainAncestors[m]
    /\ \A m \in MainBlocks : \A a, b \in MainAncestors[m] :
           a \in MainAncestors[b] \/ b \in MainAncestors[a]
    /\ \A m \in MainBlocks : main_prev[m] # Zero => m \notin MainAncestors[main_prev[m]]
  BY BothTrees, Ancestry

(* The facts of lemma Ancestry for the sidechain.                           *)
LEMMA SideAncestry ==
    /\ \A s \in SideBlocks : prev_side[s] = None => Ancestors[s] = {s}
    /\ \A s \in SideBlocks : prev_side[s] # None =>
           prev_side[s] \in SideBlocks /\ Ancestors[s] = {s} \cup Ancestors[prev_side[s]]
    /\ \A s \in SideBlocks :
           s \in Ancestors[s] /\ Ancestors[s] \subseteq SideBlocks /\ IsFiniteSet(Ancestors[s])
    /\ \A s \in SideBlocks : \A a \in Ancestors[s] : Ancestors[a] \subseteq Ancestors[s]
    /\ \A s \in SideBlocks : \A a, b \in Ancestors[s] : a \in Ancestors[b] \/ b \in Ancestors[a]
    /\ \A s \in SideBlocks : prev_side[s] # None => s \notin Ancestors[prev_side[s]]
  BY BothTrees, Ancestry

(* Heights are natural numbers that increase along a chain.                 *)
LEMMA Heights ==
    /\ MainHeight \in [MainBlocks -> Nat]
    /\ Height \in [SideBlocks -> Nat]
    /\ \A m \in MainBlocks : \A a \in MainAncestors[m] : a # m => MainHeight[a] < MainHeight[m]
    /\ \A s \in SideBlocks : \A a \in Ancestors[s] : a # s => Height[a] < Height[s]
<1>1. ASSUME NEW S, NEW x \in S, IsFiniteSet(S) PROVE Cardinality(S) - 1 \in Nat
  <2>1. Cardinality(S) \in Nat /\ Cardinality(S) # 0
    BY <1>1, FS_CardinalityType, FS_EmptySet
  <2> QED
    BY <2>1
<1>2. MainHeight \in [MainBlocks -> Nat]
  BY <1>1, MainAncestry DEF MainHeight
<1>3. Height \in [SideBlocks -> Nat]
  BY <1>1, SideAncestry DEF Height
<1>4. ASSUME NEW m \in MainBlocks, NEW a \in MainAncestors[m], a # m
      PROVE  MainHeight[a] < MainHeight[m]
  <2>1. Cardinality(MainAncestors[a]) < Cardinality(MainAncestors[m])
    BY <1>4, BothTrees, AncestorsFewer
  <2>2. a \in MainBlocks /\ MainHeight[a] \in Nat /\ MainHeight[m] \in Nat
    BY <1>2, MainAncestry
  <2>3. Cardinality(MainAncestors[a]) \in Nat /\ Cardinality(MainAncestors[m]) \in Nat
    BY <2>2, MainAncestry, FS_CardinalityType
  <2> QED
    BY <2>1, <2>2, <2>3 DEF MainHeight
<1>5. ASSUME NEW s \in SideBlocks, NEW a \in Ancestors[s], a # s
      PROVE  Height[a] < Height[s]
  <2>1. Cardinality(Ancestors[a]) < Cardinality(Ancestors[s])
    BY <1>5, BothTrees, AncestorsFewer
  <2>2. a \in SideBlocks /\ Height[a] \in Nat /\ Height[s] \in Nat
    BY <1>3, SideAncestry
  <2>3. Cardinality(Ancestors[a]) \in Nat /\ Cardinality(Ancestors[s]) \in Nat
    BY <2>2, SideAncestry, FS_CardinalityType
  <2> QED
    BY <2>1, <2>2, <2>3 DEF Height
<1> QED
  BY <1>2, <1>3, <1>4, <1>5

(* The total work is a natural number that increases along a chain.         *)
LEMMA WorkIncreases ==
    /\ TotalWork \in [MainBlocks -> Nat]
    /\ \A m \in MainBlocks : \A a \in MainAncestors[m] : a # m => TotalWork[a] < TotalWork[m]
<1>1. main_work \in [MainBlocks -> Nat] /\ \A m \in MainBlocks : main_work[m] > 0
  BY ChainsAssumption
<1>2. TotalWork = [m \in MainBlocks |->
                      IF main_prev[m] = Zero THEN main_work[m]
                      ELSE TotalWork[main_prev[m]] + main_work[m]]
  <2>1. \E g : g = [m \in MainBlocks |->
                      IF main_prev[m] = Zero THEN main_work[m] ELSE g[main_prev[m]] + main_work[m]]
    BY <1>1, BothTrees, WorkExists
  <2> QED
    BY <2>1 DEF TotalWork
<1> HIDE DEF TotalWork
<1> DEFINE G == {m \in MainBlocks :
                    /\ TotalWork[m] \in Nat
                    /\ \A a \in MainAncestors[m] :
                           a # m => TotalWork[a] \in Nat /\ TotalWork[a] < TotalWork[m]}
<1>3. ASSUME NEW m \in MainBlocks, main_prev[m] # Zero => main_prev[m] \in G PROVE m \in G
  <2>1. CASE main_prev[m] = Zero
    BY <1>1, <1>2, <2>1, MainAncestry
  <2>2. CASE main_prev[m] # Zero
    <3>1. TotalWork[m] = TotalWork[main_prev[m]] + main_work[m]
      BY <1>2, <2>2
    <3>2. TotalWork[main_prev[m]] \in Nat /\ main_work[m] \in Nat /\ main_work[m] > 0
      BY <1>1, <1>3, <2>2
    <3>3. TotalWork[m] \in Nat /\ TotalWork[main_prev[m]] < TotalWork[m]
      BY <3>1, <3>2
    <3>4. ASSUME NEW a \in MainAncestors[m], a # m
          PROVE  TotalWork[a] \in Nat /\ TotalWork[a] < TotalWork[m]
      <4>1. a \in MainAncestors[main_prev[m]]
        BY <2>2, <3>4, MainAncestry
      <4>2. CASE a = main_prev[m]
        BY <3>2, <3>3, <4>2
      <4>3. CASE a # main_prev[m]
        <5>1. TotalWork[a] \in Nat /\ TotalWork[a] < TotalWork[main_prev[m]]
          BY <1>3, <2>2, <4>1, <4>3
        <5> QED
          BY <3>2, <3>3, <5>1
      <4> QED
        BY <4>2, <4>3
    <3> QED
      BY <3>3, <3>4
  <2> QED
    BY <2>1, <2>2
<1>4. G = MainBlocks
  <2> HIDE DEF G
  <2>1. G \in SUBSET MainBlocks
    BY DEF G
  <2>2. Tree(MainBlocks, Zero, main_prev)
    BY BothTrees
  <2>3. \A m \in MainBlocks : (main_prev[m] # Zero => main_prev[m] \in G) => m \in G
    BY <1>3
  <2> QED
    BY <2>1, <2>2, <2>3, TreeInduction
<1> QED
  BY <1>2, <1>4

-----------------------------------------------------------------------------
(* The order of tips.                                                       *)

(* height_before and work_before have a value for every tip and fork: the   *)
(* block that the latest ancestor before the fork was mined in is found.    *)
LEMMA BeforeFork ==
    ASSUME NEW s \in SideBlocks, NEW m \in MainBlocks
    PROVE  /\ HeightBefore(s, m) \in Int
           /\ WorkBefore(s, m) \in Int
<1> DEFINE H == {Height[a] : a \in MinedBefore(s, m)}
<1>1. MinedBefore(s, m) \subseteq Ancestors[s] /\ Ancestors[s] \subseteq SideBlocks
  BY SideAncestry DEF MinedBefore
<1>2. Height[s] \in Nat
  BY Heights
<1>3. H \subseteq 0..Height[s]
  <2>1. \A a \in MinedBefore(s, m) : Height[a] \in Nat /\ Height[a] <= Height[s]
    BY <1>1, <1>2, Heights
  <2> QED
    BY <1>2, <2>1
<1>4. CASE MinedBefore(s, m) = {}
  BY <1>4 DEF HeightBefore, WorkBefore
<1>5. CASE MinedBefore(s, m) # {}
  <2>1. \E x \in H : \A y \in H : y <= x
    <3>1. H # {}
      BY <1>5
    <3> HIDE DEF H
    <3> QED
      BY <1>2, <1>3, <3>1, Loop!GreatestBelow
  <2>2. HeightBefore(s, m) \in H
    BY <2>1 DEF HeightBefore
  <2>3. HeightBefore(s, m) \in Int
    BY <1>2, <1>3, <2>2
  <2>4. PICK a \in MinedBefore(s, m) :
            a = CHOOSE x \in MinedBefore(s, m) : Height[x] = HeightBefore(s, m)
    <3>1. \E x \in MinedBefore(s, m) : Height[x] = HeightBefore(s, m)
      BY <2>2
    <3> QED
      BY <3>1
  <2>5. prev_main[a] # m /\ prev_main[a] \in MainAncestors[m] /\ prev_main[a] \in MainBlocks
    BY <1>1, ChainsAssumption DEF MinedBefore, IsMainDescendant
  <2>6. \E x \in MainAncestors[m] : main_prev[x] = prev_main[a]
    <3> DEFINE p == prev_main[a]
               G == {n \in MainBlocks : p \in MainAncestors[n] /\ p # n =>
                                          \E x \in MainAncestors[n] : main_prev[x] = p}
    <3>1. ASSUME NEW n \in MainBlocks, main_prev[n] # Zero => main_prev[n] \in G PROVE n \in G
      BY <3>1, MainAncestry
    <3>2. G = MainBlocks
      <4> HIDE DEF G
      <4>1. G \in SUBSET MainBlocks
        BY DEF G
      <4> QED
        BY <3>1, <4>1, BothTrees, TreeInduction
    <3> QED
      BY <2>5, <3>2
  <2>7. PICK c \in MainAncestors[m] :
            c = CHOOSE x \in MainAncestors[m] : main_prev[x] = prev_main[a]
    BY <2>6
  <2>8. WorkBefore(s, m) = TotalWork[c]
    BY <1>5, <2>4, <2>7 DEF WorkBefore
  <2>9. TotalWork[c] \in Int
    BY MainAncestry, WorkIncreases
  <2> QED
    BY <2>3, <2>8, <2>9
<1> QED
  BY <1>4, <1>5

(* Any two mainchain blocks have a last common ancestor, the same in either *)
(* order.                                                                   *)
LEMMA CommonMainAncestor ==
    ASSUME NEW m \in MainBlocks, NEW n \in MainBlocks
    PROVE  /\ LastCommonMainAncestor(m, n) = LastCommonMainAncestor(n, m)
           /\ LastCommonMainAncestor(m, n) \in MainAncestors[m] \cap MainAncestors[n]
           /\ \A b \in MainAncestors[m] \cap MainAncestors[n] :
                  b \in MainAncestors[LastCommonMainAncestor(m, n)]
<1> DEFINE C == MainAncestors[m] \cap MainAncestors[n]
<1>1. MainAncestors[n] \cap MainAncestors[m] = C
  OBVIOUS
<1>2. LastCommonMainAncestor(m, n) = LastCommonMainAncestor(n, m)
  BY <1>1 DEF LastCommonMainAncestor
<1>3. C # {}
  <2> DEFINE G == {k \in MainBlocks : \E g \in MainAncestors[k] : main_prev[g] = Zero}
  <2>1. ASSUME NEW k \in MainBlocks, main_prev[k] # Zero => main_prev[k] \in G PROVE k \in G
    BY <2>1, MainAncestry
  <2>2. G = MainBlocks
    <3> HIDE DEF G
    <3>1. G \in SUBSET MainBlocks
      BY DEF G
    <3> QED
      BY <2>1, <3>1, BothTrees, TreeInduction
  <2>3. PICK g \in MainAncestors[m], h \in MainAncestors[n] :
            main_prev[g] = Zero /\ main_prev[h] = Zero
    BY <2>2
  <2>4. g \in MainBlocks /\ h \in MainBlocks
    BY MainAncestry
  <2>5. g = h
    BY <2>3, <2>4, ChainsAssumption
  <2> QED
    BY <2>5
<1>4. \E a \in C : \A b \in C : MainHeight[b] <= MainHeight[a]
  <2> DEFINE K == {MainHeight[b] : b \in C}
  <2>1. C \subseteq MainAncestors[m] /\ C \subseteq MainBlocks
    BY MainAncestry
  <2>2. MainHeight[m] \in Nat
    BY Heights
  <2>3. \A b \in C : MainHeight[b] \in Nat /\ MainHeight[b] <= MainHeight[m]
    BY <2>1, <2>2, Heights
  <2>4. K \subseteq 0..MainHeight[m] /\ K # {}
    BY <1>3, <2>2, <2>3
  <2>5. \E x \in K : \A y \in K : y <= x
    <3> HIDE DEF K
    <3> QED
      BY <2>2, <2>4, Loop!GreatestBelow
  <2> QED
    BY <2>5
<1>5. /\ LastCommonMainAncestor(m, n) \in C
      /\ \A b \in C : MainHeight[b] <= MainHeight[LastCommonMainAncestor(m, n)]
  BY <1>4 DEF LastCommonMainAncestor
<1>6. ASSUME NEW b \in C PROVE b \in MainAncestors[LastCommonMainAncestor(m, n)]
  <2> DEFINE a == LastCommonMainAncestor(m, n)
  <2>1. a \in MainAncestors[b] \/ b \in MainAncestors[a]
    BY <1>5, MainAncestry
  <2>2. ASSUME a \in MainAncestors[b], a # b PROVE FALSE
    <3>1. a \in MainBlocks /\ b \in MainBlocks
      BY <1>5, MainAncestry
    <3>2. MainHeight[a] < MainHeight[b] /\ MainHeight[a] \in Nat /\ MainHeight[b] \in Nat
      BY <2>2, <3>1, Heights
    <3>3. MainHeight[b] <= MainHeight[a]
      BY <1>5
    <3> HIDE DEF a
    <3> QED
      BY <3>2, <3>3
  <2>3. a \in MainBlocks
    BY <1>5, MainAncestry
  <2> QED
    BY <2>1, <2>2, <2>3, MainAncestry
<1> QED
  BY <1>2, <1>5, <1>6

(* Everything two tips are compared by has an integer value.                *)
LEMMA Compared ==
    ASSUME NEW t0 \in Tips, NEW t1 \in Tips
    PROVE  LET fork == LastCommonMainAncestor(t0.main_block_hash, t1.main_block_hash)
           IN  /\ TotalWork[t0.main_block_hash] \in Int
               /\ Height[t0.block_hash] \in Int
               /\ fork \in MainBlocks
               /\ HeightBefore(t0.block_hash, fork) \in Int
               /\ WorkBefore(t0.block_hash, fork) \in Int
               /\ HeightBefore(t1.block_hash, fork) \in Int
               /\ WorkBefore(t1.block_hash, fork) \in Int
<1> DEFINE fork == LastCommonMainAncestor(t0.main_block_hash, t1.main_block_hash)
<1>1. /\ t0.main_block_hash \in MainBlocks /\ t1.main_block_hash \in MainBlocks
      /\ t0.block_hash \in SideBlocks /\ t1.block_hash \in SideBlocks
  BY DEF Tips
<1>2. fork \in MainBlocks
  BY <1>1, CommonMainAncestor, MainAncestry
<1>3. TotalWork[t0.main_block_hash] \in Int /\ Height[t0.block_hash] \in Int
  BY <1>1, WorkIncreases, Heights
<1> HIDE DEF fork
<1>4. /\ HeightBefore(t0.block_hash, fork) \in Int /\ WorkBefore(t0.block_hash, fork) \in Int
      /\ HeightBefore(t1.block_hash, fork) \in Int /\ WorkBefore(t1.block_hash, fork) \in Int
  BY <1>1, <1>2, BeforeFork
<1> QED
  BY <1>2, <1>3, <1>4 DEF fork

(* The check of a peer's tip (net/peer/task.rs) and better_tip              *)
(* (archive/mod.rs) decide alike about any two tips above the genesis       *)
(* height, in whichever place better_tip is given the own tip.              *)
THEOREM PeerCheckExact ==
    ASSUME NEW own \in Tips, NEW peer \in Tips, own # peer,
           Height[own.block_hash] > 0, Height[peer.block_hash] > 0
    PROVE  /\ PeerBetter(own, peer) <=> better_tip(own, peer) = peer
           /\ PeerBetter(own, peer) => better_tip(peer, own) = peer
<1> DEFINE o == own.main_block_hash
           p == peer.main_block_hash
           fork == LastCommonMainAncestor(o, p)
           w0 == TotalWork[o]
           w1 == TotalWork[p]
           h0 == Height[own.block_hash]
           h1 == Height[peer.block_hash]
           b0 == HeightBefore(own.block_hash, fork)
           b1 == HeightBefore(peer.block_hash, fork)
           k0 == WorkBefore(own.block_hash, fork)
           k1 == WorkBefore(peer.block_hash, fork)
           shared == SharedMainchainLineage(o, p)
<1>1. w0 \in Int /\ h0 \in Int /\ b0 \in Int /\ b1 \in Int /\ k0 \in Int /\ k1 \in Int
  BY Compared
<1>2. w1 \in Int /\ h1 \in Int
  BY Compared
<1>3. LastCommonMainAncestor(p, o) = fork
  BY CommonMainAncestor DEF Tips
<1>4. SharedMainchainLineage(p, o) <=> shared
  BY DEF SharedMainchainLineage
<1>5. h0 > 0 /\ h1 > 0
  OBVIOUS
<1>6. better_tip(own, peer) = TipOrder(own, peer) /\ better_tip(peer, own) = TipOrder(peer, own)
  <2> HIDE DEF h0, h1
  <2>1. h0 # 0 /\ h1 # 0
    BY <1>1, <1>2, <1>5
  <2> QED
    BY <2>1 DEF better_tip, h0, h1
<1>7. FirstAcrossFork(own, peer) <=> IF w0 < w1 THEN b0 >= h1 ELSE b1 < h0
  BY DEF FirstAcrossFork
<1>8. FirstAcrossFork(peer, own) <=> IF w1 < w0 THEN b1 >= h0 ELSE b0 < h1
  BY <1>3 DEF FirstAcrossFork
<1>9. FirstOfEquals(own, peer) <=>
          own.block_hash = peer.block_hash \/ b0 > b1 \/ (b0 = b1 /\ k0 <= k1)
  BY DEF FirstOfEquals
<1>10. FirstOfEquals(peer, own) <=>
          own.block_hash = peer.block_hash \/ b1 > b0 \/ (b1 = b0 /\ k1 <= k0)
  BY <1>3 DEF FirstOfEquals
<1>11. PeerBetterAtHeight(own, peer) <=> (w0 < w1 /\ ~shared) \/ (w0 > w1 /\ shared)
  BY DEF PeerBetterAtHeight
<1>12. PeerBetterAcrossFork(own, peer) <=> IF w0 < w1 THEN ~(b0 >= h1) ELSE ~(b1 < h0)
  BY DEF PeerBetterAcrossFork
<1>13. PeerBetterOfEquals(own, peer) <=>
          own.block_hash # peer.block_hash /\ (b0 < b1 \/ (b0 = b1 /\ k0 > k1))
  BY DEF PeerBetterOfEquals
<1>14. TipOrder(own, peer) =
         IF \/ w0 >= w1 /\ h0 > h1
            \/ w0 < w1 /\ h0 = h1 /\ shared
            \/ w0 > w1 /\ h0 = h1 /\ ~shared
            \/ ((w0 < w1 /\ h0 > h1) \/ (w0 > w1 /\ h0 < h1)) /\ FirstAcrossFork(own, peer)
            \/ w0 = w1 /\ h0 = h1 /\ FirstOfEquals(own, peer)
         THEN own ELSE peer
  BY DEF TipOrder
<1>15. TipOrder(peer, own) =
         IF \/ w1 >= w0 /\ h1 > h0
            \/ w1 < w0 /\ h1 = h0 /\ shared
            \/ w1 > w0 /\ h1 = h0 /\ ~shared
            \/ ((w1 < w0 /\ h1 > h0) \/ (w1 > w0 /\ h1 < h0)) /\ FirstAcrossFork(peer, own)
            \/ w1 = w0 /\ h1 = h0 /\ FirstOfEquals(peer, own)
         THEN peer ELSE own
  BY <1>4 DEF TipOrder
<1>16. PeerBetter(own, peer) <=>
         CASE w0 =< w1 /\ h0 < h1 -> TRUE
           [] w0 >= w1 /\ h0 > h1 -> FALSE
           [] w0 # w1 /\ h0 = h1 -> PeerBetterAtHeight(own, peer)
           [] w0 = w1 /\ h0 = h1 -> PeerBetterOfEquals(own, peer)
           [] OTHER -> PeerBetterAcrossFork(own, peer)
  BY DEF PeerBetter
<1> HIDE DEF w0, w1, h0, h1, b0, b1, k0, k1, shared, fork, o, p
<1>17. CASE h0 = h1 /\ w0 = w1
  BY <1>1, <1>2, <1>6, <1>9, <1>10, <1>13, <1>14, <1>15, <1>16, <1>17
<1>18. CASE h0 = h1 /\ w0 # w1
  BY <1>1, <1>2, <1>6, <1>11, <1>14, <1>15, <1>16, <1>18
<1>19. CASE h0 < h1
  BY <1>1, <1>2, <1>6, <1>7, <1>8, <1>12, <1>14, <1>15, <1>16, <1>19
<1>20. CASE h0 > h1
  BY <1>1, <1>2, <1>6, <1>7, <1>8, <1>12, <1>14, <1>15, <1>16, <1>20
<1> QED
  BY <1>1, <1>2, <1>17, <1>18, <1>19, <1>20

-----------------------------------------------------------------------------
(* The documented rule, for tips that a mainchain block merge-mines.        *)

(* The mainchain block of a tip commits to it and to the right parent.      *)
MergeMined(t) ==
    /\ t \in Tips
    /\ bmm_commitment[t.main_block_hash] = t.block_hash
    /\ prev_main[t.block_hash] = main_prev[t.main_block_hash]

(* the choice between two tips, in whichever order they are given *)
BetterTip(t0, t1) == better_tip(t0, t1) = t0 /\ better_tip(t1, t0) = t0

(* What better_tip comes to, above the genesis height, in both orders.      *)
LEMMA ChoiceCases ==
    ASSUME NEW t0 \in Tips, NEW t1 \in Tips, t0 # t1,
           Height[t0.block_hash] > 0, Height[t1.block_hash] > 0
    PROVE  LET fork == LastCommonMainAncestor(t0.main_block_hash, t1.main_block_hash)
               w0 == TotalWork[t0.main_block_hash]
               w1 == TotalWork[t1.main_block_hash]
               h0 == Height[t0.block_hash]
               h1 == Height[t1.block_hash]
               b0 == HeightBefore(t0.block_hash, fork)
               b1 == HeightBefore(t1.block_hash, fork)
               shared == SharedMainchainLineage(t0.main_block_hash, t1.main_block_hash)
           IN  /\ h0 > h1 /\ w0 >= w1 => BetterTip(t0, t1)
               /\ h0 = h1 /\ w0 < w1 /\ shared => BetterTip(t0, t1)
               /\ h0 = h1 /\ w0 > w1 /\ ~shared => BetterTip(t0, t1)
               /\ h0 > h1 /\ w0 < w1 /\ b0 >= h1 => BetterTip(t0, t1)
               /\ h0 < h1 /\ w0 > w1 /\ b1 < h0 => BetterTip(t0, t1)
               /\ h0 = h1 /\ w0 = w1 /\ b0 > b1 => BetterTip(t0, t1)
<1> DEFINE o == t0.main_block_hash
           p == t1.main_block_hash
           fork == LastCommonMainAncestor(o, p)
           w0 == TotalWork[o]
           w1 == TotalWork[p]
           h0 == Height[t0.block_hash]
           h1 == Height[t1.block_hash]
           b0 == HeightBefore(t0.block_hash, fork)
           b1 == HeightBefore(t1.block_hash, fork)
           k0 == WorkBefore(t0.block_hash, fork)
           k1 == WorkBefore(t1.block_hash, fork)
           shared == SharedMainchainLineage(o, p)
<1>1. w0 \in Int /\ h0 \in Int /\ b0 \in Int /\ b1 \in Int /\ k0 \in Int /\ k1 \in Int
  BY Compared
<1>2. w1 \in Int /\ h1 \in Int
  BY Compared
<1>3. LastCommonMainAncestor(p, o) = fork
  BY CommonMainAncestor DEF Tips
<1>4. SharedMainchainLineage(p, o) <=> shared
  BY DEF SharedMainchainLineage
<1>5. h0 > 0 /\ h1 > 0
  OBVIOUS
<1>6. better_tip(t0, t1) = TipOrder(t0, t1) /\ better_tip(t1, t0) = TipOrder(t1, t0)
  <2> HIDE DEF h0, h1
  <2>1. h0 # 0 /\ h1 # 0
    BY <1>1, <1>2, <1>5
  <2> QED
    BY <2>1 DEF better_tip, h0, h1
<1>7. FirstAcrossFork(t0, t1) <=> IF w0 < w1 THEN b0 >= h1 ELSE b1 < h0
  BY DEF FirstAcrossFork
<1>8. FirstAcrossFork(t1, t0) <=> IF w1 < w0 THEN b1 >= h0 ELSE b0 < h1
  BY <1>3 DEF FirstAcrossFork
<1>9. FirstOfEquals(t0, t1) <=>
          t0.block_hash = t1.block_hash \/ b0 > b1 \/ (b0 = b1 /\ k0 <= k1)
  BY DEF FirstOfEquals
<1>10. FirstOfEquals(t1, t0) <=>
          t0.block_hash = t1.block_hash \/ b1 > b0 \/ (b1 = b0 /\ k1 <= k0)
  BY <1>3 DEF FirstOfEquals
<1>11. t0.block_hash = t1.block_hash => b0 = b1
  OBVIOUS
<1>12. TipOrder(t0, t1) =
         IF \/ w0 >= w1 /\ h0 > h1
            \/ w0 < w1 /\ h0 = h1 /\ shared
            \/ w0 > w1 /\ h0 = h1 /\ ~shared
            \/ ((w0 < w1 /\ h0 > h1) \/ (w0 > w1 /\ h0 < h1)) /\ FirstAcrossFork(t0, t1)
            \/ w0 = w1 /\ h0 = h1 /\ FirstOfEquals(t0, t1)
         THEN t0 ELSE t1
  BY DEF TipOrder
<1>13. TipOrder(t1, t0) =
         IF \/ w1 >= w0 /\ h1 > h0
            \/ w1 < w0 /\ h1 = h0 /\ shared
            \/ w1 > w0 /\ h1 = h0 /\ ~shared
            \/ ((w1 < w0 /\ h1 > h0) \/ (w1 > w0 /\ h1 < h0)) /\ FirstAcrossFork(t1, t0)
            \/ w1 = w0 /\ h1 = h0 /\ FirstOfEquals(t1, t0)
         THEN t1 ELSE t0
  BY <1>4 DEF TipOrder
<1> HIDE DEF w0, w1, h0, h1, b0, b1, k0, k1, shared, fork, o, p
<1>14. BetterTip(t0, t1) <=> TipOrder(t0, t1) = t0 /\ TipOrder(t1, t0) = t0
  BY <1>6 DEF BetterTip
<1>15. h0 > h1 /\ w0 >= w1 => BetterTip(t0, t1)
  BY <1>1, <1>2, <1>12, <1>13, <1>14
<1>16. h0 = h1 /\ w0 # w1 => (((w0 < w1) <=> shared) => BetterTip(t0, t1))
  BY <1>1, <1>2, <1>12, <1>13, <1>14
<1>17. h0 > h1 /\ w0 < w1 /\ b0 >= h1 => BetterTip(t0, t1)
  BY <1>1, <1>2, <1>7, <1>8, <1>12, <1>13, <1>14
<1>18. h0 < h1 /\ w0 > w1 /\ b1 < h0 => BetterTip(t0, t1)
  BY <1>1, <1>2, <1>7, <1>8, <1>12, <1>13, <1>14
<1>19. h0 = h1 /\ w0 = w1 /\ b0 > b1 => BetterTip(t0, t1)
  BY <1>1, <1>2, <1>9, <1>10, <1>11, <1>12, <1>13, <1>14
<1>20. /\ h0 = h1 /\ w0 < w1 /\ shared => BetterTip(t0, t1)
       /\ h0 = h1 /\ w0 > w1 /\ ~shared => BetterTip(t0, t1)
  BY <1>1, <1>2, <1>16
<1> QED
  BY <1>15, <1>17, <1>18, <1>19, <1>20 DEF w0, w1, h0, h1, b0, b1, shared, fork, o, p

(* On one mainchain lineage, two tips with the same work are the same.      *)
LEMMA LineageWork ==
    ASSUME NEW t0, NEW t1, MergeMined(t0), MergeMined(t1),
           SharedMainchainLineage(t0.main_block_hash, t1.main_block_hash),
           TotalWork[t0.main_block_hash] = TotalWork[t1.main_block_hash]
    PROVE  t0 = t1
<1>1. t0 \in Tips /\ t1 \in Tips
  BY DEF MergeMined
<1>2. /\ TotalWork[t0.main_block_hash] \in Int /\ TotalWork[t1.main_block_hash] \in Int
      /\ t0.main_block_hash \in MainBlocks /\ t1.main_block_hash \in MainBlocks
  BY <1>1, WorkIncreases DEF Tips
<1>3. t0.main_block_hash = t1.main_block_hash
  <2>1. ~ (TotalWork[t0.main_block_hash] < TotalWork[t1.main_block_hash])
        /\ ~ (TotalWork[t1.main_block_hash] < TotalWork[t0.main_block_hash])
    BY <1>2
  <2> QED
    BY <1>2, <2>1, WorkIncreases DEF SharedMainchainLineage, IsMainDescendant
<1>4. t0.block_hash = t1.block_hash
  BY <1>3 DEF MergeMined
<1> QED
  BY <1>1, <1>3, <1>4 DEF Tips

(* On one mainchain lineage the greater height wins, at the same height the *)
(* one that was merge-mined earlier.                                        *)
LEMMA LineageOrder ==
    ASSUME NEW t0, NEW t1, MergeMined(t0), MergeMined(t1), t0 # t1,
           SharedMainchainLineage(t0.main_block_hash, t1.main_block_hash),
           Height[t0.block_hash] > 0, Height[t1.block_hash] > 0,
           \/ Height[t0.block_hash] > Height[t1.block_hash]
           \/ /\ Height[t0.block_hash] = Height[t1.block_hash]
              /\ TotalWork[t0.main_block_hash] < TotalWork[t1.main_block_hash]
    PROVE  BetterTip(t0, t1)
<1> DEFINE o == t0.main_block_hash
           p == t1.main_block_hash
           s == t0.block_hash
           fork == LastCommonMainAncestor(o, p)
<1>1. t0 \in Tips /\ t1 \in Tips /\ o \in MainBlocks /\ p \in MainBlocks /\ s \in SideBlocks
  BY DEF MergeMined, Tips
<1>2. TotalWork[o] \in Int /\ TotalWork[p] \in Int
      /\ Height[s] \in Int /\ Height[t1.block_hash] \in Int
  BY <1>1, Compared
<1>3. CASE Height[s] > Height[t1.block_hash] /\ TotalWork[o] < TotalWork[p]
  <2>1. o \in MainAncestors[p]
    <3>1. ~ (TotalWork[p] < TotalWork[o]) /\ TotalWork[p] # TotalWork[o]
      BY <1>2, <1>3
    <3> QED
      BY <1>1, <3>1, WorkIncreases DEF SharedMainchainLineage, IsMainDescendant
  <2>2. fork = o
    <3>1. o \in MainAncestors[o] \cap MainAncestors[p]
      BY <1>1, <2>1, MainAncestry
    <3>2. fork \in MainAncestors[o] /\ o \in MainAncestors[fork] /\ fork \in MainBlocks
      BY <1>1, <3>1, CommonMainAncestor, MainAncestry
    <3>3. TotalWork[fork] \in Int
      BY <3>2, WorkIncreases
    <3>4. ~ (TotalWork[fork] < TotalWork[o] /\ TotalWork[o] < TotalWork[fork])
      BY <1>2, <3>3
    <3> QED
      BY <1>1, <3>2, <3>4, WorkIncreases
  <2>3. prev_main[s] = main_prev[o] /\ prev_main[s] \in MainBlocks
    BY <1>1, ChainsAssumption DEF MergeMined
  <2>4. s \in MinedBefore(s, fork)
    <3>1. main_prev[o] # Zero /\ o \in MainBlocks
      BY <1>1, <2>3, ChainsAssumption
    <3>2. prev_main[s] # o /\ prev_main[s] \in MainAncestors[o]
      BY <2>3, <3>1, MainAncestry
    <3>3. s \in Ancestors[s] /\ o # Zero
      BY <1>1, SideAncestry, ChainsAssumption
    <3> QED
      BY <2>2, <3>2, <3>3 DEF MinedBefore, IsMainDescendant
  <2>5. HeightBefore(s, fork) = Height[s]
    <3> DEFINE H == {Height[a] : a \in MinedBefore(s, fork)}
    <3>1. Height[s] \in H
      BY <2>4
    <3>2. \A a \in MinedBefore(s, fork) : Height[a] \in Int /\ Height[a] <= Height[s]
      BY <1>1, <1>2, SideAncestry, Heights DEF MinedBefore
    <3>3. \A h \in H : h \in Int /\ h <= Height[s]
      BY <3>2
    <3>4. HeightBefore(s, fork) = CHOOSE h \in H : \A g \in H : g <= h
      BY <3>1 DEF HeightBefore
    <3> HIDE DEF H
    <3>5. \A h \in H : (\A g \in H : g <= h) => h = Height[s]
      BY <1>2, <3>1, <3>3
    <3> QED
      BY <3>1, <3>3, <3>4, <3>5
  <2>6. HeightBefore(s, fork) >= Height[t1.block_hash]
    BY <1>2, <1>3, <2>5
  <2> QED
    BY <1>1, <1>3, <2>6, ChoiceCases
<1>4. CASE Height[s] > Height[t1.block_hash] /\ TotalWork[o] >= TotalWork[p]
  BY <1>1, <1>4, ChoiceCases
<1>5. CASE Height[s] = Height[t1.block_hash] /\ TotalWork[o] < TotalWork[p]
  BY <1>1, <1>5, ChoiceCases
<1> QED
  BY <1>2, <1>3, <1>4, <1>5

(* Off the lineage, the part of a tip's chain before the fork is lower than *)
(* the tip.                                                                 *)
LEMMA BeforeBelowTip ==
    ASSUME NEW t0, NEW t1, MergeMined(t0), MergeMined(t1),
           ~SharedMainchainLineage(t0.main_block_hash, t1.main_block_hash)
    PROVE  HeightBefore(t0.block_hash,
                        LastCommonMainAncestor(t0.main_block_hash, t1.main_block_hash))
               < Height[t0.block_hash]
<1> DEFINE o == t0.main_block_hash
           p == t1.main_block_hash
           s == t0.block_hash
           fork == LastCommonMainAncestor(o, p)
           H == {Height[a] : a \in MinedBefore(s, fork)}
<1>1. t0 \in Tips /\ t1 \in Tips /\ o \in MainBlocks /\ p \in MainBlocks /\ s \in SideBlocks
  BY DEF MergeMined, Tips
<1>2. Height[s] \in Nat
  BY <1>1, Heights
<1>3. fork \in MainAncestors[o] /\ fork \in MainAncestors[p] /\ fork \in MainBlocks
  BY <1>1, CommonMainAncestor, MainAncestry
<1>4. fork # o
  BY <1>1, <1>3, ChainsAssumption DEF SharedMainchainLineage, IsMainDescendant
<1>5. s \notin MinedBefore(s, fork)
  <2> SUFFICES ASSUME s \in MinedBefore(s, fork) PROVE FALSE
    OBVIOUS
  <2>1. main_prev[o] # fork /\ main_prev[o] \in MainAncestors[fork]
    BY DEF MinedBefore, IsMainDescendant, MergeMined
  <2>2. main_prev[o] # Zero /\ fork \in MainAncestors[main_prev[o]] /\ main_prev[o] \in MainBlocks
    BY <1>1, <1>3, <1>4, MainAncestry
  <2>3. /\ TotalWork[main_prev[o]] < TotalWork[fork] /\ TotalWork[fork] < TotalWork[main_prev[o]]
        /\ TotalWork[fork] \in Int /\ TotalWork[main_prev[o]] \in Int
    BY <1>3, <2>1, <2>2, WorkIncreases
  <2> QED
    BY <2>3
<1>6. \A h \in H : h \in Nat /\ h < Height[s]
  BY <1>1, <1>5, SideAncestry, Heights DEF MinedBefore
<1>7. HeightBefore(s, fork) = IF H = {} THEN -1 ELSE CHOOSE h \in H : \A g \in H : g <= h
  BY DEF HeightBefore
<1>8. H # {} => \E h \in H : \A g \in H : g <= h
  <2> HIDE DEF H
  <2>1. H \subseteq 0..Height[s]
    BY <1>2, <1>6
  <2> QED
    BY <1>2, <2>1, Loop!GreatestBelow
<1> HIDE DEF H
<1>9. CASE H = {}
  BY <1>2, <1>7, <1>9
<1>10. CASE H # {}
  <2>1. HeightBefore(s, fork) \in H
    BY <1>7, <1>8, <1>10
  <2> QED
    BY <1>6, <2>1
<1> QED
  BY <1>9, <1>10

(* The rule of better_tip holds of any two merge-mined tips above the       *)
(* genesis height: on one mainchain lineage the greater height wins, and of *)
(* equal heights the lower work (the doc comment says the greater: see      *)
(* BetterTipRule of TipChoice); on two, the greater height with equal work, *)
(* the greater work with no less height, the greater work with no less      *)
(* height before the fork, and with equal height and work the greater       *)
(* height before the fork.                                                  *)
THEOREM TipRule ==
    ASSUME NEW t0, NEW t1, MergeMined(t0), MergeMined(t1), t0 # t1,
           Height[t0.block_hash] > 0, Height[t1.block_hash] > 0
    PROVE  LET fork == LastCommonMainAncestor(t0.main_block_hash, t1.main_block_hash)
               w0 == TotalWork[t0.main_block_hash]
               w1 == TotalWork[t1.main_block_hash]
               h0 == Height[t0.block_hash]
               h1 == Height[t1.block_hash]
               b0 == HeightBefore(t0.block_hash, fork)
               b1 == HeightBefore(t1.block_hash, fork)
               shared == SharedMainchainLineage(t0.main_block_hash, t1.main_block_hash)
           IN  /\ shared /\ h0 > h1 => BetterTip(t0, t1)
               /\ shared /\ h0 = h1 /\ w0 < w1 => BetterTip(t0, t1)
               /\ ~shared /\ h0 > h1 /\ w0 = w1 => BetterTip(t0, t1)
               /\ ~shared /\ h0 >= h1 /\ w0 > w1 => BetterTip(t0, t1)
               /\ ~shared /\ w0 > w1 /\ b0 >= b1 => BetterTip(t0, t1)
               /\ ~shared /\ h0 = h1 /\ w0 = w1 /\ b0 > b1 => BetterTip(t0, t1)
<1> DEFINE o == t0.main_block_hash
           p == t1.main_block_hash
           fork == LastCommonMainAncestor(o, p)
           w0 == TotalWork[o]
           w1 == TotalWork[p]
           h0 == Height[t0.block_hash]
           h1 == Height[t1.block_hash]
           b0 == HeightBefore(t0.block_hash, fork)
           b1 == HeightBefore(t1.block_hash, fork)
           shared == SharedMainchainLineage(o, p)
<1>1. t0 \in Tips /\ t1 \in Tips
  BY DEF MergeMined
<1>2. w0 \in Int /\ h0 \in Int /\ b0 \in Int /\ b1 \in Int
  BY <1>1, Compared
<1>3. w1 \in Int /\ h1 \in Int
  BY <1>1, Compared
<1>4. /\ shared /\ h0 > h1 => BetterTip(t0, t1)
      /\ shared /\ h0 = h1 /\ w0 < w1 => BetterTip(t0, t1)
  BY LineageOrder
<1>5. ~shared => b0 < h0
  BY BeforeBelowTip
<1>6. /\ h0 > h1 /\ w0 >= w1 => BetterTip(t0, t1)
      /\ h0 = h1 /\ w0 > w1 /\ ~shared => BetterTip(t0, t1)
      /\ h0 < h1 /\ w0 > w1 /\ b1 < h0 => BetterTip(t0, t1)
      /\ h0 = h1 /\ w0 = w1 /\ b0 > b1 => BetterTip(t0, t1)
  BY <1>1, ChoiceCases
<1> HIDE DEF w0, w1, h0, h1, b0, b1, shared, fork, o, p
<1>7. ~shared /\ h0 > h1 /\ w0 = w1 => BetterTip(t0, t1)
  BY <1>2, <1>3, <1>6
<1>8. ~shared /\ h0 >= h1 /\ w0 > w1 => BetterTip(t0, t1)
  BY <1>2, <1>3, <1>6
<1>9. ~shared /\ w0 > w1 /\ b0 >= b1 => BetterTip(t0, t1)
  BY <1>2, <1>3, <1>5, <1>6
<1> QED
  BY <1>4, <1>6, <1>7, <1>8, <1>9 DEF w0, w1, h0, h1, b0, b1, shared, fork, o, p

(* On one mainchain lineage a better tip is higher, or as high and          *)
(* merge-mined with less work: a preference never leads back.               *)
LEMMA LineagePreference ==
    ASSUME NEW t0, NEW t1, MergeMined(t0), MergeMined(t1),
           SharedMainchainLineage(t0.main_block_hash, t1.main_block_hash),
           BetterTip(t0, t1)
    PROVE  \/ Height[t0.block_hash] > Height[t1.block_hash]
           \/ /\ Height[t0.block_hash] = Height[t1.block_hash]
              /\ TotalWork[t0.main_block_hash] < TotalWork[t1.main_block_hash]
<1>1. t0 \in Tips /\ t1 \in Tips
  BY DEF MergeMined
<1>2. /\ TotalWork[t0.main_block_hash] \in Int /\ TotalWork[t1.main_block_hash] \in Int
      /\ Height[t0.block_hash] \in Nat /\ Height[t1.block_hash] \in Nat
  BY <1>1, WorkIncreases, Heights DEF Tips
<1>3. t0 # NoTip /\ t1 # NoTip
  <2>1. t0.block_hash # None /\ t1.block_hash # None
    BY <1>1, ChainsAssumption DEF Tips
  <2> QED
    BY <2>1 DEF NoTip
<1>4. t0 # t1 /\ Height[t0.block_hash] # 0
  BY <1>3 DEF BetterTip, better_tip
<1>5. CASE Height[t1.block_hash] = 0
  BY <1>2, <1>4, <1>5
<1>6. CASE Height[t1.block_hash] # 0
  <2>1. Height[t0.block_hash] > 0 /\ Height[t1.block_hash] > 0
    BY <1>2, <1>4, <1>6
  <2>2. SharedMainchainLineage(t1.main_block_hash, t0.main_block_hash)
    BY DEF SharedMainchainLineage
  <2>3. ~ BetterTip(t1, t0)
    BY <1>4 DEF BetterTip
  <2>4. TotalWork[t0.main_block_hash] # TotalWork[t1.main_block_hash]
    BY <1>4, LineageWork
  <2>5. ~ (\/ Height[t1.block_hash] > Height[t0.block_hash]
           \/ /\ Height[t1.block_hash] = Height[t0.block_hash]
              /\ TotalWork[t1.main_block_hash] < TotalWork[t0.main_block_hash])
    BY <1>4, <2>1, <2>2, <2>3, LineageOrder
  <2> QED
    BY <1>2, <2>4, <2>5
<1> QED
  BY <1>5, <1>6

(* Among the tips of one branch of the mainchain, which are the ones that   *)
(* new_tip_ready considers, preferences are never circular, and of two tips *)
(* above the genesis height one is better.                                  *)
THEOREM BranchTips ==
    ASSUME NEW m \in MainBlocks,
           NEW T, \A t \in T : MergeMined(t) /\ IsMainDescendant(t.main_block_hash, m)
    PROVE  /\ \A t0, t1, t2 \in T :
                  ~(BetterTip(t0, t1) /\ BetterTip(t1, t2) /\ BetterTip(t2, t0))
           /\ \A t0, t1 \in T :
                  Height[t0.block_hash] > 0 /\ Height[t1.block_hash] > 0
                      => t0 = t1 \/ BetterTip(t0, t1) \/ BetterTip(t1, t0)
<1> DEFINE h(t) == Height[t.block_hash]
           w(t) == TotalWork[t.main_block_hash]
<1>1. \A t \in T : h(t) \in Int /\ w(t) \in Int
  BY WorkIncreases, Heights DEF Tips, MergeMined
<1>2. \A t0, t1 \in T : SharedMainchainLineage(t0.main_block_hash, t1.main_block_hash)
  <2> SUFFICES ASSUME NEW t0 \in T, NEW t1 \in T
               PROVE  SharedMainchainLineage(t0.main_block_hash, t1.main_block_hash)
    OBVIOUS
  <2>1. t0.main_block_hash \in MainBlocks /\ t1.main_block_hash \in MainBlocks
    BY DEF MergeMined, Tips
  <2>2. t0.main_block_hash \in MainAncestors[m] /\ t1.main_block_hash \in MainAncestors[m]
    BY DEF IsMainDescendant
  <2> QED
    BY <2>1, <2>2, MainAncestry, ChainsAssumption DEF SharedMainchainLineage, IsMainDescendant
<1>3. \A t0, t1 \in T : BetterTip(t0, t1) => h(t0) > h(t1) \/ (h(t0) = h(t1) /\ w(t0) < w(t1))
  BY <1>2, LineagePreference
<1>4. ASSUME NEW t0 \in T, NEW t1 \in T, h(t0) > 0, h(t1) > 0, t0 # t1
      PROVE  BetterTip(t0, t1) \/ BetterTip(t1, t0)
  <2>1. w(t0) # w(t1)
    BY <1>2, <1>4, LineageWork
  <2>2. h(t0) > h(t1) \/ (h(t0) = h(t1) /\ w(t0) < w(t1)) => BetterTip(t0, t1)
    BY <1>2, <1>4, LineageOrder
  <2>3. h(t1) > h(t0) \/ (h(t1) = h(t0) /\ w(t1) < w(t0)) => BetterTip(t1, t0)
    BY <1>2, <1>4, LineageOrder
  <2> HIDE DEF h, w
  <2> QED
    BY <1>1, <2>1, <2>2, <2>3
<1>5. \A t0, t1, t2 \in T : ~(BetterTip(t0, t1) /\ BetterTip(t1, t2) /\ BetterTip(t2, t0))
  <2> HIDE DEF h, w
  <2> QED
    BY <1>1, <1>3
<1> QED
  BY <1>4, <1>5

=============================================================================
