---------------------------- MODULE LoopTheorems ----------------------------
(***************************************************************************)
(* What the proofs of several components rest on: least and greatest       *)
(* numbers, the ends of sequences, and loops, which are recursive          *)
(* functions on an interval or folds: they exist and give one state per    *)
(* step, so that what each step keeps the loop keeps.  The operation of a  *)
(* fold and the property are constants of the module, so that an INSTANCE  *)
(* of it speaks of any of them; the states need not be of one type.        *)
(***************************************************************************)
EXTENDS Integers, Sequences, FiniteSetTheorems, TLAPS

CONSTANTS
    op(_, _),       \* the state after an element, from the state before it
    Good(_)         \* what the operation keeps

(* A non-empty set of naturals has a least element.                         *)
LEMMA LeastNat ==
    ASSUME NEW T, T \subseteq Nat, T # {}
    PROVE  \E x \in T : \A y \in T : x <= y
<1>1. IsWellFoundedOn(OpToRel(<, Nat), Nat)
  BY NatLessThanWellFounded
<1>2. PICK x \in T : \A y \in T : ~ (<<y, x>> \in OpToRel(<, Nat))
  BY <1>1, WFMin
<1>3. \A y \in T : ~ (y < x)
  BY <1>2 DEF OpToRel
<1> QED
  BY <1>3

(* A non-empty set of naturals below a bound has a greatest element.        *)
LEMMA GreatestBelow ==
    ASSUME NEW n \in Nat, NEW K, K \subseteq 0..n, K # {}
    PROVE  \E x \in K : \A y \in K : y <= x
<1> DEFINE T == {n - k : k \in K}
<1>1. T \subseteq Nat
  OBVIOUS
<1>2. T # {}
  <2>1. PICK k \in K : TRUE
    OBVIOUS
  <2>2. n - k \in T
    OBVIOUS
  <2> QED
    BY <2>2
<1>3. PICK t \in T : \A u \in T : t <= u
  <2> HIDE DEF T
  <2> QED
    BY <1>1, <1>2, LeastNat
<1>4. PICK x \in K : t = n - x
  OBVIOUS
<1>5. \A y \in K : n - y \in T
  OBVIOUS
<1>6. \A y \in K : n - x <= n - y
  BY <1>3, <1>4, <1>5
<1> QED
  BY <1>6

(* Appending to a sequence.                                                *)
LEMMA AppendFacts ==
    ASSUME NEW S, NEW s \in Seq(S), NEW e \in S, NEW g, g = Append(s, e)
    PROVE  /\ g \in Seq(S)
           /\ Len(g) = Len(s) + 1
           /\ \A i \in 1..Len(s) : g[i] = s[i]
           /\ g[Len(s) + 1] = e
  OBVIOUS

(* Taking a prefix of a sequence.                                          *)
LEMMA PrefixFacts ==
    ASSUME NEW S, NEW s \in Seq(S), NEW k \in 0..Len(s), NEW g, g = SubSeq(s, 1, k)
    PROVE  /\ g \in Seq(S)
           /\ Len(g) = k
           /\ \A i \in 1..k : g[i] = s[i]
  OBVIOUS

-----------------------------------------------------------------------------
(* Recursive functions on an interval.                                      *)

(* Induction over an interval.                                              *)
LEMMA IntervalInduction ==
    ASSUME NEW a \in Int, NEW b \in Int, NEW G,
           a \in G, \A k \in (a + 1)..b : k - 1 \in G => k \in G
    PROVE  \A k \in a..b : k \in G
<1> SUFFICES ASSUME NEW i \in a..b, i \notin G PROVE FALSE
  OBVIOUS
<1> DEFINE T == {j \in Nat : a + j =< b /\ a + j \notin G}
<1>1. T \subseteq Nat /\ i - a \in T
  OBVIOUS
<1>2. PICK j \in T : \A y \in T : j =< y
  <2> HIDE DEF T
  <2> QED
    BY <1>1, LeastNat
<1>3. j # 0
  BY <1>2
<1>4. j - 1 \in Nat /\ ~(j =< j - 1)
  BY <1>2, <1>3
<1>5. j - 1 \notin T
  <2> HIDE DEF T
  <2> QED
    BY <1>2, <1>4
<1>6. a + (j - 1) \in G /\ a + j \in (a + 1)..b /\ (a + j) - 1 = a + (j - 1)
  BY <1>2, <1>3, <1>4, <1>5
<1>7. a + j \in G
  BY <1>6
<1> QED
  BY <1>2, <1>7

(* The values of f on the interval from a to b: base, then g of the one     *)
(* before and the index.                                                    *)
Iterates(f, a, b, base, g) ==
    f = [k \in a..b |-> IF k = a THEN base ELSE g[<<f[k - 1], k>>]]

(* The same as far as the values are in D.                                  *)
IteratesIn(f, a, b, D, base, g) ==
    /\ f = [k \in a..b |-> f[k]]
    /\ a =< b => f[a] = base
    /\ \A k \in (a + 1)..b : f[k - 1] \in D => f[k] = g[<<f[k - 1], k>>]

(* The base and the steps are in D.                                         *)
Recursion(a, b, D, base, g) ==
    /\ a \in Int /\ b \in Int /\ base \in D
    /\ \A x \in D, k \in (a + 1)..b : g[<<x, k>>] \in D

(* Its values stay in the set that g maps to.                               *)
LEMMA IteratesType ==
    ASSUME NEW a, NEW b, NEW D, NEW base, NEW g, Recursion(a, b, D, base, g),
           NEW f, IteratesIn(f, a, b, D, base, g)
    PROVE  f \in [a..b -> D]
<1> USE DEF Recursion
<1>0. /\ a =< b => f[a] = base
      /\ \A k \in (a + 1)..b : f[k - 1] \in D => f[k] = g[<<f[k - 1], k>>]
  BY DEF IteratesIn
<1> DEFINE G == {k \in Int : k \in a..b => f[k] \in D}
<1>1. a \in G
  BY <1>0
<1>2. \A k \in (a + 1)..b : k - 1 \in G => k \in G
  <2> SUFFICES ASSUME NEW k \in (a + 1)..b, k - 1 \in G PROVE k \in G
    OBVIOUS
  <2>1. k - 1 \in a..b
    OBVIOUS
  <2>2. f[k - 1] \in D /\ f[k] = g[<<f[k - 1], k>>]
    BY <1>0, <2>1
  <2>3. f[k] \in D
    BY <2>2
  <2> QED
    BY <2>3
<1>3. \A k \in a..b : k \in G
  <2> HIDE DEF G
  <2> QED
    BY <1>1, <1>2, IntervalInduction
<1> QED
  BY <1>3 DEF IteratesIn

(* Such a function exists.                                                  *)
LEMMA IteratesExist ==
    ASSUME NEW a, NEW b, NEW D, NEW base, NEW g, Recursion(a, b, D, base, g)
    PROVE  \E f \in [a..b -> D] : Iterates(f, a, b, base, g)
<1> USE DEF Recursion
<1> DEFINE G == {k \in Int : \E f : Iterates(f, a, k, base, g)}
<1>1. a \in G
  <2> DEFINE f == [k \in a..a |-> base]
  <2>1. Iterates(f, a, a, base, g)
    BY DEF Iterates
  <2> HIDE DEF f
  <2> QED
    BY <2>1
<1>2. ASSUME NEW k \in (a + 1)..b, k - 1 \in G PROVE k \in G
  <2>1. PICK f : Iterates(f, a, k - 1, base, g)
    BY <1>2
  <2>0. \A i \in a..(k - 1) : f[i] = IF i = a THEN base ELSE g[<<f[i - 1], i>>]
    BY <2>1, Zenon DEF Iterates
  <2> DEFINE h == [i \in a..k |-> IF i = k THEN g[<<f[k - 1], k>>] ELSE f[i]]
  <2>2. \A i \in a..k : h[i] = IF i = k THEN g[<<f[k - 1], k>>] ELSE f[i]
    OBVIOUS
  <2>3. h = [i \in a..k |-> h[i]]
    OBVIOUS
  <2> HIDE DEF h
  <2>4. \A i \in a..k : i = k => h[i] = g[<<h[i - 1], i>>] /\ i # a
    <3>1. k - 1 \in a..k /\ k - 1 # k /\ k # a
      OBVIOUS
    <3> QED
      BY <2>2, <3>1
  <2>5. ASSUME NEW i \in a..k, i # k
        PROVE  h[i] = IF i = a THEN base ELSE g[<<h[i - 1], i>>]
    <3>1. i \in a..(k - 1) /\ (i # a => i - 1 \in a..k /\ i - 1 # k)
      BY <2>5
    <3> QED
      BY <2>0, <2>2, <2>5, <3>1
  <2>6. \A i \in a..k : h[i] = IF i = a THEN base ELSE g[<<h[i - 1], i>>]
    BY <2>4, <2>5
  <2>7. Iterates(h, a, k, base, g)
    <3> DEFINE e(i) == IF i = a THEN base ELSE g[<<h[i - 1], i>>]
    <3>1. \A i \in a..k : h[i] = e(i)
      BY <2>6
    <3>2. [i \in a..k |-> h[i]] = [i \in a..k |-> e(i)]
      <4> HIDE DEF e
      <4> QED
        BY <3>1
    <3> QED
      BY <2>3, <3>2 DEF Iterates
  <2> QED
    BY <2>7
<1>3. a =< b => b \in G
  <2>1. \A k \in a..b : k \in G
    <3> HIDE DEF G
    <3> QED
      BY <1>1, <1>2, IntervalInduction
  <2> QED
    BY <2>1
<1>4. b < a => Iterates([k \in a..b |-> base], a, b, base, g)
  BY DEF Iterates
<1>5. PICK f : Iterates(f, a, b, base, g)
  BY <1>3, <1>4
<1>6. \A k \in a..b : f[k] = IF k = a THEN base ELSE g[<<f[k - 1], k>>]
  BY <1>5, Zenon DEF Iterates
<1>7. a =< b => f[a] = base
  <2>1. a =< b => a \in a..b
    OBVIOUS
  <2> QED
    BY <1>6, <2>1, Zenon
<1>8. \A k \in (a + 1)..b : f[k - 1] \in D => f[k] = g[<<f[k - 1], k>>]
  <2>1. \A k \in (a + 1)..b : k \in a..b /\ k # a
    OBVIOUS
  <2> QED
    BY <1>6, <2>1
<1>9. f = [k \in a..b |-> f[k]]
  BY <1>5, Zenon DEF Iterates
<1>10. f \in [a..b -> D]
  <2>1. IteratesIn(f, a, b, D, base, g)
    BY <1>7, <1>8, <1>9, Zenon DEF IteratesIn
  <2> QED
    BY <2>1, IteratesType
<1> QED
  BY <1>5, <1>10

-----------------------------------------------------------------------------
(* Folds over a sequence.                                                   *)

(* Induction over the steps of a loop.                                      *)
LEMMA Steps ==
    ASSUME NEW n \in Nat, NEW G, 0 \in G, \A i \in 1..n : i - 1 \in G => i \in G
    PROVE  \A i \in 0..n : i \in G
<1> SUFFICES ASSUME NEW i \in 0..n, i \notin G PROVE FALSE
  OBVIOUS
<1> DEFINE T == {k \in 0..n : k \notin G}
<1>1. T \subseteq Nat /\ i \in T
  OBVIOUS
<1>2. PICK k \in T : \A y \in T : k <= y
  <2> HIDE DEF T
  <2> QED
    BY <1>1, LeastNat
<1>3. k \in 1..n /\ k - 1 \notin T /\ k - 1 \in 0..n
  BY <1>2
<1> QED
  BY <1>3

(* The greatest number of a set, as the community modules define it; copied *)
(* here, like FoldLeft, so that an INSTANCE brings no more definitions along *)
(* than it needs.                                                           *)
Largest(s) == CHOOSE x \in s : \A y \in s : x >= y

(* The greatest number of a non-empty set of numbers up to n.               *)
LEMMA LargestIn ==
    ASSUME NEW n \in Nat, NEW S \in SUBSET (1..n), S # {}
    PROVE  Largest(S) \in S /\ \A y \in S : Largest(S) >= y
<1>1. S \subseteq 0..n
  OBVIOUS
<1>2. \E x \in S : \A y \in S : x >= y
  BY <1>1, GreatestBelow
<1> QED
  BY <1>2 DEF Largest

(* The elements a fold has taken after i steps.                             *)
LEMMA FirstElements ==
    ASSUME NEW n \in Nat, NEW i \in 1..n
    PROVE  /\ 1..i \in SUBSET (1..n)
           /\ Largest(1..i) = i
           /\ (1..i) \ {Largest(1..i)} = 1..(i - 1)
           /\ 1..i # {}
<1>1. 1..i \in SUBSET (1..n) /\ 1..i # {} /\ i \in 1..i
  OBVIOUS
<1>2. Largest(1..i) \in 1..i /\ \A y \in 1..i : Largest(1..i) >= y
  BY <1>1, LargestIn
<1>3. Largest(1..i) = i
  BY <1>1, <1>2
<1> QED
  BY <1>1, <1>3

(* FoldLeft(op, base, seq).                                                 *)
Fold(base, seq) ==
    LET iter[s \in SUBSET DOMAIN seq] ==
            IF s = {} THEN base
            ELSE LET x == Largest(s) IN op(iter[s \ {x}], seq[x])
    IN  iter[DOMAIN seq]

(* The function by which FoldLeft is defined.                              *)
Folds(it, n, base, seq) ==
    it = [s \in SUBSET (1..n) |->
            IF s = {} THEN base ELSE op(it[s \ {Largest(s)}], seq[Largest(s)])]

(* It exists.                                                              *)
LEMMA FoldsExist ==
    ASSUME NEW n \in Nat, NEW base, NEW seq
    PROVE  \E it : Folds(it, n, base, seq)
<1> DEFINE G == {k \in 0..n : \E it : Folds(it, k, base, seq)}
<1>1. 0 \in G
  <2> DEFINE it == [s \in SUBSET (1..0) |-> base]
  <2>1. \A s \in SUBSET (1..0) : s = {}
    OBVIOUS
  <2>2. Folds(it, 0, base, seq)
    BY <2>1 DEF Folds
  <2>3. \E x : Folds(x, 0, base, seq)
    <3> HIDE DEF it
    <3> QED
      BY <2>2
  <2> QED
    BY <2>3
<1>2. ASSUME NEW k \in 1..n, k - 1 \in G PROVE k \in G
  <2>1. PICK it : Folds(it, k - 1, base, seq)
    BY <1>2
  <2> DEFINE v(f, s) == IF s = {} THEN base ELSE op(f[s \ {Largest(s)}], seq[Largest(s)])
             ju == [s \in SUBSET (1..k) |->
                      IF k \in s THEN op(it[s \ {k}], seq[k]) ELSE it[s]]
  <2>2. \A s \in SUBSET (1..(k - 1)) : it[s] = v(it, s)
    BY <2>1, Zenon DEF Folds
  <2>3. \A s \in SUBSET (1..k) : s \ {k} \in SUBSET (1..k) /\ k \notin s \ {k}
    OBVIOUS
  <2>4. \A s \in SUBSET (1..k) : k \notin s => s \in SUBSET (1..(k - 1)) /\ ju[s] = it[s]
    OBVIOUS
  <2>5. \A s \in SUBSET (1..k) : k \in s => ju[s] = op(it[s \ {k}], seq[k])
    OBVIOUS
  <2>6. ju = [s \in SUBSET (1..k) |-> ju[s]]
    OBVIOUS
  <2> HIDE DEF ju
  <2>7. ASSUME NEW s \in SUBSET (1..k), k \in s PROVE ju[s] = v(ju, s)
    <3>1. k \in Nat /\ s # {}
      BY <2>7
    <3>2. Largest(s) \in s /\ \A y \in s : Largest(s) >= y
      BY <3>1, LargestIn
    <3>3. Largest(s) = k
      <4>1. Largest(s) \in 1..k /\ Largest(s) >= k
        BY <2>7, <3>2
      <4> QED
        BY <3>1, <4>1
    <3>4. ju[s \ {k}] = it[s \ {k}]
      BY <2>3, <2>4
    <3> QED
      BY <2>5, <2>7, <3>1, <3>3, <3>4
  <2>8. ASSUME NEW s \in SUBSET (1..k), k \notin s PROVE ju[s] = v(ju, s)
    <3>1. ju[s] = v(it, s)
      BY <2>2, <2>4, <2>8
    <3>2. s \ {Largest(s)} \in SUBSET (1..k) /\ k \notin s \ {Largest(s)}
      BY <2>8
    <3>3. ju[s \ {Largest(s)}] = it[s \ {Largest(s)}]
      BY <2>4, <3>2
    <3> QED
      BY <3>1, <3>3
  <2>9. \A s \in SUBSET (1..k) : ju[s] = v(ju, s)
    BY <2>7, <2>8
  <2>10. [s \in SUBSET (1..k) |-> ju[s]] = [s \in SUBSET (1..k) |-> v(ju, s)]
    <3> HIDE DEF v
    <3> QED
      BY <2>9
  <2>11. Folds(ju, k, base, seq)
    BY <2>6, <2>10 DEF Folds
  <2> QED
    BY <2>11
<1>3. \A k \in 0..n : k \in G
  <2> HIDE DEF G
  <2> QED
    BY <1>1, <1>2, Steps
<1> QED
  BY <1>3

(* The states of the loop: w[i] is the one after i elements.               *)
Passes(w, n, base, seq) ==
    /\ w = [i \in 0..n |-> w[i]]
    /\ w[0] = base
    /\ \A i \in 1..n : w[i] = op(w[i - 1], seq[i])
    /\ Fold(base, seq) = w[n]

(* The operation keeps the property, for each of the elements.             *)
Keeps(n, seq) == \A x : \A i \in 1..n : Good(x) => Good(op(x, seq[i]))

(* FoldLeft gives the state after the last element.                        *)
THEOREM FoldLeftPasses ==
    ASSUME NEW base, NEW seq, NEW n \in Nat, DOMAIN seq = 1..n
    PROVE  \E w : Passes(w, n, base, seq)
<1> DEFINE it == CHOOSE x : Folds(x, n, base, seq)
           w == [i \in 0..n |-> it[1..i]]
<1>1. Folds(it, n, base, seq)
  BY FoldsExist
<1>2. Fold(base, seq) = it[1..n]
  BY DEF Fold, Folds
<1> HIDE DEF it
<1>3. \A s \in SUBSET (1..n) :
         it[s] = IF s = {} THEN base ELSE op(it[s \ {Largest(s)}], seq[Largest(s)])
  BY <1>1, Zenon DEF Folds
<1>4. w[0] = base /\ w[n] = it[1..n]
  <2>1. 1..0 = {} /\ {} \in SUBSET (1..n) /\ 0 \in 0..n /\ n \in 0..n
    OBVIOUS
  <2> QED
    BY <1>3, <2>1
<1>5. ASSUME NEW i \in 1..n PROVE w[i] = op(w[i - 1], seq[i])
  <2>1. i \in 0..n /\ i - 1 \in 0..n
    OBVIOUS
  <2>2. /\ 1..i \in SUBSET (1..n) /\ 1..i # {}
        /\ Largest(1..i) = i /\ (1..i) \ {Largest(1..i)} = 1..(i - 1)
    BY FirstElements
  <2>3. it[1..i] = op(it[1..(i - 1)], seq[i])
    BY <1>3, <2>2
  <2> QED
    BY <2>1, <2>3
<1>6. w = [i \in 0..n |-> w[i]]
  OBVIOUS
<1> HIDE DEF w
<1>7. Passes(w, n, base, seq)
  BY <1>2, <1>4, <1>5, <1>6 DEF Passes
<1> QED
  BY <1>7

(* What the operation keeps is true of every state of the loop.            *)
THEOREM FoldLeftRuns ==
    ASSUME NEW base, NEW seq, NEW n \in Nat, DOMAIN seq = 1..n, Good(base), Keeps(n, seq)
    PROVE  \E w : Passes(w, n, base, seq) /\ \A i \in 0..n : Good(w[i])
<1>1. PICK w : Passes(w, n, base, seq)
  BY FoldLeftPasses
<1> DEFINE G == {i \in 0..n : Good(w[i])}
<1>2. 0 \in G
  BY <1>1 DEF Passes
<1>3. ASSUME NEW i \in 1..n, i - 1 \in G PROVE i \in G
  <2>1. i \in 0..n /\ Good(w[i - 1])
    BY <1>3
  <2>2. Good(op(w[i - 1], seq[i]))
    BY <2>1 DEF Keeps
  <2>3. w[i] = op(w[i - 1], seq[i])
    BY <1>1 DEF Passes
  <2> QED
    BY <2>1, <2>2, <2>3
<1>4. \A i \in 0..n : i \in G
  <2> HIDE DEF G
  <2> QED
    BY <1>2, <1>3, Steps
<1> QED
  BY <1>1, <1>4

(* What the operation keeps for each element, the fold keeps.              *)
THEOREM FoldLeftKeeps ==
    ASSUME NEW base, NEW seq, NEW n \in Nat, DOMAIN seq = 1..n, Good(base), Keeps(n, seq)
    PROVE  Good(Fold(base, seq))
<1>1. PICK w : Passes(w, n, base, seq) /\ \A i \in 0..n : Good(w[i])
  BY FoldLeftRuns
<1> QED
  BY <1>1 DEF Passes

-----------------------------------------------------------------------------
(* Folds over a finite set, in the order that CHOOSE gives.                 *)

FoldOver(base, S) ==
    LET iter[s \in SUBSET S] ==
            IF s = {} THEN base
            ELSE LET x == CHOOSE y \in s : TRUE IN op(iter[s \ {x}], x)
    IN  iter[S]

First(s) == CHOOSE y \in s : TRUE

(* The value of it on each of the sets, as far as it is fixed.              *)
FoldsOver(it, sets, base) ==
    \A s \in sets : it[s] = IF s = {} THEN base ELSE op(it[s \ {First(s)}], First(s))

(* The function by which the fold is defined.                               *)
IsFoldOver(it, S, base) ==
    it = [s \in SUBSET S |-> IF s = {} THEN base ELSE op(it[s \ {First(s)}], First(s))]

UpTo(S, k) == {s \in SUBSET S : Cardinality(s) <= k}

(* Taking the first element of a subset makes it smaller.                   *)
LEMMA FirstTaken ==
    ASSUME NEW S, IsFiniteSet(S), NEW s \in SUBSET S, s # {}
    PROVE  /\ First(s) \in s /\ s \ {First(s)} \in SUBSET S
           /\ Cardinality(s) \in Nat \ {0} /\ Cardinality(s \ {First(s)}) = Cardinality(s) - 1
<1>1. First(s) \in s
  BY DEF First
<1>2. IsFiniteSet(s) /\ Cardinality(s) \in Nat
  BY FS_Subset, FS_CardinalityType
<1>3. Cardinality(s) # 0
  BY <1>2, FS_EmptySet
<1>4. Cardinality(s \ {First(s)}) = Cardinality(s) - 1
  BY <1>1, <1>2, FS_RemoveElement
<1> QED
  BY <1>1, <1>2, <1>3, <1>4

(* It exists.                                                               *)
LEMMA FoldsOverExist ==
    ASSUME NEW base, NEW S, IsFiniteSet(S)
    PROVE  \E it : IsFoldOver(it, S, base)
<1> DEFINE n == Cardinality(S)
           G == {k \in 0..n : \E it : FoldsOver(it, UpTo(S, k), base)}
<1>1. n \in Nat
  BY FS_CardinalityType
<1>2. \A s \in SUBSET S : Cardinality(s) \in 0..n /\ (Cardinality(s) = 0 <=> s = {})
  BY <1>1, FS_Subset, FS_CardinalityType, FS_EmptySet
<1>3. 0 \in G
  <2> DEFINE it == [s \in SUBSET S |-> base]
  <2>1. FoldsOver(it, UpTo(S, 0), base)
    BY <1>2 DEF FoldsOver, UpTo
  <2>2. \E x : FoldsOver(x, UpTo(S, 0), base)
    <3> HIDE DEF it
    <3> QED
      BY <2>1
  <2> QED
    BY <1>1, <2>2
<1>4. ASSUME NEW k \in 1..n, k - 1 \in G PROVE k \in G
  <2>1. PICK it : FoldsOver(it, UpTo(S, k - 1), base)
    BY <1>4
  <2> DEFINE v(f, s) == IF s = {} THEN base ELSE op(f[s \ {First(s)}], First(s))
             ju == [s \in SUBSET S |-> IF s \in UpTo(S, k - 1) THEN it[s] ELSE v(it, s)]
  <2>2. \A s \in UpTo(S, k - 1) : it[s] = v(it, s)
    BY <2>1 DEF FoldsOver
  <2>3. \A s \in UpTo(S, k - 1) : ju[s] = it[s]
    BY DEF UpTo
  <2>4. \A s \in SUBSET S : s \notin UpTo(S, k - 1) => ju[s] = v(it, s)
    OBVIOUS
  <2> HIDE DEF ju
  <2>5. ASSUME NEW s \in UpTo(S, k), s # {} PROVE s \ {First(s)} \in UpTo(S, k - 1)
    <3>1. s \in SUBSET S /\ Cardinality(s) <= k
      BY DEF UpTo
    <3>2. /\ s \ {First(s)} \in SUBSET S /\ Cardinality(s) \in Nat
          /\ Cardinality(s \ {First(s)}) = Cardinality(s) - 1
      BY <2>5, <3>1, FirstTaken
    <3> QED
      BY <1>1, <3>1, <3>2 DEF UpTo
  <2>6. ASSUME NEW s \in UpTo(S, k) PROVE ju[s] = v(ju, s)
    <3>1. ju[s] = v(it, s)
      BY <2>2, <2>3, <2>4 DEF UpTo
    <3>2. s # {} => ju[s \ {First(s)}] = it[s \ {First(s)}]
      BY <2>3, <2>5
    <3> QED
      BY <3>1, <3>2
  <2>7. FoldsOver(ju, UpTo(S, k), base)
    BY <2>6 DEF FoldsOver
  <2> QED
    BY <2>7
<1>5. \A k \in 0..n : k \in G
  <2> HIDE DEF G, n
  <2> QED
    BY <1>1, <1>3, <1>4, Steps
<1>6. PICK it : FoldsOver(it, UpTo(S, n), base)
  <2>1. n \in G
    BY <1>1, <1>5
  <2> QED
    BY <2>1
<1>7. UpTo(S, n) = SUBSET S
  BY <1>1, <1>2 DEF UpTo
<1> DEFINE v(f, s) == IF s = {} THEN base ELSE op(f[s \ {First(s)}], First(s))
           ju == [s \in SUBSET S |-> it[s]]
<1>8. \A s \in SUBSET S : it[s] = v(it, s)
  BY <1>6, <1>7 DEF FoldsOver
<1>9. \A s \in SUBSET S : ju[s] = it[s]
  OBVIOUS
<1>10. ju = [s \in SUBSET S |-> ju[s]]
  OBVIOUS
<1> HIDE DEF ju
<1>11. \A s \in SUBSET S : ju[s] = v(ju, s)
  <2> TAKE s \in SUBSET S
  <2>1. s \ {First(s)} \in SUBSET S
    OBVIOUS
  <2> QED
    BY <1>8, <1>9, <2>1
<1>12. [s \in SUBSET S |-> ju[s]] = [s \in SUBSET S |-> v(ju, s)]
  <2> HIDE DEF v
  <2> QED
    BY <1>11
<1>13. IsFoldOver(ju, S, base)
  BY <1>10, <1>12 DEF IsFoldOver
<1> QED
  BY <1>13

(* What the operation keeps for each element, the fold keeps.               *)
THEOREM FoldOverKeeps ==
    ASSUME NEW base, NEW S, IsFiniteSet(S), Good(base),
           \A v : \A x \in S : Good(v) => Good(op(v, x))
    PROVE  Good(FoldOver(base, S))
<1> DEFINE it == CHOOSE x : IsFoldOver(x, S, base)
           n == Cardinality(S)
           G == {k \in 0..n : \A s \in UpTo(S, k) : Good(it[s])}
<1>1. IsFoldOver(it, S, base)
  BY FoldsOverExist
<1>2. FoldOver(base, S) = it[S]
  BY DEF FoldOver, IsFoldOver, First
<1> HIDE DEF it
<1>3. \A s \in SUBSET S : it[s] = IF s = {} THEN base ELSE op(it[s \ {First(s)}], First(s))
  BY <1>1, Zenon DEF IsFoldOver
<1>4. n \in Nat
  BY FS_CardinalityType
<1>5. 0 \in G
  <2>1. \A s \in UpTo(S, 0) : s \in SUBSET S /\ s = {}
    BY FS_Subset, FS_CardinalityType, FS_EmptySet DEF UpTo
  <2> QED
    BY <1>3, <1>4, <2>1
<1>6. ASSUME NEW k \in 1..n, k - 1 \in G PROVE k \in G
  <2>1. ASSUME NEW s \in UpTo(S, k), s # {} PROVE Good(it[s])
    <3>1. s \in SUBSET S /\ Cardinality(s) <= k
      BY DEF UpTo
    <3>2. /\ First(s) \in s /\ s \ {First(s)} \in SUBSET S /\ Cardinality(s) \in Nat
          /\ Cardinality(s \ {First(s)}) = Cardinality(s) - 1
      BY <2>1, <3>1, FirstTaken
    <3>3. s \ {First(s)} \in UpTo(S, k - 1)
      BY <1>4, <3>1, <3>2 DEF UpTo
    <3>4. Good(it[s \ {First(s)}]) /\ First(s) \in S
      <4>1. \A t \in UpTo(S, k - 1) : Good(it[t])
        BY <1>6
      <4> QED
        BY <3>1, <3>2, <3>3, <4>1
    <3>5. Good(op(it[s \ {First(s)}], First(s)))
      BY <3>4
    <3> QED
      BY <1>3, <2>1, <3>1, <3>5
  <2>2. \A s \in UpTo(S, k) : s = {} => Good(it[s])
    BY <1>3 DEF UpTo
  <2> QED
    BY <2>1, <2>2
<1>7. \A k \in 0..n : k \in G
  <2> HIDE DEF G, n
  <2> QED
    BY <1>4, <1>5, <1>6, Steps
<1>8. S \in UpTo(S, n) /\ n \in 0..n
  BY <1>4 DEF UpTo
<1> QED
  BY <1>2, <1>7, <1>8

=============================================================================
