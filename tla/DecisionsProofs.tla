-------------------------- MODULE DecisionsProofs ---------------------------
(***************************************************************************)
(* Proofs about Decisions for every value of its constants: through any    *)
(* sequence of connected and disconnected blocks the tables of the         *)
(* registry agree about which decisions are claimed and which are resolved.*)
(*                                                                         *)
(* None of the three properties is inductive: a disconnect removes claims  *)
(* by the block's transactions, histories by height, outcomes by the undo  *)
(* record and entries by the recorded horizon.  UndoExact is what makes    *)
(* the four agree.                                                         *)
(***************************************************************************)
EXTENDS Decisions, SequenceTheorems, FiniteSetTheorems, TLAPS

(* The facts about numbers, sequences and loops on an interval hold for any *)
(* operation.                                                               *)
Loop == INSTANCE LoopTheorems WITH op <- LAMBDA x, e : x, Good <- LAMBDA x : TRUE

HistEntry == [state : {"Claimed", "Voting", "Resolved"}, height : Nat]

(* Types of the part of the registry the properties are about.             *)
WellTyped ==
    /\ chain \in Seq([ts : Timestamps, claims : SUBSET DecisionIds])
    /\ period_keys \subseteq Periods
    /\ claimed \subseteq DecisionIds
    /\ outcomes \subseteq DecisionIds
    /\ histories \in [DecisionIds -> Seq(HistEntry)]
    /\ \E S : undo \in Seq(S)
    /\ Len(undo) = Len(chain)
    /\ \A i \in 1..Len(undo) : undo[i].highest \in Nat
    /\ genesis_timestamp \in Nat

(* The life-cycle of one decision on a chain of n blocks; the genesis      *)
(* block, at height 0, has no claims.                                      *)
HistoryOK(h, n) ==
    /\ Len(h) =< 3
    /\ Len(h) >= 1 => h[1].state = "Claimed" /\ 1 =< h[1].height /\ h[1].height < n
    /\ Len(h) >= 2 => h[2].state = "Voting" /\ h[1].height =< h[2].height /\ h[2].height < n
    /\ Len(h) >= 3 => h[3].state = "Resolved" /\ h[2].height =< h[3].height /\ h[3].height < n

(* The inductive invariant.                                                *)
IInv ==
    /\ WellTyped
    /\ \A d \in DecisionIds : HistoryOK(histories[d], Len(chain))
    /\ EntryIffHistory
    /\ \A d \in DecisionIds : d \in outcomes <=> Len(histories[d]) = 3
    /\ \A d \in claimed : d.period_index \in period_keys
    /\ UndoExact

-----------------------------------------------------------------------------
(* Maxima of sets of periods.                                              *)

(* get_highest_minted_period returns an upper bound of the minted periods. *)
LEMMA HighestMintedBounds ==
    ASSUME NEW K, K \subseteq Periods
    PROVE  /\ HighestMinted(K) \in Periods
           /\ \A p \in K : p =< HighestMinted(K)
<1>1. MaxPeriod \in Nat
  BY DecisionsAssumption
<1>2. CASE K = {}
  BY <1>1, <1>2 DEF HighestMinted, Periods
<1>3. CASE K # {}
  <2>1. \E x \in K : \A y \in K : y =< x
    BY <1>1, <1>3, Loop!GreatestBelow DEF Periods
  <2> QED
    BY <1>3, <2>1 DEF HighestMinted
<1> QED
  BY <1>2, <1>3

(* Periods are natural numbers.                                            *)
LEMMA CurrentPeriodNat ==
    ASSUME NEW ts \in Nat, NEW height \in Nat, NEW genesis \in Nat
    PROVE  GetCurrentPeriod(ts, height, genesis) \in Nat
<1> Quantity \in Nat \ {0}
  BY DecisionsAssumption
<1>1. height \div Quantity \in Nat
  OBVIOUS
<1>2. ASSUME ts >= genesis PROVE (ts - genesis) \div Quantity \in Nat
  BY <1>2
<1> QED
  BY <1>1, <1>2 DEF GetCurrentPeriod

-----------------------------------------------------------------------------
(* Histories.                                                              *)

(* A history is empty when its length is zero; its heights are naturals.   *)
LEMMA HistoryLength ==
    ASSUME NEW h \in Seq(HistEntry), NEW n \in Nat, HistoryOK(h, n)
    PROVE  /\ Len(h) \in 0..3
           /\ h = <<>> <=> Len(h) = 0
           /\ \A i \in 1..Len(h) : h[i].height \in Nat
<1> DEFINE l == Len(h)
<1>1. l \in Nat
  OBVIOUS
<1>2. l =< 3
  BY Zenon DEF HistoryOK
<1> HIDE DEF l
<1>3. l \in 0..3
  BY <1>1, <1>2
<1>4. Len(h) \in 0..3
  BY <1>3 DEF l
<1>5. h = <<>> <=> Len(h) = 0
  BY EmptySeq
<1>6. \A i \in 1..Len(h) : h[i] \in HistEntry
  OBVIOUS
<1> QED
  BY <1>4, <1>5, <1>6 DEF HistEntry

(* The current state tells how long a well-formed history is.              *)
LEMMA CurrentStateByLength ==
    ASSUME NEW h \in Seq(HistEntry), NEW n \in Nat, HistoryOK(h, n)
    PROVE  /\ CurrentState(h) = "Created" <=> Len(h) = 0
           /\ CurrentState(h) = "Claimed" <=> Len(h) = 1
           /\ CurrentState(h) = "Voting" <=> Len(h) = 2
           /\ CurrentState(h) = "Resolved" <=> Len(h) = 3
<1>1. Len(h) \in 0..3 /\ (h = <<>> <=> Len(h) = 0)
  BY HistoryLength
<1>2. CASE Len(h) = 0
  BY <1>1, <1>2 DEF CurrentState
<1>3. CASE Len(h) = 1
  BY <1>1, <1>3 DEF CurrentState, HistoryOK
<1>4. CASE Len(h) = 2
  BY <1>1, <1>4 DEF CurrentState, HistoryOK
<1>5. CASE Len(h) = 3
  BY <1>1, <1>5 DEF CurrentState, HistoryOK
<1> QED
  BY <1>1, <1>2, <1>3, <1>4, <1>5

(* Rolling a well-formed history back to a height keeps exactly its        *)
(* entries at or below that height.                                        *)
LEMMA RollbackPrefix ==
    ASSUME NEW h \in Seq(HistEntry), NEW n \in Nat, HistoryOK(h, n), NEW m \in Nat,
           NEW r, r = RollbackToHeight(h, m)
    PROVE  /\ r \in Seq(HistEntry)
           /\ Len(r) =< Len(h)
           /\ \A i \in 1..Len(r) : r[i] = h[i]
           /\ \A i \in 1..Len(h) : i =< Len(r) <=> h[i].height =< m
<1> DEFINE Cut(k) == \A i \in 1..Len(h) : i =< k <=> h[i].height =< m
<1>1. Len(h) \in 0..3 /\ \A i \in 1..Len(h) : h[i].height \in Nat
  BY HistoryLength
<1>2. \E k \in 0..Len(h) : Cut(k)
  <2>1. CASE Len(h) = 0
    <3>1. Cut(0)
      BY <2>1
    <3> QED
      BY <2>1, <3>1
  <2>2. CASE Len(h) = 1
    <3>1. Cut(0) \/ Cut(1)
      BY <2>2, <1>1
    <3> QED
      BY <2>2, <3>1
  <2>3. CASE Len(h) = 2
    <3>1. Cut(0) \/ Cut(1) \/ Cut(2)
      BY <2>3, <1>1 DEF HistoryOK
    <3> QED
      BY <2>3, <3>1
  <2>4. CASE Len(h) = 3
    <3>1. Cut(0) \/ Cut(1) \/ Cut(2) \/ Cut(3)
      BY <2>4, <1>1 DEF HistoryOK
    <3> QED
      BY <2>4, <3>1
  <2> QED
    BY <1>1, <2>1, <2>2, <2>3, <2>4
<1> DEFINE k == CHOOSE k \in 0..Len(h) : Cut(k)
<1>3. k \in 0..Len(h) /\ Cut(k)
  BY <1>2
<1>4. RollbackToHeight(h, m) = SubSeq(h, 1, k)
  BY DEF RollbackToHeight
<1> HIDE DEF k
<1>5. /\ SubSeq(h, 1, k) \in Seq(HistEntry)
      /\ Len(SubSeq(h, 1, k)) = k
      /\ \A i \in 1..k : SubSeq(h, 1, k)[i] = h[i]
  BY <1>1, <1>3
<1> QED
  BY <1>1, <1>3, <1>4, <1>5

(* A claimed decision that opens for voting in the block at height n keeps *)
(* a well-formed history.                                                  *)
LEMMA AppendVoting ==
    ASSUME NEW h \in Seq(HistEntry), NEW n \in Nat, HistoryOK(h, n + 1), Len(h) = 1,
           NEW e \in HistEntry, e.state = "Voting", e.height = n,
           NEW g, g = Append(h, e)
    PROVE  /\ g \in Seq(HistEntry)
           /\ HistoryOK(g, n + 1)
           /\ Len(g) = 2
           /\ g[1] = h[1]
           /\ g[2].height = n
<1>1. \A i \in 1..Len(h) : h[i].height \in Nat
  BY HistoryLength
<1>2. /\ g \in Seq(HistEntry)
      /\ Len(g) = Len(h) + 1
      /\ \A i \in 1..Len(h) : g[i] = h[i]
      /\ g[Len(h) + 1] = e
  BY Loop!AppendFacts
<1>3. HistoryOK(g, n + 1)
  BY <1>1, <1>2 DEF HistoryOK
<1> QED
  BY <1>2, <1>3

(* So does one that is resolved there.                                     *)
LEMMA AppendResolved ==
    ASSUME NEW h \in Seq(HistEntry), NEW n \in Nat, HistoryOK(h, n + 1), Len(h) = 2,
           NEW e \in HistEntry, e.state = "Resolved", e.height = n,
           NEW g, g = Append(h, e)
    PROVE  /\ g \in Seq(HistEntry)
           /\ HistoryOK(g, n + 1)
           /\ Len(g) = 3
           /\ g[1] = h[1]
           /\ g[3].height = n
<1>1. \A i \in 1..Len(h) : h[i].height \in Nat
  BY HistoryLength
<1>2. /\ g \in Seq(HistEntry)
      /\ Len(g) = Len(h) + 1
      /\ \A i \in 1..Len(h) : g[i] = h[i]
      /\ g[Len(h) + 1] = e
  BY Loop!AppendFacts
<1>3. HistoryOK(g, n + 1)
  BY <1>1, <1>2 DEF HistoryOK
<1> QED
  BY <1>2, <1>3

(* What connecting a block at height n does to the history h of decision d:*)
(* g is the history afterwards.                                            *)
Advanced(h, g, n, isClaimed, isResolved) ==
    /\ g \in Seq(HistEntry)
    /\ HistoryOK(g, n + 1)
    /\ h # <<>> => g # <<>> /\ g[1] = h[1]
    /\ h = <<>> /\ isClaimed => g # <<>> /\ g[1].height = n
    /\ h = <<>> /\ ~isClaimed => g = <<>>
    /\ Len(h) = 3 => g = h /\ ~isResolved
    /\ Len(g) = 3 <=> Len(h) = 3 \/ isResolved
    /\ isResolved => g[3].height = n

(* connect_prevalidated advances every history as Advanced says.           *)
LEMMA ConnectAdvances ==
    ASSUME NEW hist \in [DecisionIds -> Seq(HistEntry)], NEW n \in Nat,
           NEW claims \in SUBSET DecisionIds, NEW current, NEW stored,
           \A x \in DecisionIds : HistoryOK(hist[x], n),
           \A x \in claims : hist[x] = <<>> /\ n > 0,
           NEW opened, opened = TransitionToVoting(hist, current, n),
           NEW entered, entered = ClaimHistories(opened, claims, n),
           NEW resolved, resolved = Resolvable(entered, stored, current),
           NEW d \in DecisionIds
    PROVE  Advanced(hist[d], TransitionToResolved(entered, resolved, n)[d], n,
                    d \in claims, d \in resolved)
<1> DEFINE h == hist[d]
           o == opened[d]
           f == entered[d]
           g == TransitionToResolved(entered, resolved, n)[d]
           v == Entry("Voting", n)
           w == Entry("Resolved", n)
<1>1. /\ h \in Seq(HistEntry) /\ HistoryOK(h, n)
      /\ Len(h) \in 0..3 /\ (h = <<>> <=> Len(h) = 0)
      /\ \A i \in 1..Len(h) : h[i].height \in Nat
  BY HistoryLength
<1>2. /\ o = IF CurrentState(h) = "Claimed" /\ current > d.period_index
             THEN Append(h, v) ELSE h
      /\ f = IF d \in claims THEN <<Entry("Claimed", n)>> ELSE o
      /\ g = IF d \in resolved THEN Append(f, w) ELSE f
      /\ d \in resolved => CurrentState(f) = "Voting"
  BY DEF TransitionToVoting, ClaimHistories, TransitionToResolved, Resolvable,
         NeedingResolution
<1>3. HistoryOK(h, n + 1)
  BY <1>1 DEF HistoryOK
<1>11. v \in HistEntry /\ v.state = "Voting" /\ v.height = n
  BY DEF Entry, HistEntry
<1>12. w \in HistEntry /\ w.state = "Resolved" /\ w.height = n
  BY DEF Entry, HistEntry
<1> HIDE DEF h, o, f, g, v, w
<1>4. /\ o \in Seq(HistEntry) /\ HistoryOK(o, n + 1)
      /\ Len(h) = 0 => o = h
      /\ Len(h) # 0 => Len(o) # 0 /\ o[1] = h[1]
      /\ Len(h) = 3 => o = h
      /\ Len(o) = 3 => Len(h) = 3
  <2>1. CASE CurrentState(h) = "Claimed" /\ current > d.period_index
    <3>1. Len(h) = 1
      BY <1>1, <2>1, CurrentStateByLength
    <3>2. o = Append(h, v)
      BY <1>2, <2>1
    <3>3. o \in Seq(HistEntry)
      BY <1>1, <1>3, <1>11, <3>1, <3>2, AppendVoting
    <3>4. HistoryOK(o, n + 1)
      BY <1>1, <1>3, <1>11, <3>1, <3>2, AppendVoting
    <3>5. Len(o) = 2
      <4>1. Len(o) = Len(h) + 1
        BY <1>1, <1>11, <3>2, Loop!AppendFacts
      <4> QED
        BY <3>1, <4>1
    <3>6. o[1] = h[1]
      BY <1>1, <1>3, <1>11, <3>1, <3>2, AppendVoting
    <3> QED
      BY <3>1, <3>3, <3>4, <3>5, <3>6
  <2>2. CASE ~(CurrentState(h) = "Claimed" /\ current > d.period_index)
    BY <1>1, <1>2, <1>3, <2>2
  <2> QED
    BY <2>1, <2>2
<1>5. Len(o) \in 0..3 /\ (o = <<>> <=> Len(o) = 0)
  BY <1>4, HistoryLength
<1>6. /\ f \in Seq(HistEntry) /\ HistoryOK(f, n + 1)
      /\ Len(h) # 0 => d \notin claims /\ Len(f) # 0 /\ f[1] = h[1]
      /\ Len(h) = 0 /\ d \in claims => Len(f) = 1 /\ f[1].height = n
      /\ Len(h) = 0 /\ d \notin claims => f = <<>>
      /\ Len(h) = 3 => f = h /\ Len(f) = 3
      /\ Len(f) = 3 => Len(h) = 3
  <2>1. CASE d \in claims
    <3>1. h = <<>> /\ n > 0
      BY <2>1 DEF h
    <3> DEFINE e == Entry("Claimed", n)
    <3>2. e \in HistEntry /\ e.state = "Claimed" /\ e.height = n
      BY DEF Entry, HistEntry
    <3>3. f = <<e>>
      BY <1>2, <2>1
    <3> HIDE DEF e
    <3>4. f \in Seq(HistEntry) /\ Len(f) = 1 /\ f[1] = e
      BY <3>2, <3>3
    <3>5. HistoryOK(f, n + 1)
      BY <3>1, <3>2, <3>4 DEF HistoryOK
    <3> QED
      BY <1>1, <2>1, <3>1, <3>2, <3>4, <3>5
  <2>2. CASE d \notin claims
    <3>1. f = o
      BY <1>2, <2>2
    <3> QED
      BY <1>1, <1>4, <1>5, <2>2, <3>1
  <2> QED
    BY <2>1, <2>2
<1>7. Len(f) \in 0..3 /\ (f = <<>> <=> Len(f) = 0)
  BY <1>6, HistoryLength
<1>8. ASSUME d \in resolved
      PROVE  Advanced(h, g, n, d \in claims, d \in resolved)
  <2>1. Len(f) = 2
    <3>1. n + 1 \in Nat /\ CurrentState(f) = "Voting"
      BY <1>2, <1>8
    <3> QED
      BY <1>6, <3>1, CurrentStateByLength
  <2>2. g = Append(f, w)
    BY <1>2, <1>8
  <2>3. /\ g \in Seq(HistEntry) /\ HistoryOK(g, n + 1)
        /\ Len(g) = 3 /\ g[1] = f[1] /\ g[3].height = n
    <3>1. g \in Seq(HistEntry)
      BY <1>6, <1>12, <2>1, <2>2, AppendResolved
    <3>2. HistoryOK(g, n + 1)
      BY <1>6, <1>12, <2>1, <2>2, AppendResolved
    <3>6. Len(g) = Len(f) + 1 /\ g[Len(f) + 1] = w
      BY <1>6, <1>12, <2>2, Loop!AppendFacts
    <3>3. Len(g) = 3
      BY <2>1, <3>6
    <3>4. g[1] = f[1]
      BY <1>6, <1>12, <2>1, <2>2, AppendResolved
    <3>5. g[3].height = n
      BY <1>12, <2>1, <3>6
    <3> QED
      BY <3>1, <3>2, <3>3, <3>4, <3>5
  <2>4. g # <<>> /\ Len(h) # 0 /\ Len(h) # 3
    <3>1. g # <<>>
      <4>1. g \in Seq(HistEntry) /\ Len(g) # 0
        BY <2>3
      <4> QED
        BY <4>1, EmptySeq
    <3>2. Len(h) # 0
      BY <1>6, <1>7, <2>1
    <3>3. Len(h) # 3
      BY <1>6, <2>1
    <3> QED
      BY <3>1, <3>2, <3>3
  <2> QED
    BY <1>1, <1>6, <1>8, <2>3, <2>4 DEF Advanced
<1>9. ASSUME d \notin resolved
      PROVE  Advanced(h, g, n, d \in claims, d \in resolved)
  <2>1. g = f
    BY <1>2, <1>9
  <2> QED
    BY <1>1, <1>6, <1>7, <1>9, <2>1 DEF Advanced
<1>10. Advanced(h, g, n, d \in claims, d \in resolved)
  BY <1>8, <1>9
<1> QED
  BY <1>10 DEF h, g

-----------------------------------------------------------------------------
(* The invariant holds initially and is preserved by each action.          *)

(* An empty registry satisfies it.                                         *)
LEMMA InitIInv == Init => IInv
<1> SUFFICES ASSUME Init PROVE IInv
  OBVIOUS
<1>1. WellTyped
  BY DEF Init, WellTyped, Periods
<1>2. \A d \in DecisionIds : histories[d] = <<>> /\ Len(histories[d]) = 0
  BY DEF Init
<1>3. \A d \in DecisionIds : HistoryOK(histories[d], Len(chain))
  BY <1>2 DEF HistoryOK
<1>4. EntryIffHistory
  BY <1>2 DEF Init, EntryIffHistory
<1>5. \A d \in DecisionIds : d \in outcomes <=> Len(histories[d]) = 3
  BY <1>2 DEF Init
<1>6. UndoExact
  BY DEF Init, UndoExact
<1> QED
  BY <1>1, <1>3, <1>4, <1>5, <1>6 DEF Init, IInv

(* Connecting a block preserves it.                                        *)
LEMMA ConnectIInv ==
    ASSUME IInv, NEW ts \in Timestamps, NEW claims \in SUBSET DecisionIds,
           ConnectBlock(ts, claims)
    PROVE  IInv'
<1> DEFINE n        == Len(chain)
           genesis  == IF n = 0 THEN ts ELSE genesis_timestamp
           current  == GetCurrentPeriod(ts, n, genesis)
           target   == current + FuturePeriods - 1
           opened   == TransitionToVoting(histories, current, n)
           entered  == ClaimHistories(opened, claims, n)
           keys     == period_keys \cup {d.period_index : d \in claims}
           resolved == Resolvable(entered, outcomes, current)
           block    == [ts |-> ts, claims |-> claims]
           record   == [highest |-> HighestMinted(period_keys),
                        pricing |-> period_pricing, resolved |-> resolved]
<1>1. /\ target =< MaxPeriod
      /\ n = 0 => claims = {}
      /\ \A d \in claims : ValidClaim(d)
      /\ chain' = Append(chain, block)
      /\ undo' = Append(undo, record)
      /\ claimed' = claimed \cup claims
      /\ period_keys' = MintPeriodsUpTo(keys, target)
      /\ histories' = TransitionToResolved(entered, resolved, n)
      /\ outcomes' = outcomes \cup resolved
  BY DEF ConnectBlock
<1>2. \A d \in claims : d \notin claimed
  BY <1>1 DEF ValidClaim, ClaimValidIn
<1>3. n \in Nat /\ histories \in [DecisionIds -> Seq(HistEntry)]
  BY DEF IInv, WellTyped
<1>4. resolved \subseteq DecisionIds
  BY DEF Resolvable, NeedingResolution
<1>5. record.highest = HighestMinted(period_keys) /\ record.resolved = resolved
  OBVIOUS
<1>6. block \in [ts : Timestamps, claims : SUBSET DecisionIds] /\ block.claims = claims
  OBVIOUS
<1>7. \A d \in DecisionIds :
         Advanced(histories[d], histories'[d], n, d \in claims, d \in resolved)
  <2>1. \A x \in claims : histories[x] = <<>> /\ n > 0
    BY <1>1, <1>2, <1>3 DEF IInv, EntryIffHistory
  <2>2. \A x \in DecisionIds : HistoryOK(histories[x], n)
    BY DEF IInv
  <2> HIDE DEF opened, entered, resolved, n
  <2> SUFFICES ASSUME NEW d \in DecisionIds
               PROVE  Advanced(histories[d], TransitionToResolved(entered, resolved, n)[d], n,
                               d \in claims, d \in resolved)
    BY <1>1
  <2>3. opened = TransitionToVoting(histories, current, n)
    BY DEF opened
  <2>4. entered = ClaimHistories(opened, claims, n)
    BY DEF entered
  <2>5. resolved = Resolvable(entered, outcomes, current)
    BY DEF resolved
  <2> HIDE DEF current
  <2> QED
    BY <1>3, <2>1, <2>2, <2>3, <2>4, <2>5, ConnectAdvances
<1> HIDE DEF current, target, opened, entered, resolved, keys, block, record
<1>8. /\ chain' \in Seq([ts : Timestamps, claims : SUBSET DecisionIds])
      /\ Len(chain') = n + 1
      /\ \A i \in 1..n : chain'[i] = chain[i]
      /\ chain'[n + 1] = block
  BY <1>1, <1>6, Loop!AppendFacts DEF IInv, WellTyped
<1>9. /\ \E S : undo' \in Seq(S)
      /\ Len(undo') = n + 1
      /\ \A i \in 1..n : undo'[i] = undo[i]
      /\ undo'[n + 1] = record
  <2>1. PICK S : undo \in Seq(S)
    BY DEF IInv, WellTyped
  <2> DEFINE R == S \cup {record}
  <2>2. undo \in Seq(R) /\ record \in R
    BY <2>1
  <2>3. Len(undo) = n
    BY DEF IInv, WellTyped
  <2> HIDE DEF R, n
  <2>4. /\ undo' \in Seq(R)
        /\ Len(undo') = Len(undo) + 1
        /\ \A i \in 1..Len(undo) : undo'[i] = undo[i]
        /\ undo'[Len(undo) + 1] = record
    BY <1>1, <2>2, Loop!AppendFacts
  <2> QED
    BY <2>3, <2>4
<1> HIDE DEF n
<1>10. period_keys \subseteq Periods /\ keys \subseteq Periods
  BY DecisionsAssumption DEF IInv, WellTyped, keys
<1>11. /\ HighestMinted(period_keys) \in Nat
       /\ \A p \in period_keys : p =< HighestMinted(period_keys)
  <2>1. HighestMinted(period_keys) \in Periods
    BY <1>10, HighestMintedBounds
  <2>2. HighestMinted(period_keys) \in Nat
    BY <2>1, DecisionsAssumption DEF Periods
  <2>3. \A p \in period_keys : p =< HighestMinted(period_keys)
    BY <1>10, HighestMintedBounds
  <2> QED
    BY <2>2, <2>3
<1>12. genesis \in Nat
  BY DecisionsAssumption DEF IInv, WellTyped
<1>13. target \in Int
  <2>1. current \in Nat
    BY <1>3, <1>12, CurrentPeriodNat, DecisionsAssumption DEF current
  <2> QED
    BY <2>1, DecisionsAssumption DEF target
<1>14. keys \subseteq period_keys' /\ period_keys' \subseteq Periods
  <2>1. HighestMinted(keys) \in Periods
    BY <1>10, HighestMintedBounds
  <2>2. period_keys' = keys \cup ((HighestMinted(keys) + 1)..target)
    BY <1>1 DEF MintPeriodsUpTo
  <2>3. (HighestMinted(keys) + 1)..target \subseteq Periods
    BY <1>1, <1>13, <2>1, DecisionsAssumption DEF Periods
  <2> QED
    BY <1>10, <2>2, <2>3
<1>15. genesis_timestamp' \in Nat
  BY <1>12 DEF ConnectBlock, n
<1>16. histories' \in [DecisionIds -> Seq(HistEntry)]
  <2>1. histories' = [d \in DecisionIds |-> histories'[d]]
    BY <1>1 DEF TransitionToResolved
  <2> QED
    BY <1>7, <2>1 DEF Advanced
<1>17. WellTyped'
  <2>1. \A i \in 1..Len(undo') : undo'[i].highest \in Nat
    BY SMTT(30), <1>3, <1>5, <1>9, <1>11 DEF IInv, WellTyped, n
  <2>2. claimed' \subseteq DecisionIds /\ outcomes' \subseteq DecisionIds
    BY <1>1, <1>4 DEF IInv, WellTyped
  <2> QED
    BY <1>8, <1>9, <1>14, <1>15, <1>16, <2>1, <2>2 DEF WellTyped
<1>18. \A d \in DecisionIds : HistoryOK(histories'[d], Len(chain'))
  BY <1>7, <1>8 DEF Advanced
<1>19. EntryIffHistory'
  BY <1>1, <1>7 DEF IInv, EntryIffHistory, Advanced
<1>20. \A d \in DecisionIds : d \in outcomes' <=> Len(histories'[d]) = 3
  BY <1>1, <1>7 DEF IInv, Advanced
<1>21. \A d \in claimed' : d.period_index \in period_keys'
  BY <1>1, <1>14 DEF IInv, keys
<1>22. UndoExact'
  <2>1. \A d \in DecisionIds : HistoryOK(histories[d], n)
    BY DEF IInv, n
  <2>2. \A d \in DecisionIds :
           /\ histories[d] # <<>> =>
                 /\ d \in claimed /\ d \notin claims
                 /\ histories[d][1].height \in Nat /\ histories[d][1].height < n
                 /\ histories'[d] # <<>> /\ histories'[d][1] = histories[d][1]
           /\ histories[d] = <<>> /\ d \in claims =>
                 histories'[d] # <<>> /\ histories'[d][1].height = n
           /\ histories[d] = <<>> /\ d \notin claims => histories'[d] = <<>>
    <3> SUFFICES ASSUME NEW d \in DecisionIds, histories[d] # <<>>
                 PROVE  /\ d \in claimed /\ d \notin claims
                        /\ histories[d][1].height \in Nat /\ histories[d][1].height < n
      BY <1>7 DEF Advanced
    <3>1. d \in claimed /\ d \notin claims
      BY <1>2 DEF IInv, EntryIffHistory
    <3>2. /\ Len(histories[d]) \in 0..3 /\ Len(histories[d]) # 0
          /\ \A i \in 1..Len(histories[d]) : histories[d][i].height \in Nat
      BY <1>3, <2>1, HistoryLength
    <3>3. Len(histories[d]) >= 1
      BY <3>2
    <3>4. histories[d][1].height < n
      BY <2>1, <3>3 DEF HistoryOK
    <3> QED
      BY <3>1, <3>2, <3>3, <3>4
  <2>3. \A d \in DecisionIds :
           /\ Len(histories[d]) = 3 =>
                 /\ d \notin resolved
                 /\ histories[d][3].height \in Nat /\ histories[d][3].height < n
                 /\ Len(histories'[d]) = 3 /\ histories'[d][3] = histories[d][3]
           /\ d \in resolved => Len(histories'[d]) = 3 /\ histories'[d][3].height = n
           /\ Len(histories'[d]) = 3 => Len(histories[d]) = 3 \/ d \in resolved
    <3> SUFFICES ASSUME NEW d \in DecisionIds, Len(histories[d]) = 3
                 PROVE  histories[d][3].height \in Nat /\ histories[d][3].height < n
      BY <1>7 DEF Advanced
    <3>1. \A i \in 1..Len(histories[d]) : histories[d][i].height \in Nat
      BY <1>3, <2>1, HistoryLength
    <3>2. 3 \in 1..Len(histories[d])
      OBVIOUS
    <3>3. histories[d][3].height < n
      BY <2>1 DEF HistoryOK
    <3> QED
      BY <3>1, <3>2, <3>3
  <2> SUFFICES ASSUME NEW i \in 1..(n + 1)
               PROVE  /\ chain'[i].claims = {d \in DecisionIds :
                            histories'[d] # <<>> /\ histories'[d][1].height = i - 1}
                      /\ undo'[i].resolved = {d \in DecisionIds :
                            Len(histories'[d]) = 3 /\ histories'[d][3].height = i - 1}
                      /\ \A d \in DecisionIds :
                            histories'[d] # <<>> /\ histories'[d][1].height < i - 1
                              => d.period_index =< undo'[i].highest
    BY <1>8 DEF UndoExact
  <2>4. CASE i \in 1..n
    <3>1. /\ chain'[i] = chain[i] /\ undo'[i] = undo[i]
          /\ i - 1 \in Nat /\ i - 1 < n
      BY <1>3, <1>8, <1>9, <2>4
    <3>2. /\ chain[i].claims = {d \in DecisionIds :
                histories[d] # <<>> /\ histories[d][1].height = i - 1}
          /\ undo[i].resolved = {d \in DecisionIds :
                Len(histories[d]) = 3 /\ histories[d][3].height = i - 1}
          /\ \A d \in DecisionIds :
                histories[d] # <<>> /\ histories[d][1].height < i - 1
                  => d.period_index =< undo[i].highest
      BY <2>4 DEF IInv, UndoExact, n
    <3>3. {d \in DecisionIds : histories[d] # <<>> /\ histories[d][1].height = i - 1}
            = {d \in DecisionIds : histories'[d] # <<>> /\ histories'[d][1].height = i - 1}
      BY <1>3, <2>2, <3>1
    <3>4. {d \in DecisionIds : Len(histories[d]) = 3 /\ histories[d][3].height = i - 1}
            = {d \in DecisionIds : Len(histories'[d]) = 3 /\ histories'[d][3].height = i - 1}
      BY <1>3, <2>3, <3>1
    <3>5. \A d \in DecisionIds : histories'[d] # <<>> /\ histories'[d][1].height < i - 1
             => histories[d] # <<>> /\ histories[d][1].height < i - 1
      BY <1>3, <2>2, <3>1
    <3> QED
      BY <3>1, <3>2, <3>3, <3>4, <3>5
  <2>5. CASE i = n + 1
    <3>1. chain'[i].claims = claims /\ undo'[i].resolved = resolved
      BY <1>5, <1>6, <1>8, <1>9, <2>5
    <3>2. i - 1 = n
      BY <1>3, <2>5
    <3>3. claims = {d \in DecisionIds : histories'[d] # <<>> /\ histories'[d][1].height = n}
      BY <1>3, <2>2
    <3>4. resolved = {d \in DecisionIds : Len(histories'[d]) = 3 /\ histories'[d][3].height = n}
      BY <1>3, <1>4, <2>3
    <3>5. ASSUME NEW d \in DecisionIds, histories'[d] # <<>>, histories'[d][1].height < n
          PROVE  d.period_index =< undo'[i].highest
      <4>1. d \in claimed
        BY <1>3, <2>2, <3>5
      <4> QED
        BY <1>5, <1>9, <1>11, <2>5, <4>1 DEF IInv
    <3> QED
      BY <3>1, <3>2, <3>3, <3>4, <3>5
  <2> QED
    BY <1>3, <2>4, <2>5
<1> QED
  BY <1>17, <1>18, <1>19, <1>20, <1>21, <1>22 DEF IInv

(* What disconnecting the block at height t does to a history h: r is the  *)
(* history afterwards.                                                     *)
Retreated(h, r, t) ==
    /\ r \in Seq(HistEntry)
    /\ HistoryOK(r, t)
    /\ r # <<>> <=> h # <<>> /\ h[1].height # t
    /\ r # <<>> => r[1] = h[1]
    /\ Len(r) = 3 <=> Len(h) = 3 /\ h[3].height # t
    /\ Len(r) = 3 => r[3] = h[3]

(* rollback_decision_states_to_height retreats a history by one block.     *)
LEMMA RollbackRetreats ==
    ASSUME NEW h \in Seq(HistEntry), NEW m \in Nat, HistoryOK(h, m + 2),
           NEW r, r = RollbackToHeight(h, m)
    PROVE  Retreated(h, r, m + 1)
<1> m + 2 \in Nat
  OBVIOUS
<1>1. Len(h) \in 0..3
  BY HistoryLength
<1>2. h = <<>> <=> Len(h) = 0
  BY HistoryLength
<1>3. \A i \in 1..Len(h) : h[i].height \in Nat
  BY HistoryLength
<1>4. r \in Seq(HistEntry)
  BY RollbackPrefix
<1>5. Len(r) =< Len(h)
  BY RollbackPrefix
<1>6. \A i \in 1..Len(r) : r[i] = h[i]
  BY RollbackPrefix
<1>7. \A i \in 1..Len(h) : i =< Len(r) <=> h[i].height =< m
  BY RollbackPrefix
<1>8. Len(r) \in Nat /\ (r = <<>> <=> Len(r) = 0)
  BY <1>4, EmptySeq
<1>9. HistoryOK(r, m + 1)
  BY SMTT(30), <1>1, <1>3, <1>5, <1>6, <1>7, <1>8 DEF HistoryOK
<1>10. \A i \in 1..Len(h) : h[i].height < m + 2
  BY <1>1, <1>3 DEF HistoryOK
<1>11. \A i \in 1..Len(h) : i =< Len(r) <=> h[i].height # m + 1
  BY <1>3, <1>7, <1>10
<1>12. r # <<>> <=> h # <<>> /\ h[1].height # m + 1
  BY <1>1, <1>2, <1>5, <1>8, <1>11
<1>13. r # <<>> => r[1] = h[1]
  BY <1>6, <1>8
<1>14. Len(r) = 3 <=> Len(h) = 3 /\ h[3].height # m + 1
  <2> DEFINE k == Len(r)
             l == Len(h)
  <2>1. k \in Nat /\ l \in 0..3 /\ k =< l
    BY <1>1, <1>5, <1>8
  <2>2. \A i \in 1..l : i =< k <=> h[i].height # m + 1
    BY <1>11
  <2> HIDE DEF k, l
  <2>3. k = 3 <=> l = 3 /\ h[3].height # m + 1
    BY <2>1, <2>2
  <2> QED
    BY <2>3 DEF k, l
<1>15. Len(r) = 3 => r[3] = h[3]
  BY <1>6
<1> QED
  BY <1>4, <1>9, <1>12, <1>13, <1>14, <1>15 DEF Retreated

(* Disconnecting the tip preserves the invariant.                          *)
LEMMA DisconnectIInv ==
    ASSUME IInv, DisconnectTip
    PROVE  IInv'
<1> DEFINE n         == Len(chain)
           t         == n - 1
           block     == chain[n]
           record    == undo[n]
           remaining == claimed \ block.claims
<1>1. /\ n \in Nat \ {0} /\ t \in Nat /\ n = t + 1 /\ Len(undo) = n
      /\ histories \in [DecisionIds -> Seq(HistEntry)]
      /\ record.highest \in Nat
  <2>1. chain # <<>> /\ chain \in Seq([ts : Timestamps, claims : SUBSET DecisionIds])
    BY DEF IInv, WellTyped, DisconnectTip
  <2>2. n \in Nat \ {0}
    BY <2>1, EmptySeq
  <2> QED
    BY <2>2 DEF IInv, WellTyped
<1>2. /\ chain' = SubSeq(chain, 1, t)
      /\ undo' = SubSeq(undo, 1, t)
      /\ outcomes' = outcomes \ record.resolved
      /\ claimed' = {d \in remaining : d.period_index =< record.highest}
      /\ period_keys' = {p \in RevertClaims(period_keys, block.claims, remaining) :
                            p =< record.highest}
      /\ histories' = IF t = 0 THEN histories
                      ELSE [d \in DecisionIds |-> RollbackToHeight(histories[d], t - 1)]
      /\ genesis_timestamp' = genesis_timestamp
  BY <1>1 DEF DisconnectTip
<1>3. \A d \in DecisionIds : Retreated(histories[d], histories'[d], t)
  <2> SUFFICES ASSUME NEW d \in DecisionIds
               PROVE  Retreated(histories[d], histories'[d], t)
    OBVIOUS
  <2>1. histories[d] \in Seq(HistEntry) /\ HistoryOK(histories[d], n)
    BY <1>1 DEF IInv
  <2>2. CASE t = 0
    <3>1. histories'[d] = histories[d]
      BY <1>2, <2>2
    <3>2. n = 1
      BY <1>1, <2>2
    <3> HIDE DEF n, t
    <3>3. Len(histories[d]) \in 0..3 /\ (histories[d] = <<>> <=> Len(histories[d]) = 0)
      BY <1>1, <2>1, HistoryLength
    <3>4. \A i \in 1..Len(histories[d]) : histories[d][i].height \in Nat
      BY <1>1, <2>1, HistoryLength
    <3>5. Len(histories[d]) = 0
      BY <2>1, <3>2, <3>3, <3>4 DEF HistoryOK
    <3> QED
      BY <2>1, <2>2, <3>1, <3>3, <3>5 DEF Retreated, HistoryOK
  <2>3. CASE t # 0
    <3> DEFINE m == t - 1
    <3>1. m \in Nat /\ m + 2 = n /\ m + 1 = t
      BY <1>1, <2>3
    <3>2. histories'[d] = RollbackToHeight(histories[d], m)
      BY <1>2, <2>3
    <3> HIDE DEF m, n, t
    <3>3. HistoryOK(histories[d], m + 2)
      BY <2>1, <3>1
    <3>4. Retreated(histories[d], histories'[d], m + 1)
      BY <2>1, <3>1, <3>2, <3>3, RollbackRetreats
    <3> QED
      BY <3>1, <3>4
  <2> QED
    BY <2>2, <2>3
<1>4. /\ chain' \in Seq([ts : Timestamps, claims : SUBSET DecisionIds])
      /\ Len(chain') = t
      /\ \A i \in 1..t : chain'[i] = chain[i]
  <2> DEFINE Block == [ts : Timestamps, claims : SUBSET DecisionIds]
  <2>1. chain \in Seq(Block) /\ t \in 0..Len(chain)
    BY <1>1 DEF IInv, WellTyped
  <2> HIDE DEF Block, t
  <2>2. chain' \in Seq(Block)
    BY <1>2, <2>1, Loop!PrefixFacts
  <2>3. Len(chain') = t
    BY <1>2, <2>1, Loop!PrefixFacts
  <2>4. \A i \in 1..t : chain'[i] = chain[i]
    BY <1>2, <2>1, Loop!PrefixFacts
  <2> QED
    BY <2>2, <2>3, <2>4 DEF Block
<1>5. /\ \E S : undo' \in Seq(S)
      /\ Len(undo') = t
      /\ \A i \in 1..t : undo'[i] = undo[i]
  <2>1. PICK S : undo \in Seq(S)
    BY DEF IInv, WellTyped
  <2>2. t \in 0..Len(undo)
    BY <1>1
  <2> HIDE DEF t
  <2>3. undo' \in Seq(S)
    BY <1>2, <2>1, <2>2, Loop!PrefixFacts
  <2>4. Len(undo') = t
    BY <1>2, <2>1, <2>2, Loop!PrefixFacts
  <2>5. \A i \in 1..t : undo'[i] = undo[i]
    BY <1>2, <2>1, <2>2, Loop!PrefixFacts
  <2> QED
    BY <2>3, <2>4, <2>5
<1>6. /\ block.claims = {d \in DecisionIds : histories[d] # <<>> /\ histories[d][1].height = t}
      /\ record.resolved = {d \in DecisionIds : Len(histories[d]) = 3 /\ histories[d][3].height = t}
      /\ \A d \in DecisionIds : histories[d] # <<>> /\ histories[d][1].height < t
            => d.period_index =< record.highest
  <2>1. n \in 1..Len(chain)
    BY <1>1
  <2> QED
    BY <2>1 DEF IInv, UndoExact
<1>7. \A d \in DecisionIds : histories[d] # <<>> =>
         histories[d][1].height \in Nat /\ histories[d][1].height < n
  <2> SUFFICES ASSUME NEW d \in DecisionIds, histories[d] # <<>>
               PROVE  histories[d][1].height \in Nat /\ histories[d][1].height < n
    OBVIOUS
  <2>1. histories[d] \in Seq(HistEntry) /\ HistoryOK(histories[d], n)
    BY <1>1 DEF IInv
  <2> HIDE DEF n, t
  <2>2. Len(histories[d]) \in 0..3 /\ Len(histories[d]) # 0
    BY <1>1, <2>1, HistoryLength
  <2>3. \A i \in 1..Len(histories[d]) : histories[d][i].height \in Nat
    BY <1>1, <2>1, HistoryLength
  <2>4. Len(histories[d]) >= 1
    BY <2>2
  <2> QED
    BY <2>1, <2>3, <2>4 DEF HistoryOK
<1> HIDE DEF n, t, block, record, remaining
<1>8. claimed' = remaining
  <2> SUFFICES ASSUME NEW d \in remaining PROVE d.period_index =< record.highest
    BY <1>2
  <2>1. d \in DecisionIds /\ histories[d] # <<>> /\ histories[d][1].height # t
    BY <1>6 DEF remaining, IInv, WellTyped, EntryIffHistory
  <2>2. histories[d][1].height < t
    BY <1>1, <1>7, <2>1
  <2> QED
    BY <1>6, <2>1, <2>2
<1>9. \A d \in DecisionIds : d \in remaining <=> histories[d] # <<>> /\ histories[d][1].height # t
  BY <1>6 DEF remaining, IInv, EntryIffHistory
<1>10. WellTyped'
  <2>1. histories' \in [DecisionIds -> Seq(HistEntry)]
    <3>1. histories' = [d \in DecisionIds |-> histories'[d]]
      BY <1>1, <1>2
    <3> QED
      BY <1>3, <3>1 DEF Retreated
  <2>2. period_keys' \subseteq Periods
    BY <1>2 DEF RevertClaims, IInv, WellTyped
  <2>3. claimed' \subseteq DecisionIds /\ outcomes' \subseteq DecisionIds
    BY <1>2 DEF IInv, WellTyped, remaining
  <2>4. \A i \in 1..Len(undo') : undo'[i].highest \in Nat
    <3>1. 1..t \subseteq 1..Len(undo)
      BY <1>1
    <3> QED
      BY <1>5, <3>1 DEF IInv, WellTyped
  <2>5. genesis_timestamp' \in Nat
    BY <1>2 DEF IInv, WellTyped
  <2> QED
    BY <1>4, <1>5, <2>1, <2>2, <2>3, <2>4, <2>5 DEF WellTyped
<1>11. \A d \in DecisionIds : HistoryOK(histories'[d], Len(chain'))
  BY <1>3, <1>4 DEF Retreated
<1>12. EntryIffHistory'
  BY <1>3, <1>8, <1>9 DEF EntryIffHistory, Retreated
<1>13. \A d \in DecisionIds : d \in outcomes' <=> Len(histories'[d]) = 3
  BY <1>2, <1>3, <1>6 DEF IInv, Retreated
<1>14. \A d \in claimed' : d.period_index \in period_keys'
  <2> SUFFICES ASSUME NEW d \in remaining PROVE d.period_index \in period_keys'
    BY <1>8
  <2>1. d.period_index =< record.highest
    BY <1>2, <1>8
  <2>2. d.period_index \in period_keys
    BY DEF IInv, remaining
  <2> QED
    BY <1>2, <2>1, <2>2 DEF RevertClaims
<1>15. UndoExact'
  <2> SUFFICES ASSUME NEW i \in 1..t
               PROVE  /\ chain'[i].claims = {d \in DecisionIds :
                            histories'[d] # <<>> /\ histories'[d][1].height = i - 1}
                      /\ undo'[i].resolved = {d \in DecisionIds :
                            Len(histories'[d]) = 3 /\ histories'[d][3].height = i - 1}
                      /\ \A d \in DecisionIds :
                            histories'[d] # <<>> /\ histories'[d][1].height < i - 1
                              => d.period_index =< undo'[i].highest
    BY <1>4 DEF UndoExact
  <2>1. chain'[i] = chain[i] /\ undo'[i] = undo[i] /\ i \in 1..Len(chain) /\ i - 1 # t
    BY <1>1, <1>4, <1>5 DEF n
  <2>2. /\ chain[i].claims = {d \in DecisionIds :
              histories[d] # <<>> /\ histories[d][1].height = i - 1}
        /\ undo[i].resolved = {d \in DecisionIds :
              Len(histories[d]) = 3 /\ histories[d][3].height = i - 1}
        /\ \A d \in DecisionIds :
              histories[d] # <<>> /\ histories[d][1].height < i - 1
                => d.period_index =< undo[i].highest
    BY <2>1 DEF IInv, UndoExact
  <2>3. {d \in DecisionIds : histories[d] # <<>> /\ histories[d][1].height = i - 1}
          = {d \in DecisionIds : histories'[d] # <<>> /\ histories'[d][1].height = i - 1}
    BY <1>3, <2>1 DEF Retreated
  <2>4. {d \in DecisionIds : Len(histories[d]) = 3 /\ histories[d][3].height = i - 1}
          = {d \in DecisionIds : Len(histories'[d]) = 3 /\ histories'[d][3].height = i - 1}
    BY <1>3, <2>1 DEF Retreated
  <2>5. \A d \in DecisionIds : histories'[d] # <<>> /\ histories'[d][1].height < i - 1
           => histories[d] # <<>> /\ histories[d][1].height < i - 1
    BY <1>3 DEF Retreated
  <2> QED
    BY <2>1, <2>2, <2>3, <2>4, <2>5
<1> QED
  BY <1>10, <1>11, <1>12, <1>13, <1>14, <1>15 DEF IInv

-----------------------------------------------------------------------------
(* The theorems.                                                           *)

(* IInv holds in every reachable state.                                    *)
LEMMA Invariance == Spec => []IInv
<1>1. IInv /\ [Next]_vars => IInv'
  <2> SUFFICES ASSUME IInv, [Next]_vars PROVE IInv'
    OBVIOUS
  <2>1. ASSUME NEW ts \in Timestamps, NEW claims \in SUBSET DecisionIds,
               ConnectBlock(ts, claims)
        PROVE  IInv'
    BY <2>1, ConnectIInv
  <2>2. CASE DisconnectTip
    BY <2>2, DisconnectIInv
  <2>3. CASE UNCHANGED vars
    BY <2>3 DEF vars, IInv, WellTyped, EntryIffHistory, UndoExact
  <2> QED
    BY <2>1, <2>2, <2>3 DEF Next
<1> QED
  BY InitIInv, <1>1, PTL DEF Spec

(* For any decisions, window width, period length, timestamps and chain    *)
(* length: period_decisions holds a decision exactly when its state        *)
(* history says it was claimed, after any connects and disconnects.        *)
THEOREM EntryAgreesWithHistory == Spec => []EntryIffHistory
<1>1. IInv => EntryIffHistory
  BY DEF IInv
<1> QED
  BY Invariance, <1>1, PTL

(* The block and undo record at every connected height name exactly the    *)
(* claims and resolutions that disconnect_tip has to take back there.      *)
THEOREM UndoRecordsExact == Spec => []UndoExact
<1>1. IInv => UndoExact
  BY DEF IInv
<1> QED
  BY Invariance, <1>1, PTL

(* A decision is Resolved exactly when decision_outcomes has a consensus   *)
(* for it, through every reorg.                                            *)
THEOREM OutcomeAgreesWithState == Spec => []ResolvedIffOutcome
<1>1. IInv => ResolvedIffOutcome
  <2> SUFFICES ASSUME IInv, NEW d \in DecisionIds
               PROVE  CurrentState(histories[d]) = "Resolved" <=> d \in outcomes
    BY DEF ResolvedIffOutcome
  <2>1. Len(chain) \in Nat /\ histories[d] \in Seq(HistEntry)
    BY DEF IInv, WellTyped
  <2>2. HistoryOK(histories[d], Len(chain))
    BY DEF IInv
  <2>3. CurrentState(histories[d]) = "Resolved" <=> Len(histories[d]) = 3
    BY <2>1, <2>2, CurrentStateByLength
  <2> QED
    BY <2>3 DEF IInv
<1> QED
  BY Invariance, <1>1, PTL

(* Every history reads Claimed, Voting, Resolved at heights that do not    *)
(* decrease and do not exceed the tip's.                                   *)
THEOREM LifeCycleOrdered == Spec => []LifeCycle
<1>1. IInv => LifeCycle
  <2> SUFFICES ASSUME IInv, NEW d \in DecisionIds, NEW h, h = histories[d]
               PROVE  /\ Len(h) =< 3
                      /\ \A i \in 1..Len(h) :
                            /\ h[i].state = <<"Claimed", "Voting", "Resolved">>[i]
                            /\ h[i].height =< TipHeight
                            /\ i > 1 => h[i-1].height =< h[i].height
    BY DEF LifeCycle
  <2>1. Len(chain) \in Nat /\ h \in Seq(HistEntry)
    BY DEF IInv, WellTyped
  <2>2. HistoryOK(h, Len(chain))
    BY DEF IInv
  <2>3. Len(h) \in 0..3
    BY <2>1, <2>2, HistoryLength
  <2>4. \A i \in 1..Len(h) : h[i].height \in Nat
    BY <2>1, <2>2, HistoryLength
  <2>5. ASSUME NEW i \in 1..Len(h)
        PROVE  /\ h[i].state = <<"Claimed", "Voting", "Resolved">>[i]
               /\ h[i].height =< TipHeight
               /\ i > 1 => h[i-1].height =< h[i].height
    <3>1. i = 1 \/ i = 2 \/ i = 3
      <4> DEFINE l == Len(h)
      <4>1. l \in 0..3 /\ i \in 1..l
        BY <2>3
      <4> HIDE DEF l
      <4> QED
        BY <4>1
    <3>2. CASE i = 1
      BY <2>1, <2>2, <2>3, <2>4, <3>2 DEF HistoryOK, TipHeight
    <3>3. CASE i = 2
      BY <2>1, <2>2, <2>3, <2>4, <3>3 DEF HistoryOK, TipHeight
    <3>4. CASE i = 3
      BY <2>1, <2>2, <2>3, <2>4, <3>4 DEF HistoryOK, TipHeight
    <3> QED
      BY <3>1, <3>2, <3>3, <3>4
  <2> QED
    BY SMTT(30), <2>3, <2>5
<1> QED
  BY Invariance, <1>1, PTL

(* The tables of the registry agree with one another and with what a       *)
(* disconnect will take back, in every reachable state.                    *)
THEOREM RegistryConsistent == Spec => []RecordsAgree
<1>1. EntryIffHistory /\ LifeCycle /\ ResolvedIffOutcome /\ UndoExact => RecordsAgree
  BY DEF RecordsAgree
<1> QED
  BY EntryAgreesWithHistory, LifeCycleOrdered, OutcomeAgreesWithState, UndoRecordsExact, <1>1, PTL

-----------------------------------------------------------------------------
(***************************************************************************)
(* Disconnecting a block restores the registry, for every value of the     *)
(* constants of Decisions.  What the block found was written down nowhere  *)
(* but in the history variable before; disconnect_tip rebuilds it from     *)
(* the block, its undo record and the heights in the state histories.      *)
(*                                                                         *)
(* The invariant says of every connected block, not only of the tip, that  *)
(* the histories it found are the current ones cut off at its height: that *)
(* is what survives the disconnection of the blocks above it.              *)
(*                                                                         *)
(* On top of it, two invariants.  AInv: the claims and the prices agree,   *)
(* in the registry and in what every block found, because a snapshot of    *)
(* the prices comes back with the claims that were made under it.  RInv:   *)
(* a standard decision is resolved by the first block past its voting      *)
(* period; a claim that came after the outcomes of its period would never  *)
(* be, and the bound on how far the mainchain clock runs back excludes it. *)
(***************************************************************************)

(* History b is history h without the entries at height n or above.        *)
CutAt(h, b, n) ==
    /\ b \in Seq(HistEntry)
    /\ Len(b) =< Len(h)
    /\ \A k \in 1..Len(b) : b[k] = h[k]
    /\ \A k \in 1..Len(h) : k =< Len(b) <=> h[k].height < n

(* History g is history h with further entries at height n.                *)
Extended(h, g, n) ==
    /\ g \in Seq(HistEntry)
    /\ Len(h) =< Len(g)
    /\ \A k \in 1..Len(h) : g[k] = h[k]
    /\ \A k \in 1..Len(g) : k > Len(h) => g[k].height = n

(* What the block at height i - 1 found.                                   *)
FoundBy(i) ==
    /\ before[i] = <<before[i][1], before[i][2], before[i][3], before[i][4]>>
    /\ before[i][3] = undo[i].pricing
    /\ before[i][2] \in [DecisionIds -> Seq(HistEntry)]
    /\ \A d \in DecisionIds : CutAt(histories[d], before[i][2][d], i - 1)
    /\ before[i][1] = {d \in DecisionIds : before[i][2][d] # <<>>}
    /\ before[i][4] = {d \in DecisionIds : Len(before[i][2][d]) = 3}

(* The inductive invariant.                                                *)
UInv ==
    /\ IInv
    /\ \E S : before \in Seq(S)
    /\ Len(before) = Len(chain)
    /\ \A i \in 1..Len(chain) : FoundBy(i)

-----------------------------------------------------------------------------
(* Cuts and extensions of histories.                                       *)

(* A history is an extension of itself, and extensions compose.            *)
LEMMA ExtendedSteps ==
    ASSUME NEW h \in Seq(HistEntry), NEW o, NEW n \in Nat, Extended(h, o, n),
           NEW e \in HistEntry, e.height = n, NEW g, g = Append(o, e)
    PROVE  Extended(h, g, n)
<1>1. o \in Seq(HistEntry) /\ Len(h) =< Len(o) /\ Len(h) \in Nat /\ Len(o) \in Nat
  BY DEF Extended
<1>2. /\ g \in Seq(HistEntry)
      /\ Len(g) = Len(o) + 1
      /\ \A i \in 1..Len(o) : g[i] = o[i]
      /\ g[Len(o) + 1] = e
  BY <1>1, Loop!AppendFacts
<1>3. Len(h) =< Len(g)
  BY <1>1, <1>2
<1>4. \A k \in 1..Len(h) : g[k] = h[k]
  BY <1>1, <1>2 DEF Extended
<1>5. ASSUME NEW k \in 1..Len(g), k > Len(h) PROVE g[k].height = n
  <2>1. CASE k = Len(o) + 1
    BY <1>2, <2>1
  <2>2. CASE k # Len(o) + 1
    <3>1. k \in 1..Len(o)
      BY <1>1, <1>2, <2>2
    <3> QED
      BY <1>2, <1>5, <3>1 DEF Extended
  <2> QED
    BY <2>1, <2>2
<1> QED
  BY <1>2, <1>3, <1>4, <1>5 DEF Extended

(* Connecting a block at height n extends every history with entries at n. *)
LEMMA ConnectExtends ==
    ASSUME NEW hist \in [DecisionIds -> Seq(HistEntry)], NEW n \in Nat,
           NEW claims \in SUBSET DecisionIds, NEW current, NEW resolved,
           \A x \in claims : hist[x] = <<>>,
           NEW opened, opened = TransitionToVoting(hist, current, n),
           NEW entered, entered = ClaimHistories(opened, claims, n),
           NEW d \in DecisionIds
    PROVE  Extended(hist[d], TransitionToResolved(entered, resolved, n)[d], n)
<1> DEFINE h == hist[d]
           o == opened[d]
           f == entered[d]
           g == TransitionToResolved(entered, resolved, n)[d]
<1>1. h \in Seq(HistEntry)
  OBVIOUS
<1>2. \A s \in {"Claimed", "Voting", "Resolved"} :
         Entry(s, n) \in HistEntry /\ Entry(s, n).height = n
  BY DEF Entry, HistEntry
<1>3. o = h \/ o = Append(h, Entry("Voting", n))
  BY DEF TransitionToVoting
<1>4. (d \notin claims /\ f = o) \/ (h = <<>> /\ f = <<Entry("Claimed", n)>>)
  BY DEF ClaimHistories
<1>5. g = f \/ g = Append(f, Entry("Resolved", n))
  BY DEF TransitionToResolved
<1> HIDE DEF h, o, f, g
<1>6. Extended(h, h, n)
  BY <1>1 DEF Extended
<1>7. Extended(h, o, n)
  <2>1. CASE o = h
    BY <1>6, <2>1
  <2>2. CASE o = Append(h, Entry("Voting", n))
    BY <1>1, <1>2, <1>6, <2>2, ExtendedSteps
  <2> QED
    BY <1>3, <2>1, <2>2
<1>8. Extended(h, f, n)
  <2>1. CASE f = o
    BY <1>7, <2>1
  <2>2. CASE h = <<>> /\ f = <<Entry("Claimed", n)>>
    <3>1. f = Append(h, Entry("Claimed", n))
      BY <2>2
    <3> QED
      BY <1>1, <1>2, <1>6, <3>1, ExtendedSteps
  <2> QED
    BY <1>4, <2>1, <2>2
<1>9. Extended(h, g, n)
  <2>1. CASE g = f
    BY <1>8, <2>1
  <2>2. CASE g = Append(f, Entry("Resolved", n))
    BY <1>1, <1>2, <1>8, <2>2, ExtendedSteps
  <2> QED
    BY <1>5, <2>1, <2>2
<1> QED
  BY <1>9 DEF h, g

(* A cut below the height of an extension is a cut of the extension.       *)
LEMMA CutOfExtended ==
    ASSUME NEW h \in Seq(HistEntry), NEW g, NEW b, NEW n \in Nat, NEW j \in Nat, j =< n,
           Extended(h, g, n), CutAt(h, b, j)
    PROVE  CutAt(g, b, j)
<1>1. /\ Len(h) \in Nat /\ Len(g) \in Nat /\ Len(b) \in Nat
      /\ Len(b) =< Len(h) /\ Len(h) =< Len(g)
  BY DEF Extended, CutAt
<1>2. \A k \in 1..Len(b) : b[k] = g[k]
  BY <1>1 DEF Extended, CutAt
<1>3. ASSUME NEW k \in 1..Len(g) PROVE k =< Len(b) <=> g[k].height < j
  <2>1. CASE k =< Len(h)
    <3>1. k \in 1..Len(h)
      BY <1>1, <2>1
    <3> QED
      BY <3>1 DEF Extended, CutAt
  <2>2. CASE k > Len(h)
    <3>1. g[k].height = n
      BY <2>2 DEF Extended
    <3>2. ~(k =< Len(b))
      BY <1>1, <2>2
    <3> QED
      BY <3>1, <3>2
  <2> QED
    BY <1>1, <2>1, <2>2
<1> QED
  BY <1>1, <1>2, <1>3 DEF CutAt

(* A history below height n is the cut at n of its extension.              *)
LEMMA ExtendedIsCut ==
    ASSUME NEW h \in Seq(HistEntry), NEW n \in Nat, HistoryOK(h, n), NEW g, Extended(h, g, n)
    PROVE  CutAt(g, h, n)
<1>1. Len(h) \in 0..3 /\ \A i \in 1..Len(h) : h[i].height \in Nat
  BY HistoryLength
<1>2. \A i \in 1..Len(h) : h[i].height < n
  BY <1>1 DEF HistoryOK
<1>3. CutAt(h, h, n)
  BY <1>2 DEF CutAt
<1> QED
  BY <1>3, CutOfExtended

(* Rolling back to the height below n cuts at n.                           *)
LEMMA RollbackCuts ==
    ASSUME NEW h \in Seq(HistEntry), NEW n \in Nat, HistoryOK(h, n), NEW m \in Nat,
           NEW r, r = RollbackToHeight(h, m)
    PROVE  CutAt(h, r, m + 1)
<1>1. \A i \in 1..Len(h) : h[i].height \in Nat
  BY HistoryLength
<1>2. /\ r \in Seq(HistEntry)
      /\ Len(r) =< Len(h)
      /\ \A i \in 1..Len(r) : r[i] = h[i]
      /\ \A i \in 1..Len(h) : i =< Len(r) <=> h[i].height =< m
  BY RollbackPrefix
<1> QED
  BY <1>1, <1>2 DEF CutAt

(* A lower cut of a history is a cut of a higher one.                      *)
LEMMA CutOfCut ==
    ASSUME NEW h \in Seq(HistEntry), NEW r, NEW b, NEW j \in Nat, NEW t \in Nat, j =< t,
           \A i \in 1..Len(h) : h[i].height \in Nat, CutAt(h, r, t), CutAt(h, b, j)
    PROVE  CutAt(r, b, j)
<1>1. /\ Len(h) \in Nat /\ Len(r) \in Nat /\ Len(b) \in Nat
      /\ Len(b) =< Len(h) /\ Len(r) =< Len(h)
  BY DEF CutAt
<1>2. Len(b) =< Len(r)
  <2> SUFFICES ASSUME Len(b) > Len(r) PROVE FALSE
    BY <1>1
  <2>1. Len(b) \in 1..Len(h)
    BY <1>1
  <2>2. h[Len(b)].height < j
    BY <1>1, <2>1 DEF CutAt
  <2>3. ~(h[Len(b)].height < t)
    BY <1>1, <2>1 DEF CutAt
  <2> QED
    BY <2>1, <2>2, <2>3
<1>3. \A k \in 1..Len(b) : b[k] = r[k]
  BY <1>1, <1>2 DEF CutAt
<1>4. \A k \in 1..Len(r) : k =< Len(b) <=> r[k].height < j
  BY <1>1 DEF CutAt
<1> QED
  BY <1>2, <1>3, <1>4 DEF CutAt

(* Two cuts of a history at the same height are equal.                     *)
LEMMA CutUnique ==
    ASSUME NEW h \in Seq(HistEntry), NEW b, NEW c, NEW n, CutAt(h, b, n), CutAt(h, c, n)
    PROVE  b = c
<1>1. /\ Len(h) \in Nat /\ Len(b) \in Nat /\ Len(c) \in Nat
      /\ Len(b) =< Len(h) /\ Len(c) =< Len(h)
      /\ b \in Seq(HistEntry) /\ c \in Seq(HistEntry)
  BY DEF CutAt
<1>2. \A k \in 1..Len(h) : k =< Len(b) <=> k =< Len(c)
  BY DEF CutAt
<1>3. Len(b) = Len(c)
  <2>1. ~(Len(b) < Len(c))
    BY <1>1, <1>2
  <2>2. ~(Len(c) < Len(b))
    BY <1>1, <1>2
  <2> QED
    BY <1>1, <2>1, <2>2
<1>4. \A k \in 1..Len(b) : b[k] = c[k]
  BY <1>3 DEF CutAt
<1> QED
  BY <1>1, <1>3, <1>4, SeqEqual

-----------------------------------------------------------------------------
(* The invariant.                                                          *)

(* No block, nothing found.                                                *)
LEMMA InitUInv == Init => UInv
<1> SUFFICES ASSUME Init PROVE UInv
  OBVIOUS
<1>1. IInv
  BY InitIInv
<1>2. before = <<>> /\ chain = <<>>
  BY DEF Init
<1> QED
  BY <1>1, <1>2 DEF UInv

(* Connecting a block writes down what it finds, and extends the histories *)
(* that the blocks below it found cuts of.                                 *)
LEMMA ConnectUInv ==
    ASSUME UInv, NEW ts \in Timestamps, NEW claims \in SUBSET DecisionIds,
           ConnectBlock(ts, claims)
    PROVE  UInv'
<1> DEFINE n        == Len(chain)
           genesis  == IF n = 0 THEN ts ELSE genesis_timestamp
           current  == GetCurrentPeriod(ts, n, genesis)
           opened   == TransitionToVoting(histories, current, n)
           entered  == ClaimHistories(opened, claims, n)
           resolved == Resolvable(entered, outcomes, current)
           block    == [ts |-> ts, claims |-> claims]
           record   == [highest |-> HighestMinted(period_keys),
                        pricing |-> period_pricing, resolved |-> resolved]
<1>1. /\ \A d \in claims : ValidClaim(d)
      /\ chain' = Append(chain, block)
      /\ undo' = Append(undo, record)
      /\ histories' = TransitionToResolved(entered, resolved, n)
      /\ before' = Append(before, registry)
  BY DEF ConnectBlock
<1>2. IInv'
  BY ConnectIInv DEF UInv
<1>3. IInv /\ n \in Nat /\ histories \in [DecisionIds -> Seq(HistEntry)]
  BY DEF UInv, IInv, WellTyped
<1>4. \A d \in claims : histories[d] = <<>>
  BY <1>1, <1>3 DEF IInv, EntryIffHistory, ValidClaim, ClaimValidIn
<1>5. \A d \in DecisionIds : Extended(histories[d], histories'[d], n)
  <2>1. opened = TransitionToVoting(histories, current, n)
    OBVIOUS
  <2>2. entered = ClaimHistories(opened, claims, n)
    OBVIOUS
  <2> HIDE DEF opened, entered, resolved, current, n
  <2> SUFFICES ASSUME NEW d \in DecisionIds
               PROVE  Extended(histories[d], TransitionToResolved(entered, resolved, n)[d], n)
    BY <1>1
  <2> QED
    BY <1>3, <1>4, <2>1, <2>2, ConnectExtends
<1>6. record.pricing = period_pricing
  OBVIOUS
<1>7. block \in [ts : Timestamps, claims : SUBSET DecisionIds]
  OBVIOUS
<1> HIDE DEF current, opened, entered, resolved, block, record
<1>8. Len(chain') = n + 1
  BY <1>1, <1>7, Loop!AppendFacts DEF UInv, IInv, WellTyped
<1>9. /\ Len(undo') = n + 1
      /\ \A i \in 1..n : undo'[i] = undo[i]
      /\ undo'[n + 1] = record
  <2>1. PICK S : undo \in Seq(S)
    BY <1>3 DEF IInv, WellTyped
  <2> DEFINE R == S \cup {record}
  <2>2. undo \in Seq(R) /\ record \in R /\ Len(undo) = n
    BY <1>3, <2>1 DEF IInv, WellTyped
  <2> HIDE DEF R, n
  <2> QED
    BY <1>1, <2>2, Loop!AppendFacts
<1>10. /\ \E S : before' \in Seq(S)
       /\ Len(before') = n + 1
       /\ \A i \in 1..n : before'[i] = before[i]
       /\ before'[n + 1] = registry
  <2>1. PICK S : before \in Seq(S)
    BY DEF UInv
  <2> DEFINE R == S \cup {registry}
  <2>2. before \in Seq(R) /\ registry \in R /\ Len(before) = n
    BY <2>1 DEF UInv
  <2> HIDE DEF R, n
  <2> QED
    BY <1>1, <2>2, Loop!AppendFacts
<1>11. ASSUME NEW i \in 1..n PROVE FoundBy(i)'
  <2>1. FoundBy(i) /\ before'[i] = before[i] /\ undo'[i] = undo[i] /\ i - 1 \in Nat /\ i - 1 =< n
    BY <1>3, <1>9, <1>10 DEF UInv
  <2>2. \A d \in DecisionIds : CutAt(histories'[d], before[i][2][d], i - 1)
    <3> SUFFICES ASSUME NEW d \in DecisionIds
                 PROVE  CutAt(histories'[d], before[i][2][d], i - 1)
      OBVIOUS
    <3>1. CutAt(histories[d], before[i][2][d], i - 1)
      BY <2>1 DEF FoundBy
    <3> HIDE DEF n
    <3> QED
      BY <1>3, <1>5, <2>1, <3>1, CutOfExtended
  <2> QED
    BY <2>1, <2>2 DEF FoundBy
<1>12. ASSUME NEW i, i = n + 1 PROVE FoundBy(i)'
  <2>1. /\ registry[1] = claimed /\ registry[2] = histories
        /\ registry[3] = period_pricing /\ registry[4] = outcomes
        /\ registry = <<registry[1], registry[2], registry[3], registry[4]>>
    BY DEF registry
  <2>2. \A d \in DecisionIds : CutAt(histories'[d], histories[d], i - 1)
    <3> SUFFICES ASSUME NEW d \in DecisionIds
                 PROVE  CutAt(histories'[d], histories[d], i - 1)
      OBVIOUS
    <3>1. HistoryOK(histories[d], n) /\ i - 1 = n
      BY <1>3, <1>12 DEF IInv
    <3> HIDE DEF n
    <3> QED
      BY <1>3, <1>5, <3>1, ExtendedIsCut
  <2>3. claimed = {d \in DecisionIds : histories[d] # <<>>}
    BY <1>3 DEF IInv, WellTyped, EntryIffHistory
  <2>4. outcomes = {d \in DecisionIds : Len(histories[d]) = 3}
    BY <1>3 DEF IInv, WellTyped
  <2>5. before'[i] = registry /\ before'[i][3] = undo'[i].pricing
    BY <1>6, <1>9, <1>10, <1>12, <2>1
  <2> QED
    BY <1>3, <2>1, <2>2, <2>3, <2>4, <2>5 DEF FoundBy
<1>13. \A i \in 1..Len(chain') : FoundBy(i)'
  <2>1. \A i \in 1..(n + 1) : i \in 1..n \/ i = n + 1
    BY <1>3
  <2> QED
    BY <1>8, <1>11, <1>12, <2>1
<1> QED
  BY <1>2, <1>8, <1>10, <1>13 DEF UInv

(* Disconnecting the tip cuts every history at the tip's height.           *)
LEMMA DisconnectCuts ==
    ASSUME UInv, DisconnectTip, NEW t, t = Len(chain) - 1
    PROVE  /\ t \in Nat /\ Len(chain) = t + 1
           /\ histories' \in [DecisionIds -> Seq(HistEntry)]
           /\ \A d \in DecisionIds : CutAt(histories[d], histories'[d], t)
<1>1. IInv /\ IInv'
  BY DisconnectIInv DEF UInv
<1>2. t \in Nat /\ Len(chain) = t + 1 /\ Len(chain) \in Nat
  <2>1. chain # <<>> /\ chain \in Seq([ts : Timestamps, claims : SUBSET DecisionIds])
    BY <1>1 DEF IInv, WellTyped, DisconnectTip
  <2>2. Len(chain) \in Nat \ {0}
    BY <2>1, EmptySeq
  <2> QED
    BY <2>2
<1>3. histories \in [DecisionIds -> Seq(HistEntry)] /\ histories' \in [DecisionIds -> Seq(HistEntry)]
  BY <1>1 DEF IInv, WellTyped
<1>4. ASSUME NEW d \in DecisionIds PROVE CutAt(histories[d], histories'[d], t)
  <2>1. histories[d] \in Seq(HistEntry) /\ HistoryOK(histories[d], Len(chain))
    BY <1>1, <1>3 DEF IInv
  <2>2. Len(histories[d]) \in 0..3 /\ \A k \in 1..Len(histories[d]) : histories[d][k].height \in Nat
    BY <1>2, <2>1, HistoryLength
  <2>3. CASE t = 0
    <3>1. histories'[d] = histories[d]
      BY <2>3 DEF DisconnectTip
    <3>2. Len(histories[d]) = 0
      BY <1>2, <2>1, <2>2, <2>3 DEF HistoryOK
    <3> QED
      BY <2>1, <3>1, <3>2 DEF CutAt
  <2>4. CASE t # 0
    <3>1. t - 1 \in Nat /\ (t - 1) + 1 = t
      BY <1>2, <2>4
    <3>2. histories'[d] = RollbackToHeight(histories[d], t - 1)
      BY <2>4 DEF DisconnectTip
    <3>3. CutAt(histories[d], histories'[d], (t - 1) + 1)
      BY <1>2, <2>1, <3>1, <3>2, RollbackCuts
    <3> QED
      BY <3>1, <3>3
  <2> QED
    BY <2>3, <2>4
<1> QED
  BY <1>2, <1>3, <1>4

(* What the blocks below the tip found are cuts of the histories that are  *)
(* left.                                                                   *)
LEMMA DisconnectUInv ==
    ASSUME UInv, DisconnectTip
    PROVE  UInv'
<1> DEFINE t == Len(chain) - 1
<1>1. /\ t \in Nat /\ Len(chain) = t + 1
      /\ \A d \in DecisionIds : CutAt(histories[d], histories'[d], t)
  BY DisconnectCuts
<1>2. IInv /\ IInv'
  BY DisconnectIInv DEF UInv
<1>3. /\ chain' = SubSeq(chain, 1, t)
      /\ undo' = SubSeq(undo, 1, t)
      /\ before' = SubSeq(before, 1, t)
  BY DEF DisconnectTip
<1>4. Len(chain') = t
  BY <1>1, <1>3 DEF UInv, IInv, WellTyped
<1>5. \A i \in 1..t : undo'[i] = undo[i]
  <2>1. PICK S : undo \in Seq(S)
    BY <1>2 DEF IInv, WellTyped
  <2>2. t \in 0..Len(undo)
    BY <1>1, <1>2 DEF IInv, WellTyped
  <2> HIDE DEF t
  <2> QED
    BY <1>3, <2>1, <2>2, Loop!PrefixFacts
<1>6. /\ \E S : before' \in Seq(S)
      /\ Len(before') = t
      /\ \A i \in 1..t : before'[i] = before[i]
  <2>1. PICK S : before \in Seq(S)
    BY DEF UInv
  <2>2. t \in 0..Len(before)
    BY <1>1 DEF UInv
  <2> HIDE DEF t
  <2> QED
    BY ZenonT(60), <1>3, <2>1, <2>2, Loop!PrefixFacts
<1>7. ASSUME NEW i \in 1..t PROVE FoundBy(i)'
  <2>1. i \in 1..Len(chain) /\ i - 1 \in Nat /\ i - 1 =< t
    BY <1>1
  <2>2. FoundBy(i) /\ before'[i] = before[i] /\ undo'[i] = undo[i]
    BY <1>5, <1>6, <2>1 DEF UInv
  <2>3. \A d \in DecisionIds : CutAt(histories'[d], before[i][2][d], i - 1)
    <3> SUFFICES ASSUME NEW d \in DecisionIds
                 PROVE  CutAt(histories'[d], before[i][2][d], i - 1)
      OBVIOUS
    <3>1. /\ histories[d] \in Seq(HistEntry) /\ HistoryOK(histories[d], Len(chain))
          /\ Len(chain) \in Nat
      BY <1>2 DEF IInv, WellTyped
    <3>2. \A k \in 1..Len(histories[d]) : histories[d][k].height \in Nat
      BY <3>1, HistoryLength
    <3>3. CutAt(histories[d], before[i][2][d], i - 1)
      BY <2>2 DEF FoundBy
    <3> HIDE DEF t
    <3> QED
      BY <1>1, <2>1, <3>1, <3>2, <3>3, CutOfCut
  <2> QED
    BY <2>2, <2>3 DEF FoundBy
<1> QED
  BY <1>2, <1>4, <1>6, <1>7 DEF UInv

(* UInv holds in every reachable state.                                    *)
LEMMA UndoInvariance == Spec => []UInv
<1>1. UInv /\ [Next]_vars => UInv'
  <2> SUFFICES ASSUME UInv, [Next]_vars PROVE UInv'
    OBVIOUS
  <2>1. ASSUME NEW ts \in Timestamps, NEW claims \in SUBSET DecisionIds,
               ConnectBlock(ts, claims)
        PROVE  UInv'
    BY <2>1, ConnectUInv
  <2>2. CASE DisconnectTip
    BY <2>2, DisconnectUInv
  <2>3. CASE UNCHANGED vars
    <3>1. IInv'
      BY <2>3 DEF vars, UInv, IInv, WellTyped, EntryIffHistory, UndoExact
    <3>2. \A i \in 1..Len(chain') : FoundBy(i)'
      BY <2>3 DEF vars, UInv, FoundBy
    <3> QED
      BY <2>3, <3>1, <3>2 DEF vars, UInv
  <2> QED
    BY <2>1, <2>2, <2>3 DEF Next
<1> QED
  BY InitUInv, <1>1, PTL DEF Spec

-----------------------------------------------------------------------------
(* The theorem.                                                            *)

(* Disconnecting the tip gives back the registry that its block found.     *)
LEMMA DisconnectPops ==
    ASSUME UInv, DisconnectTip
    PROVE  Stack!Disconnect
<1>1. /\ claimed' = before[Len(before)][1]
      /\ histories' = before[Len(before)][2]
      /\ period_pricing' = before[Len(before)][3]
      /\ outcomes' = before[Len(before)][4]
  <2> DEFINE n == Len(chain)
             t == n - 1
             b == before[n]
  <2>1. /\ t \in Nat /\ n = t + 1
        /\ histories' \in [DecisionIds -> Seq(HistEntry)]
        /\ \A d \in DecisionIds : CutAt(histories[d], histories'[d], t)
    BY DisconnectCuts
  <2>2. n \in 1..n /\ Len(before) = n
    BY <2>1 DEF UInv
  <2>3. FoundBy(n) /\ IInv
    BY <2>2 DEF UInv
  <2>4. histories' = b[2]
    <3>1. b[2] \in [DecisionIds -> Seq(HistEntry)]
      BY <2>3 DEF FoundBy
    <3>2. ASSUME NEW d \in DecisionIds PROVE histories'[d] = b[2][d]
      <4>1. CutAt(histories[d], b[2][d], t)
        BY <2>3 DEF FoundBy
      <4>2. histories[d] \in Seq(HistEntry)
        BY <2>3 DEF IInv, WellTyped
      <4> HIDE DEF t, b
      <4> QED
        BY <2>1, <4>1, <4>2, CutUnique
    <3> HIDE DEF b
    <3> QED
      BY <2>1, <3>1, <3>2
  <2>5. IInv'
    BY DisconnectIInv DEF UInv
  <2>6. claimed' = {d \in DecisionIds : histories'[d] # <<>>}
    BY <2>5 DEF IInv, WellTyped, EntryIffHistory
  <2>7. outcomes' = {d \in DecisionIds : Len(histories'[d]) = 3}
    BY <2>5 DEF IInv, WellTyped
  <2>8. period_pricing' = b[3]
    <3>1. period_pricing' = undo[Len(undo)].pricing
      BY DEF DisconnectTip
    <3>2. Len(undo) = n
      BY <2>3 DEF IInv, WellTyped
    <3> QED
      BY <2>3, <3>1, <3>2 DEF FoundBy
  <2> QED
    BY <2>2, <2>3, <2>4, <2>6, <2>7, <2>8 DEF FoundBy
<1>2. registry' = before[Len(before)]
  <2>1. Len(before) = Len(chain) /\ Len(chain) \in 1..Len(chain)
    BY DisconnectCuts DEF UInv
  <2>2. FoundBy(Len(before))
    BY <2>1 DEF UInv
  <2> QED
    BY <1>1, <2>2 DEF FoundBy, registry
<1>3. Len(before) = Len(chain) /\ Len(chain) \in Nat \ {0}
  BY DisconnectCuts DEF UInv
<1>4. before # <<>>
  BY <1>3
<1>5. before' = SubSeq(before, 1, Len(before) - 1)
  BY <1>3 DEF DisconnectTip
<1> QED
  BY <1>2, <1>4, <1>5 DEF Stack!Disconnect

(* For any decisions, window width, period length, timestamps, in blocks   *)
(* or in seconds, and any chain, the registry implements the stack of      *)
(* blocks: disconnect_tip gives back the claims, the state of every        *)
(* decision, the prices and the outcomes that the block it disconnects had *)
(* found.                                                                  *)
THEOREM DisconnectExact == Spec => DisconnectRestores
<1>1. Init => Stack!Init
  BY DEF Init, Stack!Init
<1>2. UInv /\ [Next]_vars => [Stack!Next]_<<registry, before>>
  <2> SUFFICES ASSUME UInv, [Next]_vars PROVE [Stack!Next]_<<registry, before>>
    OBVIOUS
  <2>1. ASSUME NEW ts \in Timestamps, NEW claims \in SUBSET DecisionIds,
               ConnectBlock(ts, claims)
        PROVE  Stack!Connect
    BY <2>1 DEF ConnectBlock, Stack!Connect
  <2>2. CASE DisconnectTip
    BY <2>2, DisconnectPops DEF Stack!Next
  <2>3. CASE UNCHANGED vars
    BY <2>3 DEF vars, registry
  <2> QED
    BY <2>1, <2>2, <2>3 DEF Next, Stack!Next
<1> QED
  BY UndoInvariance, <1>1, <1>2, PTL DEF Spec, DisconnectRestores, Stack!Spec

-----------------------------------------------------------------------------
(* The reprice curve.                                                      *)

(* Powers of two: there are 2^k subsets of a set of k elements.             *)
LEMMA PowersOfTwo ==
    \A k \in Nat : 2^k \in Nat \ {0}
<1> SUFFICES ASSUME NEW k \in Nat PROVE 2^k \in Nat \ {0}
  OBVIOUS
<1>1. IsFiniteSet(1..k) /\ Cardinality(1..k) = k
  BY FS_Interval
<1>2. IsFiniteSet(SUBSET (1..k)) /\ Cardinality(SUBSET (1..k)) = 2^k
  BY <1>1, FS_SUBSET
<1>3. Cardinality(SUBSET (1..k)) \in Nat /\ SUBSET (1..k) # {}
  BY <1>2, FS_CardinalityType
<1>4. Cardinality(SUBSET (1..k)) # 0
  BY <1>2, <1>3, FS_EmptySet
<1> QED
  BY <1>2, <1>3, <1>4

(* The exponential series is an integer.                                    *)
LEMMA Pow2FracType ==
    ASSUME NEW frac \in Int
    PROVE  Pow2Frac(frac) \in Int
<1> DEFINE one == 2^FracBits
           x == ((frac * 2^(FracBits - QBits)) * Ln2Fixed) \div one
           g == [u \in Int \X Int |-> ((u[1] * x) \div one) \div u[2]]
           isTerm(f) == f = [k \in 0..SeriesTerms |->
                               IF k = 0 THEN one ELSE ((f[k - 1] * x) \div one) \div k]
           term == CHOOSE f : isTerm(f)
           h == [u \in Int \X Int |-> u[1] + term[u[2]]]
           isSum(f) == f = [k \in 0..SeriesTerms |->
                              IF k = 0 THEN one ELSE f[k - 1] + term[k]]
           sum == CHOOSE f : isSum(f)
<1>1. one \in Nat \ {0} /\ SeriesTerms \in Nat /\ x \in Int
  <2>1. /\ FracBits \in Nat /\ FracBits - QBits \in Nat /\ Ln2Fixed \in Nat /\ SeriesTerms \in Nat
    BY MathAssumption
  <2>2. one \in Nat \ {0} /\ 2^(FracBits - QBits) \in Nat
    BY <2>1, PowersOfTwo
  <2>3. \A n \in Nat \ {0}, y, z, w \in Int : ((y * z) * w) \div n \in Int
    OBVIOUS
  <2> HIDE DEF one
  <2> QED
    BY <2>1, <2>2, <2>3
<1>2. Pow2Frac(frac) = sum[SeriesTerms]
  BY Zenon DEF Pow2Frac
<1> HIDE DEF one, x
<1>3. term \in [0..SeriesTerms -> Int]
  <2>1. \A y \in Int, k \in (0 + 1)..SeriesTerms :
          g[<<y, k>>] = ((y * x) \div one) \div k /\ g[<<y, k>>] \in Int
    <3> SUFFICES ASSUME NEW y \in Int, NEW k \in (0 + 1)..SeriesTerms
                 PROVE  ((y * x) \div one) \div k \in Int
      OBVIOUS
    <3>1. (y * x) \div one \in Int /\ k \in Nat \ {0}
      BY <1>1
    <3> QED
      BY <3>1
  <2> HIDE DEF g
  <2>0. Loop!Recursion(0, SeriesTerms, Int, one, g)
    BY <1>1, <2>1 DEF Loop!Recursion
  <2>2. PICK f \in [0..SeriesTerms -> Int] : Loop!Iterates(f, 0, SeriesTerms, one, g)
    BY <2>0, Loop!IteratesExist, Zenon
  <2>3. isTerm(f)
    <3> DEFINE e(k) == IF k = 0 THEN one ELSE ((f[k - 1] * x) \div one) \div k
    <3>1. ASSUME NEW k \in 0..SeriesTerms PROVE f[k] = e(k)
      <4>1. f[k] = IF k = 0 THEN one ELSE g[<<f[k - 1], k>>]
        BY <2>2, Zenon DEF Loop!Iterates
      <4>2. k # 0 => f[k - 1] \in Int /\ k \in (0 + 1)..SeriesTerms
        BY <1>1, <2>2
      <4>3. k # 0 => g[<<f[k - 1], k>>] = ((f[k - 1] * x) \div one) \div k
        BY <2>1, <4>2, Zenon
      <4> QED
        BY <4>1, <4>3, Zenon
    <3>2. f = [k \in 0..SeriesTerms |-> e(k)]
      <4> HIDE DEF e
      <4> QED
        BY <2>2, <3>1
    <3> QED
      BY <3>2, Zenon
  <2>4. isTerm(term)
    <3> HIDE DEF isTerm
    <3> QED
      BY <2>3, Zenon
  <2>5. \A k \in 0..SeriesTerms :
          term[k] = IF k = 0 THEN one ELSE ((term[k - 1] * x) \div one) \div k
    <3> HIDE DEF term
    <3> QED
      BY <2>4, Zenon
  <2>6. term = [k \in 0..SeriesTerms |-> term[k]]
    <3> HIDE DEF term
    <3> QED
      BY <2>4, Zenon
  <2> HIDE DEF term
  <2>7. 0 =< SeriesTerms => term[0] = one
    BY <1>1, <2>5
  <2>8. \A k \in (0 + 1)..SeriesTerms : term[k - 1] \in Int => term[k] = g[<<term[k - 1], k>>]
    <3>1. \A k \in (0 + 1)..SeriesTerms : k \in 0..SeriesTerms /\ k # 0
      BY <1>1
    <3> QED
      BY <2>1, <2>5, <3>1, Zenon
  <2>9. Loop!IteratesIn(term, 0, SeriesTerms, Int, one, g)
    BY <2>6, <2>7, <2>8, Zenon DEF Loop!IteratesIn
  <2> QED
    BY <2>0, <2>9, Loop!IteratesType
<1> HIDE DEF term
<1>4. sum \in [0..SeriesTerms -> Int]
  <2>1. \A y \in Int, k \in (0 + 1)..SeriesTerms :
          h[<<y, k>>] = y + term[k] /\ h[<<y, k>>] \in Int
    <3> SUFFICES ASSUME NEW y \in Int, NEW k \in (0 + 1)..SeriesTerms
                 PROVE  y + term[k] \in Int
      OBVIOUS
    <3>1. term[k] \in Int
      BY <1>1, <1>3
    <3> QED
      BY <3>1
  <2> HIDE DEF h
  <2>0. Loop!Recursion(0, SeriesTerms, Int, one, h)
    BY <1>1, <2>1 DEF Loop!Recursion
  <2>2. PICK f \in [0..SeriesTerms -> Int] : Loop!Iterates(f, 0, SeriesTerms, one, h)
    BY <2>0, Loop!IteratesExist, Zenon
  <2>3. isSum(f)
    <3> DEFINE e(k) == IF k = 0 THEN one ELSE f[k - 1] + term[k]
    <3>1. ASSUME NEW k \in 0..SeriesTerms PROVE f[k] = e(k)
      <4>1. f[k] = IF k = 0 THEN one ELSE h[<<f[k - 1], k>>]
        BY <2>2, Zenon DEF Loop!Iterates
      <4>2. k # 0 => f[k - 1] \in Int /\ k \in (0 + 1)..SeriesTerms
        BY <1>1, <2>2
      <4>3. k # 0 => h[<<f[k - 1], k>>] = f[k - 1] + term[k]
        BY <2>1, <4>2, Zenon
      <4> QED
        BY <4>1, <4>3, Zenon
    <3>2. f = [k \in 0..SeriesTerms |-> e(k)]
      <4> HIDE DEF e
      <4> QED
        BY <2>2, <3>1
    <3> QED
      BY <3>2, Zenon
  <2>4. isSum(sum)
    <3> HIDE DEF isSum
    <3> QED
      BY <2>3, Zenon
  <2>5. \A k \in 0..SeriesTerms :
          sum[k] = IF k = 0 THEN one ELSE sum[k - 1] + term[k]
    <3> HIDE DEF sum
    <3> QED
      BY <2>4, Zenon
  <2>6. sum = [k \in 0..SeriesTerms |-> sum[k]]
    <3> HIDE DEF sum
    <3> QED
      BY <2>4, Zenon
  <2> HIDE DEF sum
  <2>7. 0 =< SeriesTerms => sum[0] = one
    BY <1>1, <2>5
  <2>8. \A k \in (0 + 1)..SeriesTerms : sum[k - 1] \in Int => sum[k] = h[<<sum[k - 1], k>>]
    <3>1. \A k \in (0 + 1)..SeriesTerms : k \in 0..SeriesTerms /\ k # 0
      BY <1>1
    <3> QED
      BY <2>1, <2>5, <3>1, Zenon
  <2>9. Loop!IteratesIn(sum, 0, SeriesTerms, Int, one, h)
    BY <2>6, <2>7, <2>8, Zenon DEF Loop!IteratesIn
  <2> QED
    BY <2>0, <2>9, Loop!IteratesType
<1> HIDE DEF sum
<1> QED
  BY <1>1, <1>2, <1>4

(* 2^(e / 2^QBits) is an integer for every exponent.                        *)
LEMMA Pow2FixedType ==
    ASSUME NEW e \in Int
    PROVE  Pow2Fixed(e) \in Int
<1> DEFINE q == 2^QBits
           exp_int == e \div q
           r == 2^(FracBits - QBits)
           s == Pow2Frac(e % q)
           mantissa == s \div r
<1>1. q \in Nat \ {0} /\ r \in Nat \ {0}
  BY MathAssumption, PowersOfTwo
<1>2. exp_int \in Int /\ e % q \in Int
  <2> HIDE DEF q
  <2> QED
    BY <1>1
<1>3. mantissa \in Int
  <2>1. s \in Int
    BY <1>2, Pow2FracType
  <2> HIDE DEF s, r
  <2> QED
    BY <1>1, <2>1
<1>4. Pow2Fixed(e) = IF exp_int >= 0 THEN mantissa * 2^exp_int ELSE mantissa \div 2^(-exp_int)
  BY Zenon DEF Pow2Fixed
<1> HIDE DEF exp_int, mantissa
<1>5. CASE exp_int >= 0
  <2>1. 2^exp_int \in Nat
    BY <1>2, <1>5, PowersOfTwo
  <2> QED
    BY <1>3, <1>4, <1>5, <2>1
<1>6. CASE ~(exp_int >= 0)
  <2>1. -exp_int \in Nat
    BY <1>2, <1>6
  <2>2. 2^(-exp_int) \in Nat \ {0}
    BY <2>1, PowersOfTwo
  <2>3. mantissa \div 2^(-exp_int) \in Int
    BY <1>3, <2>2
  <2> QED
    BY <1>4, <1>6, <2>3
<1> QED
  BY <1>5, <1>6

(* A reprice gives a price: the curve wraps at the width of a price.        *)
LEMMA RepriceType ==
    ASSUME NEW p_old \in Nat, NEW sales \in Nat, NEW available \in Nat
    PROVE  Reprice(p_old, sales, available) \in Nat
<1> DEFINE q == 2^QBits
           e == (sales * 2 * q) \div available - q
           w == Pow2Fixed(e)
           curve == ((p_old * w) \div q) % (MaxU64 + 1)
<1>1. q \in Nat \ {0} /\ MaxU64 \in Nat
  BY MathAssumption, PowersOfTwo
<1>2. available # 0 => curve \in Nat
  <2> SUFFICES ASSUME available # 0 PROVE curve \in Nat
    OBVIOUS
  <2>1. e \in Int
    <3> HIDE DEF q
    <3>1. sales * 2 * q \in Int
      BY <1>1
    <3>2. (sales * 2 * q) \div available \in Int
      BY <3>1
    <3> QED
      BY <1>1, <3>2
  <2>2. w \in Int
    <3> HIDE DEF e
    <3> QED
      BY <2>1, Pow2FixedType
  <2> HIDE DEF w, q
  <2>3. (p_old * w) \div q \in Int
    BY <1>1, <2>2
  <2> QED
    BY <1>1, <2>3
<1>3. p_old \div 2 \in Nat /\ SatMul(p_old, 2) \in Nat
  BY <1>1 DEF SatMul
<1>4. \/ Reprice(p_old, sales, available) \in {p_old, p_old \div 2, SatMul(p_old, 2)}
      \/ available # 0 /\ Reprice(p_old, sales, available) = curve
  BY Zenon DEF Reprice
<1> HIDE DEF curve
<1> QED
  BY <1>2, <1>3, <1>4

-----------------------------------------------------------------------------
(* Pricing tables.                                                         *)

PricingTable == [Periods -> PricingRows \cup {NoPricing}]

(* A seeded row is a row.                                                   *)
LEMMA SeededType ==
    ASSUME NEW price \in Nat, NEW height \in 0..MaxHeight
    PROVE  /\ Seeded(price, height) \in PricingRows
           /\ \A mints \in Nat :
                 [Seeded(price, height) EXCEPT !.mints = mints, !.window_open_mints = mints]
                    \in PricingRows
<1>1. price \div 16 \in Nat
  OBVIOUS
<1>2. Seeded(price, height) \in PricingRows
  BY <1>1 DEF Seeded, PricingRows
<1> QED
  BY <1>2 DEF PricingRows

(* The average of prices is a price.                                        *)
LEMMA PAverageType ==
    ASSUME NEW pricing \in PricingTable, NEW current \in Nat
    PROVE  ComputePAverage(pricing, current) \in Nat
<1> DEFINE last == current + FuturePeriods - 1
           priced == {p \in (current + 1)..last : p \in Periods /\ pricing[p] # NoPricing}
           price == [p \in Int |-> IF p \in priced THEN pricing[p].p_period ELSE 0]
           g == [u \in Nat \X Int |-> u[1] + price[u[2]]]
           isSum(f) == f = [p \in current..last |->
                              IF p = current THEN 0
                              ELSE f[p - 1] + (IF p \in priced THEN pricing[p].p_period ELSE 0)]
           sum == CHOOSE f : isSum(f)
<1>1. last \in Int /\ last >= current /\ GenesisPrice \in Nat
  BY DecisionsAssumption, MathAssumption
<1>2. ComputePAverage(pricing, current) =
        IF priced = {} THEN GenesisPrice ELSE sum[last] \div Cardinality(priced)
  BY Zenon DEF ComputePAverage
<1>3. priced \subseteq current..last /\ IsFiniteSet(priced)
  <2>1. IsFiniteSet((current + 1)..last)
    BY <1>1, FS_Interval
  <2> QED
    BY <1>1, <2>1, FS_Subset
<1>4. \A p \in Int : price[p] \in Nat /\ price[p] = IF p \in priced THEN pricing[p].p_period ELSE 0
  BY DEF PricingTable, PricingRows
<1> HIDE DEF last, priced, price
<1>5. sum \in [current..last -> Nat]
  <2>1. \A y \in Nat, k \in (current + 1)..last :
          g[<<y, k>>] = y + (IF k \in priced THEN pricing[k].p_period ELSE 0) /\ g[<<y, k>>] \in Nat
    BY <1>1, <1>4
  <2> HIDE DEF g
  <2>2. Loop!Recursion(current, last, Nat, 0, g)
    BY <1>1, <2>1 DEF Loop!Recursion
  <2>3. PICK f \in [current..last -> Nat] : Loop!Iterates(f, current, last, 0, g)
    BY <2>2, Loop!IteratesExist
  <2>4. isSum(f)
    <3> DEFINE e(p) == IF p = current THEN 0
                       ELSE f[p - 1] + (IF p \in priced THEN pricing[p].p_period ELSE 0)
    <3>1. ASSUME NEW p \in current..last PROVE f[p] = e(p)
      <4>1. f[p] = IF p = current THEN 0 ELSE g[<<f[p - 1], p>>]
        BY <2>3, Zenon DEF Loop!Iterates
      <4>2. p # current => f[p - 1] \in Nat /\ p \in (current + 1)..last
        BY <1>1, <2>3
      <4> QED
        BY <2>1, <4>1, <4>2, Zenon
    <3>2. f = [p \in current..last |-> e(p)]
      <4> HIDE DEF e
      <4> QED
        BY <2>3, <3>1
    <3> QED
      BY <3>2, Zenon
  <2>5. isSum(sum)
    <3> HIDE DEF isSum
    <3> QED
      BY <2>4, Zenon
  <2>6. /\ sum = [p \in current..last |-> sum[p]]
        /\ \A p \in current..last : sum[p] =
             IF p = current THEN 0
             ELSE sum[p - 1] + (IF p \in priced THEN pricing[p].p_period ELSE 0)
    <3> HIDE DEF sum
    <3> QED
      BY <2>5, Zenon
  <2> HIDE DEF sum
  <2>7. current \in current..last /\ \A k \in (current + 1)..last : k \in current..last /\ k # current
    BY <1>1
  <2>8. Loop!IteratesIn(sum, current, last, Nat, 0, g)
    BY <2>1, <2>6, <2>7, Zenon DEF Loop!IteratesIn
  <2> QED
    BY <2>2, <2>8, Loop!IteratesType
<1> HIDE DEF sum
<1>6. ASSUME priced # {} PROVE sum[last] \div Cardinality(priced) \in Nat
  <2>1. Cardinality(priced) \in Nat \ {0}
    BY <1>3, <1>6, FS_CardinalityType, FS_EmptySet
  <2>2. sum[last] \in Nat
    BY <1>1, <1>5
  <2> QED
    BY <2>1, <2>2
<1> QED
  BY <1>1, <1>2, <1>6

(* New periods are seeded with prices.                                      *)
LEMMA SeedType ==
    ASSUME NEW pricing \in PricingTable, NEW highest \in Nat, NEW target \in Periods,
           NEW current \in Nat, NEW height \in 0..MaxHeight,
           NEW p \in (highest + 1)..target
    PROVE  SeedPrices(pricing, highest, target, current, height)[p] \in Nat
<1> DEFINE row(t) == Seeded(ComputePAverage(t, current), height)
           g == [u \in PricingTable \X Int |-> [u[1] EXCEPT ![u[2]] = row(u[1])]]
           isTable(f) == f = [k \in highest..target |->
                                IF k = highest THEN pricing
                                ELSE [f[k - 1] EXCEPT ![k] = row(f[k - 1])]]
           table == CHOOSE f : isTable(f)
<1>1. target \in Int /\ highest \in Int /\ target =< MaxPeriod /\ MaxPeriod \in Nat
  BY DecisionsAssumption DEF Periods
<1>2. SeedPrices(pricing, highest, target, current, height)
        = [k \in (highest + 1)..target |-> table[k][k].p_period]
  BY Zenon DEF SeedPrices
<1>3. \A t \in PricingTable : row(t) \in PricingRows
  BY PAverageType, SeededType
<1> HIDE DEF row
<1>41. \A t \in PricingTable, k \in (highest + 1)..target :
         g[<<t, k>>] = [t EXCEPT ![k] = row(t)]
  <2>1. \A u \in PricingTable \X Int : g[u] = [u[1] EXCEPT ![u[2]] = row(u[1])]
    BY Zenon
  <2> HIDE DEF g
  <2> SUFFICES ASSUME NEW t \in PricingTable, NEW k \in (highest + 1)..target
               PROVE  g[<<t, k>>] = [t EXCEPT ![k] = row(t)]
    OBVIOUS
  <2>2. <<t, k>> \in PricingTable \X Int /\ <<t, k>>[1] = t /\ <<t, k>>[2] = k
    BY <1>1
  <2> QED
    BY <2>1, <2>2, Zenon
<1> HIDE DEF g
<1>42. ASSUME NEW t \in PricingTable, NEW k \in (highest + 1)..target
       PROVE  g[<<t, k>>] \in PricingTable /\ g[<<t, k>>][k] \in PricingRows
  <2>1. k \in Periods
    BY <1>1 DEF Periods
  <2>2. /\ [t EXCEPT ![k] = row(t)] \in PricingTable
        /\ [t EXCEPT ![k] = row(t)][k] \in PricingRows
    BY <1>3, <2>1 DEF PricingTable
  <2> QED
    BY <1>41, <2>2, Zenon
<1>4. \A t \in PricingTable, k \in (highest + 1)..target :
        /\ g[<<t, k>>] = [t EXCEPT ![k] = row(t)]
        /\ g[<<t, k>>] \in PricingTable
        /\ g[<<t, k>>][k] \in PricingRows
  BY <1>41, <1>42, Zenon
<1>5. Loop!Recursion(highest, target, PricingTable, pricing, g)
  BY <1>1, <1>4 DEF Loop!Recursion
<1>6. PICK f \in [highest..target -> PricingTable] : Loop!Iterates(f, highest, target, pricing, g)
  BY <1>5, Loop!IteratesExist
<1>7. isTable(f)
  <2> DEFINE e(k) == IF k = highest THEN pricing ELSE [f[k - 1] EXCEPT ![k] = row(f[k - 1])]
  <2>1. ASSUME NEW k \in highest..target PROVE f[k] = e(k)
    <3>1. f[k] = IF k = highest THEN pricing ELSE g[<<f[k - 1], k>>]
      BY <1>6, Zenon DEF Loop!Iterates
    <3>2. k # highest => f[k - 1] \in PricingTable /\ k \in (highest + 1)..target
      BY <1>1, <1>6
    <3> QED
      BY <1>4, <3>1, <3>2, Zenon
  <2>2. f = [k \in highest..target |-> e(k)]
    <3> HIDE DEF e
    <3> QED
      BY <1>6, <2>1
  <2> QED
    BY <2>2, Zenon
<1>8. isTable(table)
  <2> HIDE DEF isTable
  <2> QED
    BY <1>7, Zenon
<1>9. /\ table = [k \in highest..target |-> table[k]]
      /\ \A k \in highest..target :
            table[k] = IF k = highest THEN pricing
                       ELSE [table[k - 1] EXCEPT ![k] = row(table[k - 1])]
  <2> HIDE DEF table
  <2> QED
    BY <1>8, Zenon
<1> HIDE DEF table
<1>10. /\ highest =< target => highest \in highest..target
       /\ \A k \in (highest + 1)..target : k \in highest..target /\ k # highest
  BY <1>1
<1>11. Loop!IteratesIn(table, highest, target, PricingTable, pricing, g)
  BY <1>4, <1>9, <1>10, Zenon DEF Loop!IteratesIn
<1>12. table \in [highest..target -> PricingTable]
  BY <1>5, <1>11, Loop!IteratesType
<1>13. p - 1 \in highest..target
  BY <1>1
<1>14. table[p - 1] \in PricingTable /\ table[p] = g[<<table[p - 1], p>>]
  BY <1>11, <1>12, <1>13 DEF Loop!IteratesIn
<1>15. table[p][p] \in PricingRows
  BY <1>4, <1>14
<1>16. table[p][p].p_period \in Nat
  BY <1>15 DEF PricingRows
<1> QED
  BY <1>2, <1>16

-----------------------------------------------------------------------------
(* The accounts of a set of claims c in a pricing table t.                 *)

(* The counter of every priced period counts its standard claims, those of *)
(* its window among them, and every standard claim has an unlocked slot.   *)
Accounts(c, t) ==
    /\ t \in PricingTable
    /\ \A p \in Periods : t[p] # NoPricing =>
          /\ t[p].claimed = Cardinality(StandardIn(c, p))
          /\ t[p].window_open_claimed =< t[p].claimed
    /\ \A d \in c : d.is_standard =>
          /\ t[d.period_index] # NoPricing
          /\ SlotUnlocked(d.decision_index, t[d.period_index].mints)

(* Row s is row r repriced, perhaps after further mints.                    *)
Repriced(r, s) ==
    /\ s \in PricingRows
    /\ s.claimed = r.claimed
    /\ s.mints >= r.mints
    /\ r.window_open_claimed =< r.claimed => s.window_open_claimed =< s.claimed

(* A row without claims.                                                    *)
Fresh(s) == s \in PricingRows /\ s.claimed = 0 /\ s.window_open_claimed = 0

(* Slots stay unlocked when more are minted.                                *)
LEMMA UnlockedStays ==
    ASSUME NEW index \in Nat, NEW m \in Nat, NEW n \in Nat, m =< n, SlotUnlocked(index, m)
    PROVE  SlotUnlocked(index, n)
<1> DEFINE pos == PositionInTier(index)
<1>1. SlotsPerMint \in Nat /\ SlotsPerTier \in Nat \ {0}
  BY MathAssumption
<1>2. pos \in Nat
  BY <1>1 DEF PositionInTier
<1> HIDE DEF pos
<1>3. \A a \in Nat : m * a =< n * a
  OBVIOUS
<1>4. m * SlotsPerMint \in Nat /\ n * SlotsPerMint \in Nat /\ m * SlotsPerMint =< n * SlotsPerMint
  BY <1>1, <1>3
<1>5. pos < m * SlotsPerMint => pos < n * SlotsPerMint
  BY <1>2, <1>4
<1> QED
  BY <1>5 DEF SlotUnlocked, pos

(* A reprice changes the price and opens a new window.                      *)
LEMMA ApplyRepriceRow ==
    ASSUME NEW r \in PricingRows, NEW height \in 0..MaxHeight, NEW k \in Nat
    PROVE  /\ Repriced(r, ApplyReprice(r, height))
           /\ Repriced(r, ApplyReprice([r EXCEPT !.mints = @ + k], height))
<1>1. ASSUME NEW s \in PricingRows,
             s.claimed = r.claimed, s.mints >= r.mints,
             s.window_open_claimed = r.window_open_claimed
      PROVE  Repriced(r, ApplyReprice(s, height))
  <2> DEFINE sales == SatSub(s.claimed, s.window_open_claimed)
             cap == PeriodCapacity(s.window_open_mints)
             available == SatSub(cap, s.window_open_claimed)
             new_p == Reprice(s.p_period, sales, available)
             price == IF new_p < s.p_floor THEN s.p_floor ELSE new_p
             next == [s EXCEPT !.p_period = price, !.last_reprice_block = height,
                               !.window_open_claimed = s.claimed, !.window_open_mints = s.mints]
  <2>1. /\ s.claimed \in Nat /\ s.window_open_claimed \in Nat /\ s.window_open_mints \in Nat
        /\ s.p_period \in Nat /\ s.p_floor \in Nat /\ s.mints \in Nat
    BY DEF PricingRows
  <2>2. cap \in Nat
    <3>1. SlotsPerMint \in Nat /\ TierCount \in Nat
      BY MathAssumption
    <3> QED
      BY <2>1, <3>1 DEF PeriodCapacity
  <2> HIDE DEF cap
  <2>3. sales \in Nat /\ available \in Nat
    BY <2>1, <2>2 DEF SatSub
  <2> HIDE DEF sales, available
  <2>4. new_p \in Nat
    BY <2>1, <2>3, RepriceType
  <2> HIDE DEF new_p
  <2>5. price \in Nat
    BY <2>1, <2>4
  <2>6. ApplyReprice(s, height) = IF s.last_reprice_block = height THEN s ELSE next
    BY Zenon DEF ApplyReprice, sales, available, new_p, cap
  <2> HIDE DEF price
  <2>7. /\ next \in PricingRows /\ next.claimed = s.claimed /\ next.mints = s.mints
        /\ next.window_open_claimed = s.claimed
    BY <2>1, <2>5 DEF PricingRows
  <2> HIDE DEF next
  <2>8. Repriced(r, s) /\ Repriced(r, next)
    BY <1>1, <2>1, <2>7 DEF Repriced
  <2> QED
    BY <2>6, <2>8
<1>2. r.mints \in Nat
  BY DEF PricingRows
<1> DEFINE s == [r EXCEPT !.mints = @ + k]
<1>3. /\ s \in PricingRows /\ s.claimed = r.claimed /\ s.mints >= r.mints
      /\ s.window_open_claimed = r.window_open_claimed
  BY <1>2 DEF PricingRows
<1>4. r.mints >= r.mints
  BY <1>2
<1> HIDE DEF s
<1>5. Repriced(r, ApplyReprice(s, height))
  BY <1>1, <1>3
<1>6. Repriced(r, ApplyReprice(r, height))
  BY <1>1, <1>4
<1> QED
  BY <1>5, <1>6 DEF s

(* Repricing rows and adding rows where nothing is claimed keep accounts.   *)
LEMMA AccountsRepriced ==
    ASSUME NEW c \in SUBSET DecisionIds, NEW t, Accounts(c, t), NEW u,
           u = [p \in Periods |-> u[p]],
           \A p \in Periods : \/ u[p] = t[p]
                              \/ t[p] # NoPricing /\ Repriced(t[p], u[p])
                              \/ Fresh(u[p]) /\ StandardIn(c, p) = {}
    PROVE  Accounts(c, u)
<1>1. /\ NoPricing \notin PricingRows
      /\ \A d \in c : d.period_index \in Periods /\ d.decision_index \in Nat
  BY DecisionsAssumption
<1>2. t \in PricingTable /\ \A p \in Periods : t[p] \in PricingRows \cup {NoPricing}
  BY DEF Accounts, PricingTable
<1>3. ASSUME NEW p \in Periods
      PROVE  /\ u[p] \in PricingRows \cup {NoPricing}
             /\ u[p] # NoPricing =>
                   /\ u[p].claimed = Cardinality(StandardIn(c, p))
                   /\ u[p].window_open_claimed =< u[p].claimed
             /\ StandardIn(c, p) # {} /\ t[p] # NoPricing =>
                   u[p] # NoPricing /\ u[p].mints >= t[p].mints /\ u[p].mints \in Nat
  <2>1. CASE u[p] = t[p]
    <3>1. t[p] # NoPricing => t[p].mints \in Nat /\ t[p].mints >= t[p].mints
      BY <1>2 DEF PricingRows
    <3> QED
      BY <1>2, <2>1, <3>1 DEF Accounts
  <2>2. CASE t[p] # NoPricing /\ Repriced(t[p], u[p])
    BY <1>1, <1>2, <2>2 DEF Repriced, Accounts, PricingRows
  <2>3. CASE Fresh(u[p]) /\ StandardIn(c, p) = {}
    <3>1. u[p].claimed = Cardinality(StandardIn(c, p))
      BY <2>3, FS_EmptySet DEF Fresh
    <3> QED
      BY <1>1, <2>3, <3>1 DEF Fresh
  <2> QED
    BY <2>1, <2>2, <2>3
<1>4. u \in PricingTable
  BY <1>3 DEF PricingTable
<1>5. ASSUME NEW d \in c, d.is_standard
      PROVE  /\ u[d.period_index] # NoPricing
             /\ SlotUnlocked(d.decision_index, u[d.period_index].mints)
  <2> DEFINE p == d.period_index
  <2>1. p \in Periods /\ d.decision_index \in Nat /\ d \in StandardIn(c, p)
    BY <1>1, <1>5 DEF StandardIn
  <2>2. t[p] # NoPricing /\ SlotUnlocked(d.decision_index, t[p].mints) /\ t[p].mints \in Nat
    BY <1>2, <1>5, <2>1 DEF Accounts, PricingRows
  <2>3. u[p] # NoPricing /\ u[p].mints >= t[p].mints /\ u[p].mints \in Nat
    BY <1>3, <2>1, <2>2
  <2> HIDE DEF p
  <2>4. SlotUnlocked(d.decision_index, u[p].mints)
    BY <2>1, <2>2, <2>3, UnlockedStays
  <2> QED
    BY <2>3, <2>4 DEF p
<1> QED
  BY <1>3, <1>4, <1>5 DEF Accounts

(* Claims of free, unlocked slots are added to the counters.                *)
LEMMA AccountsClaimed ==
    ASSUME NEW c \in SUBSET DecisionIds, NEW t, Accounts(c, t),
           NEW claims \in SUBSET DecisionIds, claims \cap c = {},
           \A d \in claims : d.is_standard =>
              /\ t[d.period_index] # NoPricing
              /\ SlotUnlocked(d.decision_index, t[d.period_index].mints)
    PROVE  Accounts(c \cup claims, ClaimPricing(t, claims))
<1> DEFINE u == ClaimPricing(t, claims)
           all == c \cup claims
           n(p) == Cardinality(StandardIn(claims, p))
           next(p) == [t[p] EXCEPT !.claimed = @ + n(p)]
<1>1. /\ IsFiniteSet(DecisionIds) /\ NoPricing \notin PricingRows
      /\ \A d \in all : d.period_index \in Periods
  BY DecisionsAssumption
<1>2. \A p \in Periods : t[p] \in PricingRows \cup {NoPricing}
  BY DEF Accounts, PricingTable
<1>3. u = [p \in Periods |-> IF StandardIn(claims, p) = {} THEN t[p] ELSE next(p)]
  BY DEF ClaimPricing
<1>4. ASSUME NEW p \in Periods
      PROVE  /\ IsFiniteSet(StandardIn(c, p)) /\ IsFiniteSet(StandardIn(claims, p))
             /\ n(p) \in Nat
             /\ Cardinality(StandardIn(all, p)) = Cardinality(StandardIn(c, p)) + n(p)
             /\ Cardinality(StandardIn(c, p)) \in Nat
             /\ StandardIn(claims, p) = {} => n(p) = 0
  <2>1. StandardIn(c, p) \subseteq DecisionIds /\ StandardIn(claims, p) \subseteq DecisionIds
    BY DEF StandardIn
  <2>2. IsFiniteSet(StandardIn(c, p)) /\ IsFiniteSet(StandardIn(claims, p))
    BY <1>1, <2>1, FS_Subset
  <2>3. /\ StandardIn(all, p) = StandardIn(c, p) \cup StandardIn(claims, p)
        /\ StandardIn(c, p) \cap StandardIn(claims, p) = {}
    BY DEF StandardIn
  <2>4. n(p) \in Nat /\ Cardinality(StandardIn(c, p)) \in Nat /\ Cardinality({}) = 0
    BY <2>2, FS_CardinalityType, FS_EmptySet
  <2>5. Cardinality(StandardIn(c, p) \cup StandardIn(claims, p))
          = Cardinality(StandardIn(c, p)) + n(p) - Cardinality(StandardIn(c, p) \cap StandardIn(claims, p))
    BY <2>2, FS_Union
  <2>6. Cardinality(StandardIn(c, p) \cup StandardIn(claims, p)) = Cardinality(StandardIn(c, p)) + n(p)
    <3>1. Cardinality(StandardIn(c, p) \cap StandardIn(claims, p)) = 0
      BY <2>3, <2>4, Zenon
    <3>2. \A a, b, e, z \in Nat : e = 0 => a + b - e = a + b
      OBVIOUS
    <3> HIDE DEF n
    <3> QED
      BY <2>4, <2>5, <3>1, <3>2
  <2>7. StandardIn(claims, p) = {} => n(p) = 0
    BY <2>4
  <2> QED
    BY <2>2, <2>3, <2>4, <2>6, <2>7
<1>5. ASSUME NEW p \in Periods, StandardIn(claims, p) # {}
      PROVE  t[p] # NoPricing
  <2>1. PICK d \in claims : d.is_standard /\ d.period_index = p
    BY <1>5 DEF StandardIn
  <2> QED
    BY <2>1
<1> HIDE DEF n
<1>6. ASSUME NEW p \in Periods, t[p] # NoPricing
      PROVE  /\ u[p] \in PricingRows /\ u[p] # NoPricing
             /\ u[p].claimed = t[p].claimed + n(p)
             /\ u[p].mints = t[p].mints
             /\ u[p].window_open_claimed = t[p].window_open_claimed
  <2>1. t[p] \in PricingRows /\ t[p].claimed \in Nat
    BY <1>2, <1>6 DEF PricingRows
  <2>2. CASE StandardIn(claims, p) = {}
    <3>1. u[p] = t[p] /\ n(p) = 0
      BY <1>3, <1>4, <2>2
    <3> QED
      BY <1>1, <2>1, <3>1
  <2>3. CASE StandardIn(claims, p) # {}
    <3>1. u[p] = next(p) /\ n(p) \in Nat
      BY <1>3, <1>4, <2>3
    <3>2. /\ next(p) \in PricingRows /\ next(p).claimed = t[p].claimed + n(p)
          /\ next(p).mints = t[p].mints
          /\ next(p).window_open_claimed = t[p].window_open_claimed
      BY <2>1, <3>1 DEF PricingRows
    <3> HIDE DEF next
    <3> QED
      BY <1>1, <3>1, <3>2
  <2> QED
    BY <2>2, <2>3
<1>7. \A p \in Periods : t[p] = NoPricing => u[p] = NoPricing
  BY <1>3, <1>5
<1>8. u = [p \in Periods |-> u[p]]
  BY <1>3
<1> HIDE DEF u
<1>9. u \in PricingTable
  <2>1. \A p \in Periods : u[p] \in PricingRows \cup {NoPricing}
    BY <1>6, <1>7
  <2> QED
    BY <1>8, <2>1 DEF PricingTable
<1>10. ASSUME NEW p \in Periods, u[p] # NoPricing
       PROVE  /\ u[p].claimed = Cardinality(StandardIn(all, p))
              /\ u[p].window_open_claimed =< u[p].claimed
  <2>1. t[p] # NoPricing
    BY <1>7, <1>10
  <2>2. t[p].claimed = Cardinality(StandardIn(c, p)) /\ t[p].window_open_claimed =< t[p].claimed
        /\ t[p].window_open_claimed \in Nat
    BY <1>2, <2>1 DEF Accounts, PricingRows
  <2>3. /\ u[p].claimed = t[p].claimed + n(p)
        /\ u[p].window_open_claimed = t[p].window_open_claimed
    BY <1>6, <2>1
  <2>4. /\ Cardinality(StandardIn(all, p)) = Cardinality(StandardIn(c, p)) + n(p)
        /\ Cardinality(StandardIn(c, p)) \in Nat /\ n(p) \in Nat
    BY <1>4
  <2> HIDE DEF all
  <2>5. \A a, b, w \in Nat : w =< a => w =< a + b
    OBVIOUS
  <2> QED
    BY <2>2, <2>3, <2>4, <2>5
<1>11. ASSUME NEW d \in all, d.is_standard
       PROVE  /\ u[d.period_index] # NoPricing
              /\ SlotUnlocked(d.decision_index, u[d.period_index].mints)
  <2>1. /\ t[d.period_index] # NoPricing
        /\ SlotUnlocked(d.decision_index, t[d.period_index].mints)
    BY <1>11 DEF Accounts
  <2>2. d.period_index \in Periods
    BY <1>1
  <2> QED
    BY <1>6, <2>1, <2>2
<1>12. Accounts(all, u)
  BY <1>9, <1>10, <1>11 DEF Accounts
<1> QED
  BY <1>12 DEF u

(* The rows of the window are priced at genesis.                            *)
LEMMA AccountsGenesis ==
    ASSUME NEW c \in SUBSET DecisionIds, NEW t, Accounts(c, t), NEW current \in Nat
    PROVE  Accounts(c, MintGenesis(t, current, 0))
<1> DEFINE u == MintGenesis(t, current, 0)
           row(p) == GenesisPricing(SatSub(FuturePeriods, p - current), 0)
<1>0. FuturePeriods \in Nat /\ GenesisPrice \in Nat /\ MaxHeight \in Nat /\ MaxPeriod \in Nat
  BY DecisionsAssumption, MathAssumption
<1>1. \A p \in Periods :
        \/ u[p] = t[p]
        \/ p >= current /\ t[p] = NoPricing /\ u[p] = row(p)
  BY DEF MintGenesis
<1>2. u = [p \in Periods |-> u[p]]
  BY DEF MintGenesis
<1>3. ASSUME NEW p \in Periods, p >= current PROVE Fresh(row(p))
  <2> DEFINE mints == SatSub(FuturePeriods, p - current)
  <2>1. mints \in Nat
    BY <1>0, <1>3 DEF SatSub, Periods
  <2> HIDE DEF mints
  <2>2. GenesisPricing(mints, 0) \in PricingRows
    <3>1. 0 \in 0..MaxHeight /\ GenesisPrice \in Nat
      BY <1>0
    <3> QED
      BY <2>1, <3>1, SeededType, Zenon DEF GenesisPricing
  <2>3. GenesisPricing(mints, 0).claimed = 0 /\ GenesisPricing(mints, 0).window_open_claimed = 0
    BY DEF GenesisPricing, Seeded
  <2> QED
    BY <2>2, <2>3 DEF Fresh, mints
<1>4. \A p \in Periods : t[p] = NoPricing => StandardIn(c, p) = {}
  BY DEF Accounts, StandardIn
<1> HIDE DEF u, row
<1>5. \A p \in Periods : \/ u[p] = t[p]
                         \/ t[p] # NoPricing /\ Repriced(t[p], u[p])
                         \/ Fresh(u[p]) /\ StandardIn(c, p) = {}
  BY <1>1, <1>3, <1>4
<1>6. Accounts(c, u)
  BY <1>2, <1>5, AccountsRepriced
<1> QED
  BY <1>6 DEF u

(* process_block_pricing keeps the accounts if no claim lies above the      *)
(* highest minted period.                                                   *)
LEMMA AccountsPriced ==
    ASSUME NEW c \in SUBSET DecisionIds, NEW t, Accounts(c, t),
           NEW keys \in SUBSET Periods, \A d \in c : d.period_index \in keys,
           NEW current \in Nat, current + FuturePeriods - 1 =< MaxPeriod,
           NEW height \in 0..MaxHeight
    PROVE  Accounts(c, ProcessBlockPricing(keys, t, current, height))
<1> DEFINE highest == HighestMinted(keys)
           target == current + FuturePeriods - 1
           prev == SatSub(highest + 1, FuturePeriods)
           moved == PriceTransition(t, highest, current, height)
           window == PriceWindow(t, current, height)
           seed == SeedPrices(t, highest, target, current, height)
<1>1. FuturePeriods \in Nat \ {0} /\ MaxPeriod \in Nat
  BY DecisionsAssumption
<1>2. highest \in Nat /\ \A q \in keys : q =< highest
  <2>1. highest \in Periods /\ \A q \in keys : q =< highest
    BY HighestMintedBounds
  <2> QED
    BY <2>1 DEF Periods
<1>3. t \in PricingTable /\ \A p \in Periods : t[p] # NoPricing => t[p] \in PricingRows
  BY DEF Accounts, PricingTable
<1>4. prev \in Nat /\ target \in Periods
  <2> HIDE DEF highest
  <2> QED
    BY <1>1, <1>2 DEF SatSub, Periods
<1> HIDE DEF highest, prev
<1>5. ASSUME current > prev PROVE Accounts(c, moved)
  <2>1. \A p \in Periods :
          \/ moved[p] = t[p]
          \/ p > highest /\ p =< target /\ moved[p] = Seeded(seed[p], height)
          \/ /\ t[p] # NoPricing
             /\ moved[p] = ApplyReprice([t[p] EXCEPT !.mints = @ + (current - prev)], height)
    BY Zenon DEF PriceTransition, prev
  <2>2. moved = [p \in Periods |-> moved[p]]
    BY Zenon DEF PriceTransition
  <2> HIDE DEF moved, target
  <2>3. ASSUME NEW p \in Periods, p > highest, p =< target
        PROVE  Fresh(Seeded(seed[p], height)) /\ StandardIn(c, p) = {}
    <3>1. p \in (highest + 1)..target
      BY <1>2, <1>4, <2>3 DEF Periods
    <3>2. seed[p] \in Nat
      BY <1>2, <1>3, <1>4, <3>1, SeedType
    <3> HIDE DEF seed
    <3>3. Seeded(seed[p], height) \in PricingRows
      BY <3>2, SeededType
    <3>4. Fresh(Seeded(seed[p], height))
      BY <3>3 DEF Fresh, Seeded
    <3>5. \A d \in c : d.period_index # p
      BY <1>2, <2>3, <3>1
    <3> QED
      BY <3>4, <3>5 DEF StandardIn
  <2>4. current - prev \in Nat
    BY <1>4, <1>5
  <2>5. \A p \in Periods : t[p] # NoPricing =>
          Repriced(t[p], ApplyReprice([t[p] EXCEPT !.mints = @ + (current - prev)], height))
    BY <1>3, <2>4, ApplyRepriceRow
  <2> HIDE DEF seed
  <2>6. \A p \in Periods : \/ moved[p] = t[p]
                           \/ t[p] # NoPricing /\ Repriced(t[p], moved[p])
                           \/ Fresh(moved[p]) /\ StandardIn(c, p) = {}
    BY <2>1, <2>3, <2>5, Zenon
  <2> QED
    BY <2>2, <2>6, AccountsRepriced
<1>6. Accounts(c, window)
  <2>1. \A p \in Periods :
          \/ window[p] = t[p]
          \/ t[p] # NoPricing /\ window[p] = ApplyReprice(t[p], height)
    BY DEF PriceWindow
  <2>2. window = [p \in Periods |-> window[p]]
    BY Zenon DEF PriceWindow
  <2> HIDE DEF window
  <2>3. \A p \in Periods : t[p] # NoPricing => Repriced(t[p], ApplyReprice(t[p], height))
    <3>1. 0 \in Nat
      OBVIOUS
    <3> QED
      BY <1>3, <3>1, ApplyRepriceRow
  <2>4. \A p \in Periods : \/ window[p] = t[p]
                           \/ t[p] # NoPricing /\ Repriced(t[p], window[p])
                           \/ Fresh(window[p]) /\ StandardIn(c, p) = {}
    BY <2>1, <2>3, Zenon
  <2> QED
    BY <2>2, <2>4, AccountsRepriced
<1>7. ProcessBlockPricing(keys, t, current, height) = IF current > prev THEN moved ELSE window
  BY Zenon DEF ProcessBlockPricing, highest, prev
<1> HIDE DEF moved, window
<1> QED
  BY <1>5, <1>6, <1>7

(* No more slots of a period are claimed than its mints unlocked: a slot is *)
(* a tier and a position in it.                                             *)
LEMMA AccountsCapacity ==
    ASSUME NEW c \in SUBSET DecisionIds, NEW t, Accounts(c, t),
           NEW p \in Periods, t[p] # NoPricing
    PROVE  t[p].claimed =< PeriodCapacity(t[p].mints)
<1> DEFINE S == StandardIn(c, p)
           k == t[p].mints * SlotsPerMint
           T == (0..(TierCount - 1)) \X (0..(k - 1))
           f == [d \in S |-> <<TierForIndex(d.decision_index), PositionInTier(d.decision_index)>>]
<1>1. /\ TierCount \in Nat \ {0} /\ SlotsPerMint \in Nat \ {0} /\ SlotsPerTier \in Nat \ {0}
      /\ t[p].mints \in Nat /\ t[p].claimed = Cardinality(S)
  BY MathAssumption DEF Accounts, PricingTable, PricingRows
<1>2. k \in Nat
  BY <1>1
<1> HIDE DEF k
<1>3. IsFiniteSet(T) /\ Cardinality(T) = TierCount * k
  <2>1. /\ IsFiniteSet(0..(TierCount - 1)) /\ Cardinality(0..(TierCount - 1)) = TierCount
        /\ IsFiniteSet(0..(k - 1)) /\ Cardinality(0..(k - 1)) = k
    <3>1. /\ IsFiniteSet(0..(TierCount - 1))
          /\ Cardinality(0..(TierCount - 1)) = IF 0 > TierCount - 1 THEN 0 ELSE TierCount - 1 - 0 + 1
      <4>1. 0 \in Int /\ TierCount - 1 \in Int
        BY <1>1
      <4> QED
        BY <4>1, FS_Interval, Zenon
    <3>2. /\ IsFiniteSet(0..(k - 1))
          /\ Cardinality(0..(k - 1)) = IF 0 > k - 1 THEN 0 ELSE k - 1 - 0 + 1
      BY <1>2, FS_Interval
    <3> QED
      BY <1>1, <1>2, <3>1, <3>2
  <2> QED
    BY ZenonT(60), <2>1, FS_Product
<1>4. \A d \in S : d \in [is_standard : BOOLEAN, period_index : Periods, decision_index : Nat]
                   /\ d.is_standard = TRUE /\ d.period_index = p
  BY DecisionsAssumption DEF StandardIn
<1>5. \A i \in Nat : /\ TierForIndex(i) \in Nat /\ PositionInTier(i) \in Nat
                     /\ i = SlotsPerTier * TierForIndex(i) + PositionInTier(i)
                     /\ i < SlotsPerPeriodMax => TierForIndex(i) < TierCount
  <2> SUFFICES ASSUME NEW i \in Nat
               PROVE  /\ TierForIndex(i) \in Nat /\ PositionInTier(i) \in Nat
                      /\ i = SlotsPerTier * TierForIndex(i) + PositionInTier(i)
                      /\ i < SlotsPerPeriodMax => TierForIndex(i) < TierCount
    OBVIOUS
  <2> DEFINE q == i \div SlotsPerTier
             r == i % SlotsPerTier
  <2>1. q \in Nat /\ r \in Nat
    BY <1>1
  <2>2. i = SlotsPerTier * q + r
    BY <1>1
  <2> HIDE DEF q, r
  <2>3. q >= TierCount => SlotsPerTier * q >= SlotsPerTier * TierCount
    BY <1>1, <2>1
  <2>4. i < SlotsPerTier * TierCount => q < TierCount
    BY <1>1, <2>1, <2>2, <2>3
  <2> QED
    BY <2>1, <2>2, <2>4 DEF q, r, TierForIndex, PositionInTier, SlotsPerPeriodMax
<1>6. ASSUME NEW d \in S PROVE f[d] \in T
  <2>1. d.decision_index \in Nat /\ SlotUnlocked(d.decision_index, t[p].mints)
    BY <1>4 DEF Accounts, StandardIn
  <2>2. d.decision_index < SlotsPerPeriodMax /\ PositionInTier(d.decision_index) < k
    BY <2>1 DEF SlotUnlocked, k
  <2>3. /\ TierForIndex(d.decision_index) \in 0..(TierCount - 1)
        /\ PositionInTier(d.decision_index) \in 0..(k - 1)
    BY <1>1, <1>2, <1>5, <2>1, <2>2
  <2> QED
    BY <2>3
<1>7. ASSUME NEW d \in S, NEW e \in S, f[d] = f[e] PROVE d = e
  <2>1. /\ TierForIndex(d.decision_index) = TierForIndex(e.decision_index)
        /\ PositionInTier(d.decision_index) = PositionInTier(e.decision_index)
    BY <1>7
  <2>2. d.decision_index = e.decision_index
    BY <1>4, <1>5, <2>1
  <2> QED
    BY <1>4, <2>2
<1>8. f \in [S -> T] /\ DOMAIN f = S
  BY <1>6
<1> HIDE DEF f, S, T
<1>9. f \in Injection(S, T)
  BY <1>7, <1>8 DEF Injection, IsInjective
<1>10. Cardinality(S) <= Cardinality(T)
  BY <1>3, <1>9, FS_Injection
<1>11. TierCount * k = PeriodCapacity(t[p].mints)
  BY <1>1 DEF PeriodCapacity, k
<1> QED
  BY <1>1, <1>3, <1>10, <1>11

-----------------------------------------------------------------------------
(* The accounts of the registry, and of what every connected block found:  *)
(* that is what a disconnect brings back.                                  *)

AInv ==
    /\ UInv
    /\ scope \in Scopes
    /\ Len(chain) =< MaxHeight + 1
    /\ genesis_timestamp \in Timestamps \cup {0}
    /\ mainchain_timestamp \in Timestamps \cup {0}
    /\ Accounts(claimed, period_pricing)
    /\ \A i \in 1..Len(chain) : Accounts(before[i][1], before[i][3])

(* Nothing is claimed and nothing is priced.                                *)
LEMMA InitAInv == Init => AInv
<1> SUFFICES ASSUME Init PROVE AInv
  OBVIOUS
<1>1. UInv
  BY InitUInv
<1>2. /\ claimed = {} /\ period_pricing = [p \in Periods |-> NoPricing] /\ chain = <<>>
      /\ scope \in Scopes /\ genesis_timestamp = 0 /\ mainchain_timestamp = 0
  BY DEF Init
<1>3. Accounts(claimed, period_pricing)
  BY <1>2 DEF Accounts, PricingTable
<1>4. Len(chain) = 0 /\ MaxHeight \in Nat
  BY <1>2, DecisionsAssumption
<1> QED
  BY <1>1, <1>2, <1>3, <1>4 DEF AInv

(* What a connected block finds is written down, and nothing else changes   *)
(* in the record.                                                           *)
LEMMA ConnectRecords ==
    ASSUME UInv, NEW ts \in Timestamps, NEW claims \in SUBSET DecisionIds,
           ConnectBlock(ts, claims)
    PROVE  /\ Len(chain') = Len(chain) + 1
           /\ \A i \in 1..Len(chain) : before'[i] = before[i]
           /\ before'[Len(chain) + 1] = registry
<1> DEFINE block == [ts |-> ts, claims |-> claims]
<1>1. chain' = Append(chain, block) /\ before' = Append(before, registry)
  BY DEF ConnectBlock
<1>2. block \in [ts : Timestamps, claims : SUBSET DecisionIds]
  OBVIOUS
<1> HIDE DEF block
<1>3. Len(chain') = Len(chain) + 1
  BY <1>1, <1>2, Loop!AppendFacts DEF UInv, IInv, WellTyped
<1>4. PICK S : before \in Seq(S)
  BY DEF UInv
<1> DEFINE R == S \cup {registry}
<1>5. before \in Seq(R) /\ registry \in R /\ Len(before) = Len(chain)
  BY <1>4 DEF UInv
<1> HIDE DEF R
<1> QED
  BY <1>1, <1>3, <1>5, Loop!AppendFacts

(* Connecting a block adds its claims to the accounts and reprices.         *)
LEMMA ConnectAInv ==
    ASSUME AInv, NEW ts \in Timestamps, NEW claims \in SUBSET DecisionIds,
           ConnectBlock(ts, claims)
    PROVE  AInv'
<1> DEFINE n       == Len(chain)
           genesis == IF n = 0 THEN ts ELSE genesis_timestamp
           current == GetCurrentPeriod(ts, n, genesis)
           keys    == period_keys \cup {d.period_index : d \in claims}
           priced  == ClaimPricing(period_pricing, claims)
           all     == claimed \cup claims
<1>1. /\ n =< scope.height
      /\ current + FuturePeriods - 1 =< MaxPeriod
      /\ n = 0 => claims = {}
      /\ \A d \in claims : ValidClaim(d)
      /\ genesis_timestamp' = genesis
      /\ mainchain_timestamp' = ts
      /\ scope' = scope
      /\ claimed' = all
      /\ period_pricing' = IF n = 0 THEN MintGenesis(priced, current, n)
                           ELSE ProcessBlockPricing(keys, priced, current, n)
  BY DEF ConnectBlock
<1>2. UInv' /\ UInv /\ IInv
  BY ConnectUInv DEF AInv, UInv
<1>3. /\ n \in Nat /\ genesis_timestamp \in Nat /\ claimed \subseteq DecisionIds
      /\ period_keys \subseteq Periods
  BY <1>2 DEF IInv, WellTyped
<1>4. ts \in Nat /\ genesis \in Nat /\ genesis \in Timestamps \cup {0}
  BY <1>3, DecisionsAssumption DEF AInv
<1> HIDE DEF genesis
<1>5. current \in Nat
  BY <1>3, <1>4, CurrentPeriodNat
<1>6. n \in 0..MaxHeight /\ MaxHeight \in Nat
  <2>1. scope \in Scope
    BY DecisionsAssumption DEF AInv
  <2>2. scope.height \in 0..MaxHeight /\ MaxHeight \in Nat
    BY <2>1, DecisionsAssumption DEF Scope
  <2> HIDE DEF n
  <2> QED
    BY <1>1, <1>3, <2>2
<1>7. Accounts(all, priced)
  <2>1. claims \cap claimed = {}
    BY <1>1 DEF ValidClaim, ClaimValidIn
  <2>2. \A d \in claims : d.is_standard =>
           /\ period_pricing[d.period_index] # NoPricing
           /\ SlotUnlocked(d.decision_index, period_pricing[d.period_index].mints)
    BY <1>1 DEF ValidClaim, ClaimValidIn
  <2> QED
    BY <1>3, <2>1, <2>2, AccountsClaimed DEF AInv
<1>8. keys \in SUBSET Periods /\ \A d \in all : d.period_index \in keys
  <2>1. \A d \in claims : d.period_index \in Periods
    BY DecisionsAssumption
  <2> QED
    BY <1>2, <1>3, <2>1 DEF IInv
<1>9. all \in SUBSET DecisionIds
  BY <1>3
<1> HIDE DEF current, keys, priced, all
<1>10. Accounts(claimed', period_pricing')
  <2>1. n = 0 => Accounts(all, MintGenesis(priced, current, n))
    <3> HIDE DEF n
    <3> QED
      BY <1>5, <1>7, <1>9, AccountsGenesis
  <2>2. Accounts(all, ProcessBlockPricing(keys, priced, current, n))
    <3> HIDE DEF n
    <3> QED
      BY <1>1, <1>5, <1>6, <1>7, <1>8, <1>9, AccountsPriced
  <2> QED
    BY <1>1, <2>1, <2>2
<1>11. /\ Len(chain') = n + 1
       /\ \A i \in 1..n : before'[i] = before[i]
       /\ before'[n + 1] = registry
  BY <1>2, ConnectRecords
<1>12. \A i \in 1..Len(chain') : Accounts(before'[i][1], before'[i][3])
  <2>1. registry[1] = claimed /\ registry[3] = period_pricing
    BY DEF registry
  <2>2. \A i \in 1..(n + 1) : i \in 1..n \/ i = n + 1
    BY <1>3
  <2> QED
    BY <1>11, <2>1, <2>2 DEF AInv
<1>13. Len(chain') =< MaxHeight + 1
  <2> HIDE DEF n
  <2> QED
    BY <1>6, <1>11
<1> QED
  BY <1>1, <1>2, <1>4, <1>10, <1>12, <1>13 DEF AInv

(* Disconnecting the tip brings back accounts that were in order.           *)
LEMMA DisconnectAInv ==
    ASSUME AInv, DisconnectTip
    PROVE  AInv'
<1>1. UInv /\ UInv'
  BY DisconnectUInv DEF AInv
<1>2. registry' = before[Len(before)] /\ before' = SubSeq(before, 1, Len(before) - 1)
  BY <1>1, DisconnectPops DEF Stack!Disconnect
<1>3. Len(before) = Len(chain) /\ Len(chain) \in Nat \ {0}
  BY <1>1, DisconnectCuts DEF UInv
<1>4. /\ chain' = SubSeq(chain, 1, Len(chain) - 1)
      /\ scope' = scope /\ genesis_timestamp' = genesis_timestamp
      /\ mainchain_timestamp' = mainchain_timestamp
  BY DEF DisconnectTip
<1>5. claimed' = before[Len(chain)][1] /\ period_pricing' = before[Len(chain)][3]
  <2>1. registry'[1] = claimed' /\ registry'[3] = period_pricing'
    BY DEF registry
  <2> QED
    BY <1>2, <1>3, <2>1
<1>6. Accounts(claimed', period_pricing')
  BY <1>3, <1>5 DEF AInv
<1> DEFINE t == Len(chain) - 1
<1>7. t \in 0..Len(chain) /\ t \in Nat
  BY <1>3
<1>8. Len(chain') = t
  BY <1>1, <1>3, <1>4 DEF UInv, IInv, WellTyped
<1>9. \A i \in 1..t : before'[i] = before[i]
  <2>1. PICK S : before \in Seq(S)
    BY <1>1 DEF UInv
  <2> HIDE DEF t
  <2> QED
    BY <1>2, <1>3, <1>7, <2>1, Loop!PrefixFacts DEF t
<1>10. \A i \in 1..Len(chain') : Accounts(before'[i][1], before'[i][3])
  <2>1. \A i \in 1..t : i \in 1..Len(chain)
    BY <1>3
  <2> QED
    BY <1>8, <1>9, <2>1 DEF AInv
<1>11. Len(chain') =< MaxHeight + 1
  <2>1. MaxHeight \in Nat
    BY DecisionsAssumption
  <2> QED
    BY <1>3, <1>8, <2>1 DEF AInv
<1> QED
  BY <1>1, <1>4, <1>6, <1>10, <1>11 DEF AInv

(* AInv holds in every reachable state.                                     *)
LEMMA AccountInvariance == Spec => []AInv
<1>1. AInv /\ [Next]_vars => AInv'
  <2> SUFFICES ASSUME AInv, [Next]_vars PROVE AInv'
    OBVIOUS
  <2>1. ASSUME NEW ts \in Timestamps, NEW claims \in SUBSET DecisionIds,
               ConnectBlock(ts, claims)
        PROVE  AInv'
    BY <2>1, ConnectAInv
  <2>2. CASE DisconnectTip
    BY <2>2, DisconnectAInv
  <2>3. CASE UNCHANGED vars
    <3>1. IInv'
      BY <2>3 DEF vars, AInv, UInv, IInv, WellTyped, EntryIffHistory, UndoExact
    <3>2. \A i \in 1..Len(chain') : FoundBy(i)'
      BY <2>3 DEF vars, AInv, UInv, FoundBy
    <3>3. UInv'
      BY <2>3, <3>1, <3>2 DEF vars, AInv, UInv
    <3> QED
      BY <2>3, <3>3 DEF vars, AInv
  <2> QED
    BY <2>1, <2>2, <2>3 DEF Next
<1> QED
  BY InitAInv, <1>1, PTL DEF Spec

(* For any decisions, slots, prices and periods, in blocks or in seconds,   *)
(* and through any reorg: the claim counter that drives the reprice curve   *)
(* is the number of standard decisions claimed in its period, every claim   *)
(* sits in a slot that the mints of its period have unlocked, and no period *)
(* holds more claims than were minted into it.                              *)
THEOREM ClaimsAlwaysAccounted == Spec => []ClaimsAccounted
<1>1. AInv => ClaimsAccounted
  <2> SUFFICES ASSUME AInv PROVE ClaimsAccounted
    OBVIOUS
  <2>1. UInv /\ IInv /\ WellTyped /\ Accounts(claimed, period_pricing)
    BY DEF AInv, UInv, IInv
  <2>2. ClaimCounterExact
    BY <2>1 DEF ClaimCounterExact, Row, Accounts
  <2>3. ClaimsUnlocked
    BY <2>1 DEF ClaimsUnlocked, Row, Accounts
  <2>4. CapacityRespected
    <3>1. claimed \in SUBSET DecisionIds
      BY <2>1 DEF WellTyped
    <3>2. \A p \in Periods : period_pricing[p] # NoPricing =>
             period_pricing[p].claimed =< PeriodCapacity(period_pricing[p].mints)
      BY <2>1, <3>1, AccountsCapacity
    <3> QED
      BY <2>1, <3>2 DEF CapacityRespected, Row, Accounts
  <2>5. TypeOK
    <3>1. ASSUME NEW d \in DecisionIds
          PROVE  histories[d] \in Seq([state : {"Claimed", "Voting", "Resolved"},
                                       height : 0..MaxHeight])
      <4> DEFINE h == histories[d]
                 E == [state : {"Claimed", "Voting", "Resolved"}, height : 0..MaxHeight]
      <4>1. h \in Seq(HistEntry) /\ HistoryOK(h, Len(chain)) /\ Len(chain) \in Nat
        BY <2>1 DEF IInv, WellTyped
      <4>2. Len(h) \in 0..3 /\ \A i \in 1..Len(h) : h[i].height \in Nat
        BY <4>1, HistoryLength
      <4>3. \A i \in 1..Len(h) : h[i].height < Len(chain)
        BY <4>1, <4>2 DEF HistoryOK
      <4>4. MaxHeight \in Nat /\ Len(chain) =< MaxHeight + 1
        BY DecisionsAssumption DEF AInv
      <4>5. \A i \in 1..Len(h) : h[i] \in HistEntry
        BY <4>1
      <4> HIDE DEF h
      <4>6. ASSUME NEW i \in 1..Len(h) PROVE h[i] \in E
        <5>1. h[i].height \in 0..MaxHeight
          BY <4>1, <4>2, <4>3, <4>4
        <5> QED
          BY <4>5, <5>1 DEF HistEntry
      <4> HIDE DEF E
      <4>7. h \in [1..Len(h) -> E] /\ Len(h) \in Nat
        BY <4>1, <4>2, <4>6
      <4>8. h \in Seq(E)
        BY <4>7, SeqDef
      <4> QED
        BY <4>8 DEF h, E
    <3>2. \A p \in Periods : Row(p) = NoPricing \/ Row(p) \in PricingRows
      BY <2>1 DEF Row, Accounts, PricingTable
    <3>3. Len(undo) = Len(chain) /\ Len(before) = Len(chain)
      BY <2>1 DEF UInv, WellTyped
    <3> QED
      BY <2>1, <3>1, <3>2, <3>3 DEF TypeOK, AInv, WellTyped
  <2> QED
    BY <2>2, <2>3, <2>4, <2>5 DEF ClaimsAccounted
<1> QED
  BY AccountInvariance, <1>1, PTL

-----------------------------------------------------------------------------
(* Resolution on time.                                                     *)

(* The period of each connected block.                                      *)
BlockPeriods == [i \in 1..Len(chain) |-> PeriodAt(i)]

(* On a chain of n blocks with periods per: once a block at or above the    *)
(* claim of d is past the voting period of d, d is resolved (its history h  *)
(* says so), unless the block of the claim was past it.                     *)
Timely(h, per, n, is_blocks, d) ==
    d.is_standard /\ h # <<>> =>
        \A j \in h[1].height..(n - 1) :
            per[j + 1] > VotingPeriod(d) =>
                \/ Len(h) = 3 /\ h[3].height =< j
                \/ ~is_blocks /\ per[h[1].height + 1] > VotingPeriod(d)

(* The outcomes of a voting period are stored by a block past it.           *)
OutcomesPast(hist, out, per) ==
    \A e \in out : per[hist[e][3].height + 1] > VotingPeriod(e)

(* No standard decision is claimed after the outcomes of its voting period. *)
ClaimedBefore(hist, out) ==
    \A d \in DecisionIds, e \in out :
        d.is_standard /\ hist[d] # <<>> /\ VotingPeriod(e) = VotingPeriod(d)
            => hist[d][1].height =< hist[e][3].height

(* The stored timestamp is not far behind that of any connected block.      *)
ClockBounded == \A i \in 1..Len(chain) : chain[i].ts =< mainchain_timestamp + MaxDrift

(* The inductive invariant.                                                 *)
RInv ==
    /\ UInv
    /\ mainchain_timestamp \in Nat
    /\ ClockBounded
    /\ OutcomesPast(histories, outcomes, BlockPeriods)
    /\ ClaimedBefore(histories, outcomes)
    /\ \A d \in DecisionIds :
          Timely(histories[d], BlockPeriods, Len(chain), scope.is_blocks, d)

(* Division by the length of a period.                                      *)
LEMMA Quotients ==
    ASSUME NEW q \in Nat \ {0}, NEW a \in Nat, NEW b \in Nat
    PROVE  /\ a \div q \in Nat
           /\ a =< b => a \div q =< b \div q
           /\ a =< b + q => a \div q =< b \div q + 1
           /\ a < q => a \div q = 0
<1> DEFINE x == a \div q
           y == b \div q
           r == a % q
           s == b % q
<1>1. /\ x \in Nat /\ y \in Nat /\ r \in 0..(q - 1) /\ s \in 0..(q - 1)
      /\ a = q * x + r /\ b = q * y + s
  OBVIOUS
<1> HIDE DEF x, y, r, s
<1>2. x > y => q * x >= q * y + q
  <2> SUFFICES ASSUME x > y PROVE q * x >= q * y + q
    OBVIOUS
  <2>1. PICK k \in Nat : x = y + 1 + k
    <3>1. x - y - 1 \in Nat /\ x = y + 1 + (x - y - 1)
      BY <1>1
    <3> QED
      BY <3>1
  <2>2. q * x = q * y + q + q * k /\ q * k \in Nat
    BY <1>1, <2>1
  <2> QED
    BY <1>1, <2>2
<1>3. x > y + 1 => q * x >= q * y + q + q
  <2> SUFFICES ASSUME x > y + 1 PROVE q * x >= q * y + q + q
    OBVIOUS
  <2>1. PICK k \in Nat : x = y + 2 + k
    <3>1. x - y - 2 \in Nat /\ x = y + 2 + (x - y - 2)
      BY <1>1
    <3> QED
      BY <3>1
  <2>2. q * x = q * y + q + q + q * k /\ q * k \in Nat
    BY <1>1, <2>1
  <2> QED
    BY <1>1, <2>2
<1>4. x > 0 => q * x >= q
  BY <1>1
<1>5. a =< b => x =< y
  BY <1>1, <1>2
<1>6. a =< b + q => x =< y + 1
  BY <1>1, <1>3
<1>7. a < q => x = 0
  BY <1>1, <1>4
<1> QED
  BY <1>1, <1>5, <1>6, <1>7 DEF x, y

(* A standard decision cannot be claimed once its voting period has         *)
(* outcomes: in blocks, periods do not go back; in seconds, the stored      *)
(* timestamp would be more than a period behind that of a connected block.  *)
LEMMA NoLateClaim ==
    ASSUME MaxDrift =< Quantity, RInv, NEW d \in DecisionIds, d.is_standard, ValidClaim(d),
           NEW e \in outcomes, VotingPeriod(e) = VotingPeriod(d)
    PROVE  FALSE
<1> DEFINE n == Len(chain)
           r == histories[e][3].height
           T == chain[r + 1].ts
           g == genesis_timestamp
           m == mainchain_timestamp
           p == d.period_index
           now == GetCurrentPeriod(m, n, g)
<1>1. IInv /\ e \in DecisionIds /\ n \in Nat /\ g \in Nat /\ m \in Nat
  BY DEF RInv, UInv, IInv, WellTyped
<1>2. r \in Nat /\ r < n
  <2>1. Len(histories[e]) = 3 /\ HistoryOK(histories[e], n) /\ histories[e] \in Seq(HistEntry)
    BY <1>1 DEF IInv, WellTyped
  <2>2. r < n
    BY <2>1 DEF HistoryOK
  <2>3. \A i \in 1..Len(histories[e]) : histories[e][i].height \in Nat
    BY <1>1, <2>1, HistoryLength
  <2> QED
    BY <2>1, <2>2, <2>3
<1>3. p \in Nat /\ VotingPeriod(d) = p + 1 /\ now =< p
  <2>1. p \in Nat
    BY DecisionsAssumption DEF Periods
  <2> QED
    BY <2>1 DEF VotingPeriod, ValidClaim, ClaimValidIn
<1>4. GetCurrentPeriod(T, r, g) > p + 1
  <2>1. BlockPeriods[r + 1] > VotingPeriod(d)
    BY DEF RInv, OutcomesPast
  <2>2. BlockPeriods[r + 1] = GetCurrentPeriod(T, r, g)
    <3>1. (r + 1) - 1 = r /\ r + 1 \in 1..n
      BY <1>1, <1>2
    <3> QED
      BY <3>1 DEF BlockPeriods, PeriodAt
  <2> QED
    BY <1>3, <2>1, <2>2
<1>5. T \in Nat /\ T =< m + MaxDrift
  <2>1. r + 1 \in 1..n
    BY <1>1, <1>2
  <2>2. chain[r + 1] \in [ts : Timestamps, claims : SUBSET DecisionIds]
    <3>1. chain \in Seq([ts : Timestamps, claims : SUBSET DecisionIds])
      BY <1>1 DEF IInv, WellTyped
    <3>2. \A i \in 1..Len(chain) : chain[i] \in [ts : Timestamps, claims : SUBSET DecisionIds]
      BY <3>1, ElementOfSeq
    <3> QED
      BY <2>1, <3>2, Zenon
  <2>3. T \in Nat
    BY <2>2, DecisionsAssumption
  <2> QED
    BY <2>1, <2>3 DEF RInv, ClockBounded
<1>6. Quantity \in Nat \ {0} /\ MaxDrift \in Nat
  BY DecisionsAssumption
<1> HIDE DEF n, r, T, g, m, p
<1>7. CASE scope.is_blocks
  <2>1. GetCurrentPeriod(T, r, g) = r \div Quantity + 1 /\ now = n \div Quantity + 1
    BY <1>7 DEF GetCurrentPeriod
  <2>2. r \div Quantity =< n \div Quantity /\ r \div Quantity \in Nat /\ n \div Quantity \in Nat
    BY <1>1, <1>2, <1>6, Quotients
  <2> QED
    BY <1>3, <1>4, <2>1, <2>2
<1>8. CASE ~scope.is_blocks
  <2>1. g # 0 /\ T >= g /\ GetCurrentPeriod(T, r, g) = (T - g) \div Quantity + 1
    <3>1. GetCurrentPeriod(T, r, g) = IF g = 0 \/ T < g THEN 0 ELSE (T - g) \div Quantity + 1
      BY <1>8 DEF GetCurrentPeriod
    <3> QED
      BY <1>1, <1>3, <1>4, <1>5, <3>1
  <2>2. now = IF m < g THEN 0 ELSE (m - g) \div Quantity + 1
    BY <1>8, <2>1 DEF GetCurrentPeriod
  <2>3. T - g \in Nat /\ T =< m + Quantity
    BY <1>1, <1>5, <1>6, <2>1
  <2>4. CASE m < g
    <3>1. T - g < Quantity
      BY <1>1, <1>5, <1>6, <2>3, <2>4
    <3>2. (T - g) \div Quantity = 0
      BY <1>6, <2>3, <3>1, Quotients
    <3> QED
      BY <1>3, <1>4, <2>1, <3>2
  <2>5. CASE ~(m < g)
    <3>1. m - g \in Nat /\ T - g =< (m - g) + Quantity
      BY <1>1, <1>5, <1>6, <2>3, <2>5
    <3>2. /\ (T - g) \div Quantity =< (m - g) \div Quantity + 1
          /\ (T - g) \div Quantity \in Nat /\ (m - g) \div Quantity \in Nat
      BY <1>6, <2>3, <3>1, Quotients
    <3> QED
      BY <1>3, <1>4, <2>1, <2>2, <2>5, <3>2
  <2> QED
    BY <2>4, <2>5
<1> QED
  BY <1>7, <1>8

(* Before the first block nothing is claimed.                               *)
LEMMA InitRInv == Init => RInv
<1> SUFFICES ASSUME Init PROVE RInv
  OBVIOUS
<1>1. UInv
  BY InitUInv
<1>2. /\ chain = <<>> /\ outcomes = {} /\ mainchain_timestamp = 0
      /\ \A d \in DecisionIds : histories[d] = <<>>
  BY DEF Init
<1> QED
  BY <1>1, <1>2 DEF RInv, ClockBounded, OutcomesPast, ClaimedBefore, Timely

(* The period of the next block, for its mainchain timestamp.               *)
NextPeriod(ts) ==
    GetCurrentPeriod(ts, Len(chain), IF Len(chain) = 0 THEN ts ELSE genesis_timestamp)

(* A connected block keeps the periods of the blocks below it.              *)
LEMMA ConnectPeriods ==
    ASSUME UInv, NEW ts \in Timestamps, NEW claims \in SUBSET DecisionIds,
           ConnectBlock(ts, claims)
    PROVE  /\ Len(chain') = Len(chain) + 1
           /\ \A i \in 1..Len(chain) : chain'[i] = chain[i]
           /\ chain'[Len(chain) + 1].ts = ts
           /\ \A i \in 1..Len(chain) : BlockPeriods'[i] = BlockPeriods[i]
           /\ BlockPeriods'[Len(chain) + 1] = NextPeriod(ts)
<1> DEFINE n == Len(chain)
           current == NextPeriod(ts)
<1> DEFINE block == [ts |-> ts, claims |-> claims]
<1>1. /\ chain' = Append(chain, block) /\ scope' = scope
      /\ genesis_timestamp' = IF n = 0 THEN ts ELSE genesis_timestamp
  BY DEF ConnectBlock
<1>2. block \in [ts : Timestamps, claims : SUBSET DecisionIds] /\ block.ts = ts
  OBVIOUS
<1>3. chain \in Seq([ts : Timestamps, claims : SUBSET DecisionIds]) /\ n \in Nat
  BY DEF UInv, IInv, WellTyped
<1> HIDE DEF block
<1>4. /\ Len(chain') = n + 1
      /\ \A i \in 1..n : chain'[i] = chain[i]
      /\ chain'[n + 1] = block
  BY <1>1, <1>2, <1>3, Loop!AppendFacts
<1>5. ASSUME NEW i \in 1..n PROVE PeriodAt(i)' = PeriodAt(i)
  <2>1. genesis_timestamp' = genesis_timestamp /\ chain'[i] = chain[i]
    BY <1>1, <1>3, <1>4
  <2> QED
    BY <1>1, <2>1 DEF PeriodAt, GetCurrentPeriod
<1>6. ASSUME NEW k, k = n + 1 PROVE PeriodAt(k)' = current
  <2>1. k - 1 = n /\ chain'[k].ts = ts
    BY <1>2, <1>3, <1>4, <1>6
  <2> QED
    BY <1>1, <2>1 DEF PeriodAt, GetCurrentPeriod, NextPeriod
<1>7. BlockPeriods' = [i \in 1..(n + 1) |-> PeriodAt(i)']
  BY <1>4 DEF BlockPeriods
<1>8. BlockPeriods'[n + 1] = current
  <2>1. PICK k \in 1..(n + 1) : k = n + 1
    BY <1>3
  <2>2. BlockPeriods'[k] = PeriodAt(k)'
    BY <1>7
  <2> QED
    BY <1>6, <2>1, <2>2
<1>9. ASSUME NEW i \in 1..n PROVE BlockPeriods'[i] = BlockPeriods[i]
  <2>1. i \in 1..(n + 1) /\ i \in 1..Len(chain)
    BY <1>3
  <2>2. BlockPeriods'[i] = PeriodAt(i)' /\ BlockPeriods[i] = PeriodAt(i)
    BY <1>7, <2>1 DEF BlockPeriods
  <2> QED
    BY <1>5, <2>2
<1> QED
  BY <1>2, <1>3, <1>4, <1>8, <1>9

(* A claimed decision whose voting period has passed is resolved, unless    *)
(* the period already has outcomes.                                         *)
LEMMA OpenResolved ==
    ASSUME NEW hist \in [DecisionIds -> Seq(HistEntry)], NEW n \in Nat, NEW d \in DecisionIds,
           HistoryOK(hist[d], n), hist[d] # <<>>, Len(hist[d]) # 3,
           NEW claims, d \notin claims, NEW current \in Nat, current > VotingPeriod(d), NEW stored,
           NEW opened, opened = TransitionToVoting(hist, current, n),
           NEW entered, entered = ClaimHistories(opened, claims, n),
           d \notin Resolvable(entered, stored, current)
    PROVE  \E e \in stored : VotingPeriod(e) = VotingPeriod(d)
<1> DEFINE h == hist[d]
<1>1. Len(h) \in 0..3 /\ (h = <<>> <=> Len(h) = 0)
  BY HistoryLength
<1>2. Len(h) = 1 \/ Len(h) = 2
  BY <1>1
<1>3. entered[d] = opened[d]
  BY DEF ClaimHistories
<1>4. current > d.period_index
  <2>1. d.period_index \in Nat
    BY DecisionsAssumption DEF Periods
  <2> QED
    BY <2>1 DEF VotingPeriod
<1>5. CurrentState(opened[d]) = "Voting"
  <2>1. CASE Len(h) = 1
    <3> DEFINE v == Entry("Voting", n)
               o == Append(h, v)
    <3>1. CurrentState(h) = "Claimed"
      BY <2>1, CurrentStateByLength
    <3>2. opened[d] = o
      BY <1>4, <3>1 DEF TransitionToVoting
    <3>3. v \in HistEntry /\ v.state = "Voting"
      BY DEF Entry, HistEntry
    <3> HIDE DEF v, h
    <3>4. o \in Seq(HistEntry) /\ Len(o) = Len(h) + 1 /\ o[Len(h) + 1] = v
      BY <3>3, Loop!AppendFacts DEF h
    <3> HIDE DEF o
    <3>5. o # <<>> /\ o[Len(o)] = v
      <4>1. Len(o) = 2
        BY <2>1, <3>4
      <4>2. o # <<>>
        BY <3>4, <4>1, EmptySeq
      <4> QED
        BY <3>4, <4>2, Zenon
    <3> QED
      BY <3>2, <3>3, <3>5 DEF CurrentState
  <2>2. CASE Len(h) = 2
    <3>1. CurrentState(h) = "Voting"
      BY <2>2, CurrentStateByLength
    <3>2. opened[d] = h
      BY <3>1 DEF TransitionToVoting
    <3> QED
      BY <3>1, <3>2
  <2> QED
    BY <1>2, <2>1, <2>2
<1>6. d \in NeedingResolution(entered, current)
  BY <1>3, <1>5 DEF NeedingResolution
<1> QED
  BY <1>6 DEF Resolvable

(* Connecting a block resolves what is due.                                 *)
LEMMA ConnectRInv ==
    ASSUME MaxDrift =< Quantity, RInv, NEW ts \in Timestamps, NEW claims \in SUBSET DecisionIds,
           ConnectBlock(ts, claims)
    PROVE  RInv'
<1> DEFINE n        == Len(chain)
           genesis  == IF n = 0 THEN ts ELSE genesis_timestamp
           current  == GetCurrentPeriod(ts, n, genesis)
           opened   == TransitionToVoting(histories, current, n)
           entered  == ClaimHistories(opened, claims, n)
           resolved == Resolvable(entered, outcomes, current)
<1>1. /\ n = 0 => claims = {}
      /\ \A d \in claims : ValidClaim(d)
      /\ MainchainAllows(ts)
      /\ histories' = TransitionToResolved(entered, resolved, n)
      /\ outcomes' = outcomes \cup resolved
      /\ mainchain_timestamp' = ts
      /\ scope' = scope
  BY DEF ConnectBlock
<1>2. UInv /\ UInv' /\ IInv /\ IInv'
  BY ConnectUInv DEF RInv, UInv
<1>3. /\ n \in Nat /\ histories \in [DecisionIds -> Seq(HistEntry)] /\ outcomes \subseteq DecisionIds
      /\ genesis_timestamp \in Nat /\ ts \in Nat /\ MaxDrift \in Nat
  BY <1>2, DecisionsAssumption DEF IInv, WellTyped
<1>4. /\ Len(chain') = n + 1
      /\ \A i \in 1..n : chain'[i] = chain[i]
      /\ chain'[n + 1].ts = ts
      /\ \A i \in 1..n : BlockPeriods'[i] = BlockPeriods[i]
      /\ BlockPeriods'[n + 1] = current
  <2>1. current = NextPeriod(ts)
    BY DEF NextPeriod
  <2> HIDE DEF current
  <2> QED
    BY <1>2, <2>1, ConnectPeriods
<1>5. genesis \in Nat /\ current \in Nat
  <2>1. genesis \in Nat
    BY <1>3
  <2> HIDE DEF genesis, n
  <2> QED
    BY <1>3, <2>1, CurrentPeriodNat
<1>6. opened = TransitionToVoting(histories, current, n) /\ entered = ClaimHistories(opened, claims, n)
      /\ resolved = Resolvable(entered, outcomes, current)
  OBVIOUS
<1>7. \A e \in resolved : e \in DecisionIds /\ current > VotingPeriod(e)
  BY DEF Resolvable, NeedingResolution
<1>8. scope.is_blocks => current = GetCurrentPeriod(mainchain_timestamp, n, genesis_timestamp)
  BY DEF GetCurrentPeriod
<1>9. \A d \in claims : d.is_standard => d.period_index >=
         GetCurrentPeriod(mainchain_timestamp, n, genesis_timestamp)
  BY <1>1 DEF ValidClaim, ClaimValidIn
<1> HIDE DEF genesis, current, opened, entered, resolved
<1>10. /\ \A d \in claims : histories[d] = <<>> /\ n > 0
       /\ \A d \in DecisionIds : HistoryOK(histories[d], n)
       /\ \A d \in DecisionIds : d \in outcomes <=> Len(histories[d]) = 3
  BY <1>1, <1>2, <1>3 DEF IInv, EntryIffHistory, ValidClaim, ClaimValidIn
<1>11. \A d \in DecisionIds :
          Advanced(histories[d], histories'[d], n, d \in claims, d \in resolved)
  <2> HIDE DEF n
  <2> SUFFICES ASSUME NEW d \in DecisionIds
               PROVE  Advanced(histories[d], TransitionToResolved(entered, resolved, n)[d], n,
                               d \in claims, d \in resolved)
    BY <1>1
  <2> QED
    BY <1>3, <1>6, <1>10, ConnectAdvances
<1> HIDE DEF n
<1>12. ClockBounded'
  <2>1. \A i \in 1..n : chain'[i].ts =< ts + MaxDrift
    <3>1. DOMAIN chain = 1..n
      BY <1>2 DEF IInv, WellTyped, n
    <3> QED
      BY <1>1, <1>4, <3>1 DEF MainchainAllows
  <2>2. chain'[n + 1].ts =< ts + MaxDrift
    BY <1>3, <1>4
  <2>3. \A i \in 1..(n + 1) : i \in 1..n \/ i = n + 1
    BY <1>3
  <2> QED
    BY <1>1, <1>4, <2>1, <2>2, <2>3 DEF ClockBounded
<1>13. ASSUME NEW e \in outcomes
       PROVE  /\ histories'[e] = histories[e] /\ e \in DecisionIds
              /\ histories[e][3].height \in 0..(n - 1)
  <2>1. e \in DecisionIds /\ Len(histories[e]) = 3 /\ HistoryOK(histories[e], n)
    BY <1>3, <1>10
  <2>2. histories'[e] = histories[e]
    BY <1>11, <2>1 DEF Advanced
  <2>3. histories[e] \in Seq(HistEntry)
    BY <1>3, <2>1
  <2>4. \A i \in 1..Len(histories[e]) : histories[e][i].height \in Nat
    BY <1>3, <2>1, <2>3, HistoryLength
  <2>5. histories[e][3].height \in Nat /\ histories[e][3].height < n
    BY <2>1, <2>4 DEF HistoryOK
  <2> QED
    BY <1>3, <2>1, <2>2, <2>5
<1>14. ASSUME NEW e \in resolved PROVE histories'[e][3].height = n /\ e \in DecisionIds
  BY <1>7, <1>11, <1>14 DEF Advanced
<1>15. OutcomesPast(histories, outcomes, BlockPeriods)'
  <2> SUFFICES ASSUME NEW e \in outcomes'
               PROVE  BlockPeriods'[histories'[e][3].height + 1] > VotingPeriod(e)
    BY DEF OutcomesPast
  <2>1. CASE e \in outcomes
    <3> DEFINE r == histories[e][3].height
    <3>1. r \in 0..(n - 1) /\ histories'[e] = histories[e]
      BY <1>13, <2>1
    <3>2. r + 1 \in 1..n
      BY <1>3, <3>1
    <3>3. BlockPeriods[r + 1] > VotingPeriod(e)
      BY <2>1 DEF RInv, OutcomesPast
    <3>4. BlockPeriods'[r + 1] = BlockPeriods[r + 1]
      BY <1>4, <3>2
    <3> QED
      BY <3>1, <3>3, <3>4
  <2>2. CASE e \in resolved
    <3>1. histories'[e][3].height = n /\ current > VotingPeriod(e)
      BY <1>7, <1>14, <2>2
    <3> QED
      BY <1>4, <3>1
  <2> QED
    BY <1>1, <2>1, <2>2
<1>16. ASSUME NEW d \in claims, d.is_standard, NEW e \in outcomes,
              VotingPeriod(e) = VotingPeriod(d)
       PROVE  FALSE
  BY <1>1, <1>16, NoLateClaim
<1>17. ASSUME NEW d \in DecisionIds, histories'[d] # <<>>
       PROVE  histories'[d][1].height \in Nat /\ histories'[d][1].height =< n
  <2>1. histories'[d] \in Seq(HistEntry) /\ HistoryOK(histories'[d], n + 1) /\ n + 1 \in Nat
    BY <1>3, <1>11 DEF Advanced
  <2>2. /\ Len(histories'[d]) \in 0..3 /\ (histories'[d] = <<>> <=> Len(histories'[d]) = 0)
        /\ \A i \in 1..Len(histories'[d]) : histories'[d][i].height \in Nat
    BY <2>1, HistoryLength
  <2>3. Len(histories'[d]) >= 1
    BY <1>17, <2>2
  <2>4. histories'[d][1].height \in Nat /\ histories'[d][1].height < n + 1
    BY <2>1, <2>2, <2>3 DEF HistoryOK
  <2> QED
    BY <1>3, <2>4
<1>18. ClaimedBefore(histories, outcomes)'
  <2> SUFFICES ASSUME NEW d \in DecisionIds, NEW e \in outcomes',
                      d.is_standard, histories'[d] # <<>>, VotingPeriod(e) = VotingPeriod(d)
               PROVE  histories'[d][1].height =< histories'[e][3].height
    BY DEF ClaimedBefore
  <2>1. CASE e \in resolved
    BY <1>14, <1>17, <2>1
  <2>2. CASE e \in outcomes /\ histories[d] # <<>>
    <3>1. histories'[e] = histories[e]
      BY <1>13, <2>2
    <3>2. histories'[d][1] = histories[d][1]
      BY <1>11, <2>2 DEF Advanced
    <3>3. histories[d][1].height =< histories[e][3].height
      BY <2>2 DEF RInv, ClaimedBefore
    <3> QED
      BY <3>1, <3>2, <3>3
  <2>3. CASE e \in outcomes /\ histories[d] = <<>>
    <3>1. d \in claims
      BY <1>11, <2>3 DEF Advanced
    <3> QED
      BY <1>16, <2>3, <3>1
  <2> QED
    BY <1>1, <2>1, <2>2, <2>3
<1>19. ASSUME NEW d \in DecisionIds 
       PROVE  Timely(histories[d], BlockPeriods, Len(chain), scope.is_blocks, d)'
  <2> DEFINE g == histories'[d]
             h == histories[d]
             c == g[1].height
  <2> SUFFICES ASSUME d.is_standard, g # <<>>, NEW j \in c..n,
                      BlockPeriods'[j + 1] > VotingPeriod(d)
               PROVE  \/ Len(g) = 3 /\ g[3].height =< j
                      \/ ~scope.is_blocks /\ BlockPeriods'[c + 1] > VotingPeriod(d)
    BY <1>1, <1>3, <1>4 DEF Timely
  <2>1. c \in Nat /\ c =< n
    BY <1>17
  <2>2. Advanced(h, g, n, d \in claims, d \in resolved)
    BY <1>11
  <2>3. d.period_index \in Nat /\ VotingPeriod(d) = d.period_index + 1
    BY DecisionsAssumption DEF Periods, VotingPeriod
  <2>4. CASE h = <<>>
    <3>1. d \in claims /\ c = n
      BY <2>2, <2>4 DEF Advanced
    <3>2. j = n
      BY <1>3, <3>1
    <3>3. current > VotingPeriod(d)
      BY <1>4, <3>2
    <3>4. ~scope.is_blocks
      <4> SUFFICES ASSUME scope.is_blocks PROVE FALSE
        OBVIOUS
      <4>1. d.period_index >= current
        BY <1>8, <1>9, <3>1
      <4> QED
        BY <1>5, <2>3, <3>3, <4>1
    <3> QED
      BY <3>1, <3>2, <3>4
  <2>5. CASE h # <<>>
    <3>1. /\ g[1] = h[1]
          /\ Len(h) = 3 => g = h
          /\ d \in resolved => Len(g) = 3 /\ g[3].height = n
      BY <2>2, <2>5 DEF Advanced
    <3>2. c < n
      <4>1. HistoryOK(h, n) /\ h \in Seq(HistEntry)
        BY <1>3, <1>10
      <4>2. Len(h) \in 0..3 /\ (h = <<>> <=> Len(h) = 0)
        BY <1>3, <4>1, HistoryLength
      <4>3. Len(h) >= 1
        BY <2>5, <4>2
      <4>4. h[1].height < n
        BY <4>1, <4>3 DEF HistoryOK
      <4> QED
        BY <3>1, <4>4
    <3>3. BlockPeriods'[c + 1] = BlockPeriods[c + 1]
      <4>1. c + 1 \in 1..n
        BY <1>3, <2>1, <3>2
      <4> HIDE DEF c
      <4> QED
        BY <1>4, <4>1
    <3>4. ASSUME NEW k \in c..(n - 1), BlockPeriods[k + 1] > VotingPeriod(d)
          PROVE  \/ Len(h) = 3 /\ h[3].height =< k
                 \/ ~scope.is_blocks /\ BlockPeriods[c + 1] > VotingPeriod(d)
      <4>1. Timely(h, BlockPeriods, n, scope.is_blocks, d) /\ c = h[1].height
        BY <3>1 DEF RInv, n
      <4> QED
        BY <2>5, <3>4, <4>1 DEF Timely
    <3>5. CASE j < n
      <4>1. j \in c..(n - 1) /\ j + 1 \in 1..n
        BY <1>3, <2>1, <3>5
      <4>2. BlockPeriods'[j + 1] = BlockPeriods[j + 1]
        BY <1>4, <4>1
      <4>3. BlockPeriods[j + 1] > VotingPeriod(d)
        BY <4>2
      <4> HIDE DEF c, g, h
      <4>4. \/ Len(h) = 3 /\ h[3].height =< j
            \/ ~scope.is_blocks /\ BlockPeriods[c + 1] > VotingPeriod(d)
        BY <3>4, <4>1, <4>3
      <4> QED
        BY <3>1, <3>3, <4>4
    <3>6. CASE j = n /\ Len(h) = 3
      <4>1. g = h /\ d \in outcomes
        BY <1>10, <3>1, <3>6
      <4>2. h[3].height \in 0..(n - 1)
        BY <1>13, <4>1
      <4>3. Len(g) = 3 /\ g[3].height =< j
        BY <1>3, <3>6, <4>1, <4>2
      <4> QED
        BY <4>3
    <3>7. CASE j = n /\ d \in resolved
      <4>1. Len(g) = 3 /\ g[3].height =< j
        BY <1>3, <3>1, <3>7
      <4> QED
        BY <4>1
    <3>8. CASE j = n /\ Len(h) # 3 /\ d \notin resolved
      <4>1. current > VotingPeriod(d)
        BY <1>4, <3>8
      <4>2. d \notin claims /\ HistoryOK(h, n)
        BY <1>10, <2>5
      <4>3. PICK e \in outcomes : VotingPeriod(e) = VotingPeriod(d)
        BY <1>3, <1>5, <1>6, <2>5, <3>8, <4>1, <4>2, OpenResolved
      <4> DEFINE r == histories[e][3].height
      <4>4. r \in 0..(n - 1)
        BY <1>13
      <4>5. h[1].height =< r
        BY <2>5, <4>3 DEF RInv, ClaimedBefore
      <4>6. BlockPeriods[r + 1] > VotingPeriod(d)
        BY <4>3 DEF RInv, OutcomesPast
      <4> HIDE DEF r
      <4>7. r \in c..(n - 1)
        BY <1>3, <2>1, <3>1, <4>4, <4>5
      <4>8. ~scope.is_blocks /\ BlockPeriods[c + 1] > VotingPeriod(d)
        BY <3>4, <3>8, <4>6, <4>7
      <4> QED
        BY <3>3, <4>8
    <3> QED
      BY <1>3, <2>1, <3>5, <3>6, <3>7, <3>8
  <2> QED
    BY <2>4, <2>5
<1> QED
  BY <1>1, <1>2, <1>3, <1>12, <1>15, <1>18, <1>19 DEF RInv

(* Disconnecting the tip keeps the blocks below it and their periods.       *)
LEMMA DisconnectPeriods ==
    ASSUME UInv, DisconnectTip, NEW t, t = Len(chain) - 1
    PROVE  /\ Len(chain') = t
           /\ \A i \in 1..t : chain'[i] = chain[i]
           /\ \A i \in 1..t : BlockPeriods'[i] = BlockPeriods[i]
<1>1. t \in Nat /\ Len(chain) = t + 1 /\ t \in 0..Len(chain)
  BY DisconnectCuts
<1>2. /\ chain' = SubSeq(chain, 1, t) /\ scope' = scope
      /\ genesis_timestamp' = genesis_timestamp
  BY DEF DisconnectTip
<1>3. Len(chain') = t /\ \A i \in 1..t : chain'[i] = chain[i]
  BY <1>1, <1>2, Loop!PrefixFacts DEF UInv, IInv, WellTyped
<1>4. ASSUME NEW i \in 1..t PROVE BlockPeriods'[i] = BlockPeriods[i]
  <2>1. PeriodAt(i)' = PeriodAt(i)
    BY <1>2, <1>3 DEF PeriodAt, GetCurrentPeriod
  <2>2. i \in 1..Len(chain)
    BY <1>1
  <2>3. BlockPeriods'[i] = PeriodAt(i)' /\ BlockPeriods[i] = PeriodAt(i)
    BY <1>3, <2>2 DEF BlockPeriods
  <2> QED
    BY <2>1, <2>3
<1> QED
  BY <1>3, <1>4

(* Disconnecting the tip takes back only what the tip block resolved.       *)
LEMMA DisconnectRInv ==
    ASSUME RInv, DisconnectTip
    PROVE  RInv'
<1>1. UInv /\ UInv' /\ IInv /\ IInv'
  BY DisconnectUInv DEF RInv, UInv
<1>2. PICK t : t = Len(chain) - 1
  OBVIOUS
<1>3. /\ t \in Nat /\ Len(chain) = t + 1
      /\ \A d \in DecisionIds : CutAt(histories[d], histories'[d], t)
  BY <1>1, <1>2, DisconnectCuts
<1>4. /\ Len(chain') = t
      /\ \A i \in 1..t : chain'[i] = chain[i]
      /\ \A i \in 1..t : BlockPeriods'[i] = BlockPeriods[i]
  BY <1>1, <1>2, DisconnectPeriods
<1>5. mainchain_timestamp' = mainchain_timestamp /\ scope' = scope /\ mainchain_timestamp' \in Nat
  BY DEF DisconnectTip, RInv
<1>6. ClockBounded'
  <2>1. \A i \in 1..t : i \in 1..Len(chain)
    BY <1>3
  <2> QED
    BY <1>4, <1>5, <2>1 DEF RInv, ClockBounded
<1>7. ASSUME NEW d \in DecisionIds, NEW k \in 1..3, k =< Len(histories'[d])
      PROVE  /\ Len(histories'[d]) \in 0..3 /\ Len(histories[d]) \in 0..3
             /\ k =< Len(histories[d])
             /\ histories[d] # <<>> /\ histories'[d] # <<>>
             /\ histories'[d][k] = histories[d][k]
             /\ histories'[d][k].height \in Nat /\ histories'[d][k].height < t
  <2>1. /\ histories[d] \in Seq(HistEntry) /\ HistoryOK(histories[d], t + 1)
        /\ histories'[d] \in Seq(HistEntry) /\ HistoryOK(histories'[d], t)
        /\ t + 1 \in Nat
    BY <1>1, <1>3, <1>4 DEF IInv, WellTyped
  <2>2. /\ Len(histories[d]) \in 0..3 /\ (histories[d] = <<>> <=> Len(histories[d]) = 0)
        /\ \A i \in 1..Len(histories[d]) : histories[d][i].height \in Nat
    BY <2>1, HistoryLength
  <2>3. Len(histories'[d]) \in 0..3 /\ (histories'[d] = <<>> <=> Len(histories'[d]) = 0)
    BY <1>3, <2>1, HistoryLength
  <2>4. CutAt(histories[d], histories'[d], t)
    BY <1>3
  <2>5. Len(histories'[d]) =< Len(histories[d]) /\ k \in 1..Len(histories'[d]) /\ k \in 1..Len(histories[d])
    BY <1>7, <2>2, <2>3, <2>4 DEF CutAt
  <2>6. histories'[d][k] = histories[d][k] /\ histories[d][k].height < t
    BY <2>4, <2>5 DEF CutAt
  <2> QED
    BY <2>2, <2>3, <2>5, <2>6
<1>8. ASSUME NEW e \in outcomes'
      PROVE  /\ e \in DecisionIds /\ e \in outcomes /\ Len(histories'[e]) = 3
             /\ histories'[e][3] = histories[e][3]
             /\ histories'[e][3].height \in Nat /\ histories'[e][3].height < t
  <2>1. e \in outcomes /\ e \in DecisionIds /\ Len(histories'[e]) = 3
    BY <1>1 DEF DisconnectTip, IInv, WellTyped
  <2> QED
    BY <1>7, <2>1
<1>9. OutcomesPast(histories, outcomes, BlockPeriods)'
  <2> SUFFICES ASSUME NEW e \in outcomes'
               PROVE  BlockPeriods'[histories'[e][3].height + 1] > VotingPeriod(e)
    BY DEF OutcomesPast
  <2>1. histories'[e][3].height + 1 \in 1..t
    BY <1>3, <1>8
  <2>2. BlockPeriods[histories'[e][3].height + 1] > VotingPeriod(e)
    BY <1>8 DEF RInv, OutcomesPast
  <2> QED
    BY <1>4, <2>1, <2>2
<1>10. ClaimedBefore(histories, outcomes)'
  <2> SUFFICES ASSUME NEW d \in DecisionIds, NEW e \in outcomes',
                      d.is_standard, histories'[d] # <<>>, VotingPeriod(e) = VotingPeriod(d)
               PROVE  histories'[d][1].height =< histories'[e][3].height
    BY DEF ClaimedBefore
  <2>1. Len(histories'[d]) >= 1
    <3>1. histories'[d] \in Seq(HistEntry) /\ HistoryOK(histories'[d], t)
      BY <1>1, <1>4 DEF IInv, WellTyped
    <3>2. Len(histories'[d]) \in 0..3 /\ (histories'[d] = <<>> <=> Len(histories'[d]) = 0)
      BY <1>3, <3>1, HistoryLength
    <3> QED
      BY <3>2
  <2>2. histories[d] # <<>> /\ histories'[d][1] = histories[d][1]
    BY <1>7, <2>1
  <2>3. e \in outcomes /\ histories'[e][3] = histories[e][3]
    BY <1>8
  <2>4. histories[d][1].height =< histories[e][3].height
    BY <2>2, <2>3 DEF RInv, ClaimedBefore
  <2> QED
    BY <2>2, <2>3, <2>4
<1>11. ASSUME NEW d \in DecisionIds
       PROVE  Timely(histories[d], BlockPeriods, Len(chain), scope.is_blocks, d)'
  <2> DEFINE g == histories'[d]
             h == histories[d]
  <2> SUFFICES ASSUME d.is_standard, g # <<>>, NEW j \in g[1].height..(t - 1),
                      BlockPeriods'[j + 1] > VotingPeriod(d)
               PROVE  \/ Len(g) = 3 /\ g[3].height =< j
                      \/ ~scope.is_blocks /\ BlockPeriods'[g[1].height + 1] > VotingPeriod(d)
    BY <1>4, <1>5 DEF Timely
  <2>1. g \in Seq(HistEntry) /\ HistoryOK(g, t) /\ h \in Seq(HistEntry) /\ CutAt(h, g, t)
    BY <1>1, <1>3, <1>4 DEF IInv, WellTyped
  <2>2. Len(g) \in 0..3 /\ (g = <<>> <=> Len(g) = 0)
    BY <1>3, <2>1, HistoryLength
  <2>3. h # <<>> /\ g[1] = h[1] /\ g[1].height \in Nat /\ g[1].height < t
    <3>1. Len(g) >= 1
      BY <2>2
    <3> QED
      BY <1>7, <3>1
  <2>4. Timely(h, BlockPeriods, t + 1, scope.is_blocks, d)
    BY <1>3 DEF RInv
  <2> HIDE DEF g, h
  <2>5. j \in h[1].height..((t + 1) - 1) /\ j + 1 \in 1..t /\ h[1].height + 1 \in 1..t
        /\ j \in Nat /\ j < t
    BY <1>3, <2>3
  <2>6. BlockPeriods[j + 1] > VotingPeriod(d)
    BY <1>4, <2>5
  <2>7. \/ Len(h) = 3 /\ h[3].height =< j
        \/ ~scope.is_blocks /\ BlockPeriods[h[1].height + 1] > VotingPeriod(d)
    BY <2>3, <2>4, <2>5, <2>6 DEF Timely
  <2>8. CASE Len(h) = 3 /\ h[3].height =< j
    <3>1. h[3].height < t
      <4>1. HistoryOK(h, t + 1) /\ t + 1 \in Nat
        BY <1>1, <1>3 DEF IInv, h
      <4>2. \A i \in 1..Len(h) : h[i].height \in Nat
        BY <2>1, <4>1, HistoryLength
      <4>3. h[3].height \in Nat
        BY <2>8, <4>2
      <4> QED
        BY <1>3, <2>5, <2>8, <4>3
    <3>2. 3 =< Len(g)
      BY <2>1, <2>8, <3>1 DEF CutAt
    <3>3. Len(g) = 3
      <4>1. \A l \in 0..3 : 3 =< l => l = 3
        OBVIOUS
      <4> QED
        BY <2>2, <3>2, <4>1, Zenon
    <3>4. g[3] = h[3]
      BY <2>1, <3>3 DEF CutAt
    <3> QED
      BY <2>8, <3>3, <3>4
  <2>9. CASE ~scope.is_blocks /\ BlockPeriods[h[1].height + 1] > VotingPeriod(d)
    <3>1. BlockPeriods'[h[1].height + 1] = BlockPeriods[h[1].height + 1]
      BY <1>4, <2>5
    <3> QED
      BY <2>3, <2>9, <3>1
  <2> QED
    BY <2>7, <2>8, <2>9
<1> QED
  BY <1>1, <1>5, <1>6, <1>9, <1>10, <1>11 DEF RInv

(* RInv holds in every reachable state when the mainchain clock never runs  *)
(* back by more than a period.                                              *)
LEMMA ResolutionInvariance ==
    ASSUME MaxDrift =< Quantity
    PROVE  Spec => []RInv
<1>1. RInv /\ [Next]_vars => RInv'
  <2> SUFFICES ASSUME RInv, [Next]_vars PROVE RInv'
    OBVIOUS
  <2>1. ASSUME NEW ts \in Timestamps, NEW claims \in SUBSET DecisionIds,
               ConnectBlock(ts, claims)
        PROVE  RInv'
    BY <2>1, ConnectRInv
  <2>2. CASE DisconnectTip
    BY <2>2, DisconnectRInv
  <2>3. CASE UNCHANGED vars
    <3>1. IInv'
      BY <2>3 DEF vars, RInv, UInv, IInv, WellTyped, EntryIffHistory, UndoExact
    <3>2. \A i \in 1..Len(chain') : FoundBy(i)'
      BY <2>3 DEF vars, RInv, UInv, FoundBy
    <3>3. UInv'
      BY <2>3, <3>1, <3>2 DEF vars, RInv, UInv
    <3>4. BlockPeriods' = BlockPeriods
      BY <2>3 DEF vars, BlockPeriods, PeriodAt, GetCurrentPeriod
    <3>5. /\ histories' = histories /\ outcomes' = outcomes /\ chain' = chain /\ scope' = scope
          /\ mainchain_timestamp' = mainchain_timestamp
      BY <2>3 DEF vars
    <3> QED
      BY <3>3, <3>4, <3>5 DEF RInv, ClockBounded
  <2> QED
    BY <2>1, <2>2, <2>3 DEF Next
<1> QED
  BY InitRInv, <1>1, PTL DEF Spec

(* For any decisions and any length of a period, as long as the mainchain   *)
(* clock never runs back by more than one: the first block past the voting  *)
(* period of a standard decision computes its consensus, and no reorg       *)
(* leaves the decision waiting in Voting under a later tip.  The exception  *)
(* is a decision whose own claim came in a block past that period.          *)
THEOREM StandardAlwaysResolvedOnTime ==
    ASSUME MaxDrift =< Quantity
    PROVE  Spec => []StandardResolvedOnTime
<1>1. RInv => StandardResolvedOnTime
  <2> SUFFICES ASSUME RInv, NEW d \in DecisionIds, d.is_standard,
                      CurrentState(histories[d]) = "Voting", ~(TipPeriod =< VotingPeriod(d))
               PROVE  ~scope.is_blocks /\ PeriodAt(histories[d][1].height + 1) > VotingPeriod(d)
    BY DEF StandardResolvedOnTime
  <2> DEFINE n == Len(chain)
             h == histories[d]
             c == h[1].height
  <2>1. n \in Nat /\ h \in Seq(HistEntry) /\ HistoryOK(h, n)
    BY DEF RInv, UInv, IInv, WellTyped
  <2>2. Len(h) = 2 /\ h # <<>>
    BY <2>1, CurrentStateByLength, EmptySeq
  <2>3. c \in Nat /\ c < n
    <3>1. \A i \in 1..Len(h) : h[i].height \in Nat
      BY <2>1, HistoryLength
    <3> QED
      BY <2>1, <2>2, <3>1 DEF HistoryOK
  <2>4. n \in 1..n /\ c + 1 \in 1..n /\ n - 1 \in c..(n - 1) /\ (n - 1) + 1 = n
    BY <2>1, <2>3
  <2>5. BlockPeriods[n] = TipPeriod /\ BlockPeriods[c + 1] = PeriodAt(c + 1)
    BY <2>4 DEF BlockPeriods, TipPeriod
  <2>6. BlockPeriods[n] > VotingPeriod(d)
    <3>1. TipPeriod \in Nat
      <4>1. chain[n] \in [ts : Timestamps, claims : SUBSET DecisionIds]
        <5>1. chain \in Seq([ts : Timestamps, claims : SUBSET DecisionIds])
          BY DEF RInv, UInv, IInv, WellTyped
        <5>2. \A i \in 1..Len(chain) : chain[i] \in [ts : Timestamps, claims : SUBSET DecisionIds]
          BY <5>1, ElementOfSeq
        <5> QED
          BY <2>4, <5>2, Zenon
      <4>2. chain[n].ts \in Nat /\ genesis_timestamp \in Nat
        BY <4>1, DecisionsAssumption DEF RInv, UInv, IInv, WellTyped
      <4>3. n - 1 \in Nat
        BY <2>1, <2>3
      <4> QED
        BY <4>2, <4>3, CurrentPeriodNat DEF TipPeriod, PeriodAt
    <3>2. VotingPeriod(d) \in Nat
      BY DecisionsAssumption DEF Periods, VotingPeriod
    <3> QED
      BY <2>5, <3>1, <3>2
  <2>7. Timely(h, BlockPeriods, n, scope.is_blocks, d)
    BY DEF RInv
  <2> HIDE DEF n, h, c
  <2>8. ~scope.is_blocks /\ BlockPeriods[c + 1] > VotingPeriod(d)
    BY <2>2, <2>4, <2>6, <2>7 DEF Timely, c
  <2> QED
    BY <2>5, <2>8 DEF c, h
<1> QED
  BY ResolutionInvariance, <1>1, PTL

=============================================================================
