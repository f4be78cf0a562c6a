------------------------------- MODULE MCMath -------------------------------
(***************************************************************************)
(* The pure algorithms over bounded inputs: listing fees, markets,         *)
(* consensus, block bodies, withdrawal bundles and proofs of work.  Every  *)
(* state but the seeds is one input of one of them, and the invariants     *)
(* compare what the code computes with what it is meant to.                *)
(***************************************************************************)
EXTENDS DecisionMath, MarketMath, ConsensusMath, DecisionTypes, OutcomeSpace, Lmsr, Bodies,
        Bundles, TxPow

CONSTANTS
    MaxPrice, MaxSlots,     \* bounds of the inputs of a reprice
    MaxHeld, MaxPool,       \* shares of a position and weights; sats of a pool
    MaxRep,                 \* reputation of a voter
    MaxTransactions         \* leaves of a Merkle tree

VARIABLE input

ScriptSizes == <<22, 34, 22>>      \* bytes: a key hash, a taproot key, another key hash

Functions4 == <<"Sha256", "Sha512", "Blake3", "Shake256">>

Options == 2        \* of the categorical decision

SomeVotes == [kind \in {"binary", "scaled", "categorical"} |->
                 IF kind = "categorical" THEN 0..Options
                 ELSE IF kind = "binary" THEN {0, Full} ELSE {0, Full \div 2, Full}]

Participants(weights) == [i \in DOMAIN weights |-> [key |-> i, weight |-> weights[i]]]

Position == [shares : 1..MaxHeld - 1, price : 0..PriceScale - 1]

KeyOf(o) == IF o = "o1" THEN "k1" ELSE "k2"

(* Three outputs are to be spent, so that of the signatures of a body that   *)
(* could be valid a second, shorter chunk decides; "o4" is not there.        *)
Utxos == [o \in {"o1", "o2", "o3"} |-> [address |-> AddressOf(KeyOf(o)), value |-> 1]]

BodyTransactions ==
    {<<[txid |-> "t1", inputs |-> i], [txid |-> "t2", inputs |-> j]>> :
        i, j \in {<<>>, <<"o1">>, <<"o3">>, <<"o1", "o2">>, <<"o2", "o3">>, <<"o4">>}}

SomeDecisions ==
    {[kind |-> "binary"]}
    \cup {[kind |-> "scaled", min |-> min, max |-> max, increment |-> step] :
             min \in -1..1, max \in 0..3, step \in 1..2}
    \cup {[kind |-> "category", options |-> n] : n \in 1..3}

\* Decision 1 is binary, 2 is scaled and 3 has three options.
Market3 == [id \in 1..3 |->
    [kind |-> <<"binary", "scaled", "categorical">>[id], options |-> 3,
     outcome |-> None]]

SomeSpecs == SeqOf({[tag |-> t, id |-> i] : t \in {"Single", "Categorical"}, i \in 1..4}, 3)

SomeOutcomes == {None, 0, PriceScale \div 2, PriceScale}

SomeOutputs == {[content |-> "bitcoin", value |-> 1, mainFee |-> 0],
                [content |-> "withdrawal", value |-> 1, mainFee |-> 1],
                [content |-> "funds", value |-> 1, mainFee |-> 0]}

SomeAuthorizations(txs) == {Signature(k, txs[i]) : k \in {"k1", "k2"}, i \in 1..2}

Topics ==
    {"reprice", "payouts", "allocate", "consensus", "body", "fees",
     "root", "bundle", "id", "vote", "outcomes", "lmsr", "order", "digest"}

\* A seed for each topic, which the inputs of the topic follow.
Init == \E t \in Topics : input = [topic |-> "seed", of |-> t]

Seed(t) == input.topic = "seed" /\ input.of = t

Next ==
    \/ Seed("reprice") /\ \E price \in 0..MaxPrice, available \in 0..MaxSlots, sales \in 0..MaxSlots :
          input' = [topic |-> "reprice", price |-> price, available |-> available,
                   sales |-> sales]
    \/ Seed("payouts") /\ \E positions \in [1..3 -> Position], slack \in 0..1 :
          input' = [topic |-> "payouts", positions |-> positions, slack |-> slack]
    \/ Seed("allocate") /\ \E n \in 1..3 : \E weights \in [1..n -> 1..MaxHeld], pool \in 0..MaxPool :
          input' = [topic |-> "allocate", participants |-> Participants(weights), pool |-> pool]
    \/ Seed("consensus") /\ \E rep \in [1..3 -> 1..MaxRep], kind \in DOMAIN SomeVotes :
          \E matrix \in [(1..3) \X {1} -> {NaN} \cup SomeVotes[kind]] :
          input' = [topic |-> "consensus", kind |-> kind, rep |-> rep, matrix |-> matrix]
    \/ Seed("body") /\ \E txs \in BodyTransactions : \E auths \in SeqOf(SomeAuthorizations(txs), 3),
          proofs \in {<<>>, <<Signature("k1", txs[1])>>, <<NoProof, Signature("k2", txs[1])>>} :
          input' = [topic |-> "body", transactions |-> txs, authorizations |-> auths,
                   actorProofs |-> proofs]
    \/ Seed("fees") /\ \E kind \in {"trade", "plain"}, spent \in SeqOf(1..2, 2), outputs \in SeqOf(SomeOutputs, 2),
          coinbase \in SeqOf(SomeOutputs, 2), skipped \in SUBSET {1} :
          input' = [topic |-> "fees", tx |-> [kind |-> kind, spent |-> spent, outputs |-> outputs],
                   coinbase |-> coinbase, skipped |-> skipped]
    \/ Seed("root") /\ \E outputs \in SeqOf({[value |-> 0], [value |-> 1]}, MaxTransactions),
          txids \in SeqOf({"a", "b", "c"}, MaxTransactions) :
          input' = [topic |-> "root", outputs |-> outputs, txids |-> txids]
    \/ Seed("bundle") /\ \E owner \in [1..3 -> DOMAIN SpkSizes], value, fee \in [1..3 -> 1..2] :
          input' = [topic |-> "bundle",
                   withdrawals |-> {[out |-> i, address |-> owner[i], value |-> value[i],
                                     mainFee |-> fee[i]] : i \in 1..3}]
    \/ Seed("id") /\ \E standard \in BOOLEAN, period \in 0..2^IdByteBits, index \in 0..2^(2 * IdByteBits) :
          input' = [topic |-> "id", standard |-> standard, period |-> period, index |-> index]
    \/ Seed("vote") /\ \E decision \in SomeDecisions, num \in -2..4, den \in 1..2, nan \in BOOLEAN :
          input' = [topic |-> "vote", decision |-> decision,
                   value |-> IF nan THEN Abstain ELSE [num |-> num, den |-> den]]
    \/ Seed("outcomes") /\ \E specs \in SomeSpecs, outcomes \in [1..3 -> SomeOutcomes] :
          /\ \A i \in 1..3 : outcomes[i] # None => \E d \in DOMAIN specs : specs[d].id = i
          /\ input' = [topic |-> "outcomes", specs |-> specs, outcomes |-> outcomes,
                       known |-> 1..3, claims |-> <<>>]
    \/ Seed("outcomes") /\ \E specs \in SomeSpecs, known \in {1..2, 1..3}, n \in 0..2 :
          input' = [topic |-> "outcomes", specs |-> specs, outcomes |-> [i \in 1..3 |-> None],
                    known |-> known,
                    claims |-> [i \in 1..n |-> [id |-> 3, decision |-> Market3[3]]]]
    \/ Seed("lmsr") /\ \E n \in 2..3 : \E shares \in [1..n -> 0..3], b \in 0..3 :
          input' = [topic |-> "lmsr", shares |-> shares, b |-> b]
    \/ Seed("order") /\ \E selector \in 0..2^Len(HashFunctions) - 1, ordering \in 0..30 :
          input' = [topic |-> "order", selector |-> selector, ordering |-> ordering]
    \/ Seed("digest") /\ \E digest \in [1..3 -> 0..2^ByteBits - 1], difficulty \in 0..3 * ByteBits :
          input' = [topic |-> "digest", digest |-> digest, difficulty |-> difficulty]
    \/ input.topic # "seed" /\ UNCHANGED input

Spec == Init /\ [][Next]_input

-----------------------------------------------------------------------------
(* The fixed-point reprice is the integer part of price*2^(2s/a - 1), or    *)
(* one less: r^a =< price^a * 2^(2s - a) < (r + 2)^a; and selling one more  *)
(* slot in a window never makes the next price lower, across the exact      *)
(* anchors (none, half, all) and the series between them.                   *)
RepriceOnCurve ==
    (input.topic = "reprice" /\ input.available > 0 /\ input.sales =< input.available) =>
        LET a == input.available
            s == input.sales
            r == Reprice(input.price, s, a)
        IN  /\ r^a * 2^a =< input.price^a * 2^(2 * s)
            /\ input.price^a * 2^(2 * s) < (r + 2)^a * 2^a
            /\ s < a => r =< Reprice(input.price, s + 1, a)

(* Payouts of a market whose treasury covers the exact value of all         *)
(* positions never exceed the treasury, and nobody gets less than the whole *)
(* sats of the value of the position, nor a sat too many.                   *)
PayoutsCovered ==
    input.topic = "payouts" =>
        LET positions == input.positions
            exact == SumSeq([i \in DOMAIN positions |-> ExactValue(positions[i])])
            treasury == RoundUp(exact, PriceScale) + input.slack
            paid == SharePayouts(positions, PriceScale, treasury)
        IN  /\ SumSeq(paid) =< treasury
            /\ \A i \in DOMAIN positions :
                  paid[i] \in RoundDown(ExactValue(positions[i]), PriceScale)
                                ..RoundUp(ExactValue(positions[i]), PriceScale)

(* A pool is handed out whole, whatever the roundings: the remainder goes   *)
(* to the largest share, an excess is taken from the smallest, and nobody   *)
(* gets more than the exact part and one sat for each participant.          *)
AllocationExact ==
    input.topic = "allocate" =>
        LET people == input.participants
            n == Len(people)
            total == SumSeq([i \in DOMAIN people |-> people[i].weight])
            paid == Allocate(people, input.pool)
        IN  /\ SumSeq(Amounts(paid)) = input.pool
            /\ \A k \in DOMAIN paid :
                  /\ paid[k].amount >= 0
                  /\ \A j \in DOMAIN paid : paid[k].key = paid[j].key => j = k
                  /\ total * paid[k].amount
                        =< people[paid[k].key].weight * input.pool + n * total

Kind1 == [j \in {1} |-> [kind |-> input.kind,
                         options |-> IF input.kind = "categorical" THEN Options ELSE 0]]

Result == RunConsensus(input.matrix, {1}, input.rep, Kind1, <<>>)

AllVoted == \A c \in DOMAIN input.matrix : input.matrix[c] # NaN

(* Consensus moves reputation and makes or loses none, whatever was voted,  *)
(* abstained or scored; nobody's becomes negative; and whoever did not      *)
(* absorb the rounding keeps all but the part that is smoothed.  The        *)
(* weighted median, by which scaled decisions resolve, leaves no more than  *)
(* half of the reputation strictly on either side.                          *)
ConsensusConserves ==
    input.topic = "consensus" =>
        \A new \in {Result.updated} : \A absorbs \in {FirstMost(new)} :
            /\ Total(new) = Total(input.rep)
            /\ \A i \in DOMAIN new :
                  AlphaDen * (new[i] + (IF i = absorbs THEN 2 ELSE 0)) + AlphaDen
                     >= (AlphaDen - AlphaNum) * input.rep[i]
            /\ AllVoted =>
                  LET values == [i \in 1..3 |-> input.matrix[i, 1]]
                      Weight(S) == MapThenSumSet(LAMBDA i : input.rep[i], S)
                  IN  \A median \in {TwiceMedian(values, input.rep)} :
                      /\ 2 * Weight({i \in 1..3 : 2 * values[i] < median}) =< Total(input.rep)
                      /\ 2 * Weight({i \in 1..3 : 2 * values[i] > median}) =< Total(input.rep)

(* The voters who share the fees of a categorical decision are those who    *)
(* named what won the plurality, "Inconclusive" after a tie included: the   *)
(* outcome is stored as a number from which payouts must tell the winner.   *)
CategoricalPays ==
    (input.topic = "consensus" /\ input.kind = "categorical") =>
        \A outcome \in {Result.outcomes[1]} : \A i \in 1..3 :
            LET vote == input.matrix[i, 1]
                named == Votes(input.matrix, 1..3, 1, vote)
                rivals == {k \in 0..Options : k # vote}
                won == \/ \A k \in rivals : Votes(input.matrix, 1..3, 1, k) < named
                       \/ /\ vote = Options
                          /\ \E k, l \in 0..Options :
                                /\ k # l
                                /\ \A o \in 0..Options :
                                      Votes(input.matrix, 1..3, 1, o)
                                        =< Votes(input.matrix, 1..3, 1, k)
                                /\ Votes(input.matrix, 1..3, 1, l)
                                        = Votes(input.matrix, 1..3, 1, k)
            IN  vote # NaN => (IsVoteCorrect(vote, outcome, Kind1[1]) <=> won)

(* Reputation follows agreement: of two voters on a binary decision that    *)
(* was decided, the one whose vote is the outcome keeps a larger part of     *)
(* the reputation held before than the one whose vote is not.  The          *)
(* component has no sign of its own: the code picks one by comparison.      *)
AgreementRewarded ==
    (input.topic = "consensus" /\ input.kind = "binary" /\ AllVoted) =>
        \A smooth \in {Smooth(input.matrix, input.matrix, {1}, input.rep, <<>>)},
           outcome \in {Result.outcomes[1]} :
            LET rep == input.rep
                right == {i \in 1..3 : input.matrix[i, 1] = outcome}
            IN  outcome # Neutral =>
                    \A i \in right, k \in (1..3) \ right : smooth[i] * rep[k] > smooth[k] * rep[i]

-----------------------------------------------------------------------------
\* Some payload of a claim makes it a decision.
Claimable(decision) ==
    \E labels \in 0..3 :
        ValidPayload([decision |-> decision, entries |-> <<[id |-> 1, labels |-> labels]>>])

\* Two values that a client takes for the decision.
TwoAnswers(decision) ==
    \E a, b \in -1..3 :
        a # b /\ \A n \in {a, b} : EntryAccepted(decision, [num |-> n, den |-> 1])

(* What can be claimed can be decided: it has two answers at least.         *)
(* A vote that a client takes from a user is one that a block may carry,    *)
(* and after it was normalized, stored, counted and shown again it is the   *)
(* value that the user entered; the client of a scaled decision takes the   *)
(* steps of its scale and nothing else.  The three bytes of an id give back *)
(* what they were made of.                                                  *)
VotesRoundTrip ==
    /\ input.topic = "id" =>
          LET id == NewId(input.standard, input.period, input.index)
          IN  id.ok => /\ IsStandard(id.bytes) = input.standard
                       /\ PeriodIndex(id.bytes) = input.period
                       /\ DecisionIndex(id.bytes) = input.index
                       /\ \A i \in 1..3 : id.bytes[i] \in 0..2^IdByteBits - 1
    /\ (input.topic = "vote" /\ Claimable(input.decision)) =>
          LET decision == input.decision
              value == input.value
              vote(id, period) == [id |-> id, period |-> period, value |-> value]
              ballot == Ballot(<<vote(1, 1), vote(1, 1)>>, <<decision>>)
              sent == ballot.items[2]
          IN  /\ TwoAnswers(decision)
              /\ ~Ballot(<<vote(1, 1), vote(1, 2)>>, <<decision>>).ok
              /\ ~Ballot(<<vote(1, 1), vote(2, 1)>>, <<decision>>).ok
              /\ IF value = Abstain
                 THEN ballot.ok /\ ToFloat(ConvertVoteValue(decision, sent)) = Abstain
                 ELSE /\ ballot.ok =>
                            /\ VoteAccepted(decision, sent)
                            /\ Same(Denormalize(decision,
                                                ToFloat(ConvertVoteValue(decision, sent))),
                                    value)
                      /\ decision.kind = "scaled" =>
                            (ballot.ok <=>
                                \E k \in 0..(decision.max - decision.min) \div decision.increment :
                                    Same(value, [num |-> decision.min + k * decision.increment,
                                                 den |-> 1]))

(* A market that was validated, with the decisions its transaction claims,  *)
(* can be built, unless it names a decision twice or has too many outcomes, *)
(* which only building it finds out.  Then                                  *)
(* outcomes and combinations of states determine each other, and the final  *)
(* prices of the outcomes with one state of a dimension are in the ratio of *)
(* the prices of that decision alone, so that they sum to one.              *)
OutcomesExact ==
    input.topic = "outcomes" =>
        LET specs == input.specs
            stored == [i \in input.known |-> [Market3[i] EXCEPT !.outcome = input.outcomes[i]]]
            decisions == Claimed(input.claims, stored)
            dims == DOMAIN specs
            valid == ValidStateCombos(specs, decisions)
            prices == JointPrices(specs, decisions)
            ranges == [d \in dims |-> TradeableRange(specs[d], decisions)]
            Marginal(d, v) == SumSeq([i \in DOMAIN valid |->
                                          IF valid[i][d] = v - 1 THEN prices[i] ELSE 0])
            built == BuildMarket(specs, input.claims, stored)
        IN  ValidateMarketCreation(specs, input.claims, stored) =>
                /\ built.ok <=>
                      /\ \A i, j \in dims : specs[i].id = specs[j].id => i = j
                      /\ OutcomeSpaceSize(ranges) =< MaxOutcomes
                /\ built.ok =>
                      /\ Len(valid) = OutcomeSpaceSize(ranges)
                      /\ \A i \in DOMAIN valid : TradeableIndex(specs, decisions, valid[i]) = i
                      /\ SumSeq(prices) > 0
                      /\ \A d \in dims : \A v \in 1..ranges[d] :
                            LET axis == Axis(specs[d], decisions[specs[d].id])
                            IN  Marginal(d, v) * SumSeq(axis) = axis[v] * SumSeq(prices)

(* What Markets assumes of its cost function, of the LMSR in fixed point:   *)
(* the author never loses more than the liquidity that was paid in, one     *)
(* share of every outcome costs exactly what the one that wins is paid, and *)
(* each share costs, up to rounding, no less than the one before.           *)
LmsrBounded ==
    (input.topic = "lmsr" /\ ValidParams(input.shares, input.b)) =>
        LET q == input.shares
            b == input.b
            none == [i \in DOMAIN q |-> 0]
            one == Base * Precision
            Buy(s, i) == [s EXCEPT ![i] = @ + 1]
        IN  /\ CostFunction(none, b) = Liquidity(Len(q), b)
            /\ \A i \in DOMAIN q :
                  /\ q[i] * one - UpdateCost(none, q, b) =< Liquidity(Len(q), b)
                  /\ UpdateCost(q, Buy(q, i), b) \in 0..one + b
                  /\ UpdateCost(q, Buy(q, i), b)
                        =< UpdateCost(Buy(q, i), Buy(Buy(q, i), i), b) + 2 * b
            /\ UpdateCost(q, [i \in DOMAIN q |-> q[i] + 1], b) = one
            /\ \A i, j \in DOMAIN q : q[i] < q[j] => Prices(q, b)[i] < Prices(q, b)[j]

(* A body, whose signatures are flattened and verified in chunks, is valid  *)
(* exactly if it holds one signature for each input and every transaction   *)
(* dealt out of it is valid by itself, with no output spent twice: no       *)
(* signature for one transaction or output passes for another.  Packing     *)
(* what was dealt out gives the body back; and what the owners of its       *)
(* inputs authorize is valid.                                               *)
BodiesVerifyEach ==
    input.topic = "body" =>
        LET body == [transactions |-> input.transactions,
                     authorizations |-> input.authorizations,
                     actorProofs |-> input.actorProofs]
            split == AuthorizedTransactions(body)
            all == Inputs(body.transactions)
        IN  /\ Prevalidate(Utxos, body) <=>
                  /\ split.ok /\ Len(body.authorizations) = Len(all)
                  /\ \A i \in DOMAIN split.list : ValidateTransaction(Utxos, split.list[i])
                  /\ IsInjective(all)
            /\ (split.ok /\ Len(body.authorizations) = Len(all)) =>
                  LET again == BodyNew(split.list)
                  IN  /\ again.transactions = body.transactions
                      /\ again.authorizations = body.authorizations
            /\ \A i \in DOMAIN body.transactions :
                  LET tx == body.transactions[i]
                      signed == Authorize([j \in DOMAIN tx.inputs |->
                                     <<Utxos[tx.inputs[j]].address, KeyOf(tx.inputs[j])>>], tx)
                  IN  ToSet(tx.inputs) \subseteq DOMAIN Utxos =>
                          signed.ok /\ ValidateTransaction(Utxos, signed)

(* A block makes no money: if its transactions have fees and its coinbase   *)
(* passes, what the coinbase and the transactions pay out, with mainchain   *)
(* fees, is at most what is spent, unless the transaction is skipped and    *)
(* what it spends stays; and storing its outputs, which counts them by      *)
(* another rule, does not fail after the fee has been computed.             *)
FeesCover ==
    input.topic = "fees" =>
        LET tx == input.tx
            applies == input.skipped = {}
            accepted == /\ ValidateCoinbaseOutputs(input.coinbase)
                        /\ BitcoinFee(tx).ok
                        /\ tx.kind = "trade" =>
                              tx.outputs = <<>> /\ SumOf(tx.spent) >= MinerFee
                        /\ tx.kind = "plain" => applies
                        /\ ValidateFees(CoinbaseValue(input.coinbase), <<tx>>,
                                        input.skipped, MinerFee)
        IN  accepted =>
                /\ FilledOutputs(tx).ok
                /\ CoinbaseValue(input.coinbase)
                      + (IF applies THEN CoinbaseValue(FilledOutputs(tx).outputs) ELSE 0)
                      =< (IF applies THEN SumOf(tx.spent) ELSE 0)

(* The root binds the body: another list of coinbase outputs or of distinct *)
(* transactions has another root.  (A repeated last transaction does not    *)
(* change it; such a body spends twice and is refused.)  Building the tree  *)
(* over the coinbase outputs only ever merges siblings, as the code asserts, *)
(* and totals their values.                                                 *)
RootBinds ==
    input.topic = "root" =>
        LET tree == BuildMerkleRoot(CoinbaseLeaves(input.outputs))
            Body(ids) == [i \in DOMAIN ids |-> [txid |-> ids[i]]]
            Root(outputs, ids) ==
                ComputeMerkleRoot([memo |-> "m", outputs |-> outputs], Body(ids))
            others == {ids \in SeqOf({"a", "b", "c"}, MaxTransactions) :
                          IsInjective(ids) /\ ids # input.txids}
        IN  /\ tree.ok
            /\ tree.value = SumSeq([i \in DOMAIN input.outputs |-> input.outputs[i].value])
            /\ IsInjective(input.txids) =>
                  \A ids \in others :
                      Root(input.outputs, ids) # Root(input.outputs, input.txids)
            /\ \A i \in DOMAIN input.outputs :
                  LET changed == [input.outputs EXCEPT ![i].value = 1 - @]
                  IN  /\ Root(changed, input.txids) # Root(input.outputs, input.txids)
                      /\ Root(RemoveAt(input.outputs, i), input.txids)
                            # Root(input.outputs, input.txids)

(* All nodes propose the same bundle from the same withdrawals, whatever    *)
(* order a hash map lists them in; a bundle chosen by its predicted weight  *)
(* is never refused as too heavy when it is built; it pays its addresses    *)
(* what the outputs that it spends withdraw, and leaves out no address that *)
(* pays more than one it takes.                                             *)
BundleSound ==
    input.topic = "bundle" =>
        LET ws == input.withdrawals
            sorted == Sorted(Aggregate(ws))
        IN  /\ Cardinality(sorted) = 1
            /\ \A s \in sorted :
                  LET bundle == CollectBundle(s)
                      paid == {bundle.outputs[i].address : i \in DOMAIN bundle.outputs}
                      spent == {w \in ws : w.out \in bundle.spends}
                      FeeOf(a) == MapThenSumSet(LAMBDA w : w.mainFee,
                                                {w \in ws : w.address = a})
                  IN  /\ BundleBuilt(bundle)
                      /\ spent = {w \in ws : w.address \in paid}
                      /\ SumSeq([i \in DOMAIN bundle.outputs |-> bundle.outputs[i].value])
                            = MapThenSumSet(LAMBDA w : w.value, spent)
                      /\ bundle.fee = MapThenSumSet(LAMBDA w : w.mainFee, spent)
                      /\ \A a \in paid, b \in {w.address : w \in ws} \ paid :
                            FeeOf(a) >= FeeOf(b)

(* The functions of a proof of work are the selected ones, each once, in an *)
(* order that the ordering byte tells apart up to the number of orders; a   *)
(* valid config lets no digest of ones pass, also with no function chosen,  *)
(* when the digest is all zeros; and a digest meets a difficulty exactly    *)
(* if, as a number, it is below the bound that many leading zeros set.      *)
PowExact ==
    /\ input.topic = "order" =>
          LET Order(o) == OrderedFunctions([selector |-> input.selector, ordering |-> o])
              selected == SelectedFunctions(input)
              orders == Factorial(Len(selected))
              config == [selector |-> input.selector, ordering |-> input.ordering,
                         difficulty |-> 1]
          IN  /\ ValidConfig(config) => ~PowVerify(config, <<2^ByteBits - 1>>)
              /\ IsInjective(Order(input.ordering))
              /\ ToSet(Order(input.ordering)) = ToSet(selected)
              /\ \A o \in 0..30 :
                    Order(o) = Order(input.ordering) <=> o % orders = input.ordering % orders
    /\ input.topic = "digest" =>
          LET config == [selector |-> 1, ordering |-> 0, difficulty |-> input.difficulty]
              number == FoldLeft(LAMBDA n, byte : n * 2^ByteBits + byte, 0, input.digest)
          IN  PowVerify(config, input.digest)
                <=> number < 2^(3 * ByteBits - input.difficulty)

(* A market keeps enough to pay whatever happens: its author's seed covers   *)
(* the worst outcome, its payouts are covered by what it holds, and every    *)
(* fee that it shares out goes to somebody.                                  *)
MarketsSolvent == LmsrBounded /\ PayoutsCovered /\ AllocationExact

(* The consensus moves reputation to those who agree, and the payouts go by  *)
(* what it decided.                                                          *)
ConsensusSound == ConsensusConserves /\ CategoricalPays /\ AgreementRewarded

(* What a block carries is authorized, paid for, bound by its root, and has  *)
(* the proof of work it asks for.                                            *)
BodiesSound == BodiesVerifyEach /\ FeesCover /\ RootBinds /\ PowExact
=============================================================================
