----------------------------- MODULE PeersProofs -----------------------------
(***************************************************************************)
(* Proofs about what a node makes of its peers: that the table of active   *)
(* peers and the tasks of the connections agree (Peers), and that the      *)
(* check of a peer's tip and better_tip are one order (TipChoice).         *)
(***************************************************************************)
EXTENDS Peers, TipChoice, TLAPS, FiniteSetTheorems, WellFoundedInduction

-----------------------------------------------------------------------------
(* The books of the net task: its tables and its channels.                  *)

(* What the books have, whatever else is in an entry or in a channel.       *)
Shaped(n) ==
    /\ {"known", "active", "channels"} \subseteq DOMAIN n
    /\ IsFiniteSet(n.known)
    /\ IsFiniteSet(DOMAIN n.channels)
    /\ \A a \in DOMAIN n.active : {"id", "task"} \subseteq DOMAIN n.active[a]
    /\ \A i \in DOMAIN n.channels : {"addr", "open"} \subseteq DOMAIN n.channels[i]

(* An open channel belongs to the entry at its address, whose task goes on. *)
OpenHasEntry(n, i) ==
    n.channels[i].open =>
        LET a == n.channels[i].addr
        IN  a \in DOMAIN n.active /\ n.active[a].id = i /\ n.active[a].task # "ended"

(* An entry has a channel, open as long as its task goes on.                *)
EntryHasChannel(n, a) ==
    LET c == n.active[a]
    IN  /\ c.id \in DOMAIN n.channels /\ n.channels[c.id].addr = a
        /\ n.channels[c.id].open <=> c.task # "ended"

Matched(n) ==
    /\ \A i \in DOMAIN n.channels : OpenHasEntry(n, i)
    /\ \A a \in DOMAIN n.active : EntryHasChannel(n, a)

Kept(n) == Shaped(n) /\ Matched(n)

(* The inductive invariant; the names are those that redial_known_peers     *)
(* dials.                                                                   *)
PeersInv ==
    /\ Kept(net)
    /\ "names" \in DOMAIN budget /\ IsFiniteSet(budget.names)

(* The same connections and channels, in the same states.                   *)
SameEntry(c, d) ==
    /\ {"id", "task"} \subseteq DOMAIN d
    /\ d.id = c.id /\ (d.task # "ended" <=> c.task # "ended")

SameChannel(c, d) ==
    /\ {"addr", "open"} \subseteq DOMAIN d
    /\ d.addr = c.addr /\ d.open = c.open

SameBooks(n, m) ==
    /\ {"known", "active", "channels"} \subseteq DOMAIN m
    /\ IsFiniteSet(m.known)
    /\ DOMAIN m.active = DOMAIN n.active
    /\ \A a \in DOMAIN n.active : SameEntry(n.active[a], m.active[a])
    /\ DOMAIN m.channels = DOMAIN n.channels
    /\ \A i \in DOMAIN n.channels : SameChannel(n.channels[i], m.channels[i])

LEMMA SameBooksKept ==
    ASSUME NEW n, Kept(n), NEW m, SameBooks(n, m)
    PROVE  Kept(m)
<1>1. Shaped(m)
  BY DEF Kept, Shaped, SameBooks, SameEntry, SameChannel
<1>2. ASSUME NEW i \in DOMAIN m.channels PROVE OpenHasEntry(m, i)
  <2>1. OpenHasEntry(n, i) /\ SameChannel(n.channels[i], m.channels[i])
    BY <1>2 DEF Kept, Matched, SameBooks
  <2> QED
    BY <2>1 DEF OpenHasEntry, SameBooks, SameChannel, SameEntry
<1>3. ASSUME NEW a \in DOMAIN m.active PROVE EntryHasChannel(m, a)
  <2>1. EntryHasChannel(n, a) /\ SameEntry(n.active[a], m.active[a])
    BY <1>3 DEF Kept, Matched, SameBooks
  <2>2. SameChannel(n.channels[n.active[a].id], m.channels[n.active[a].id])
    BY <2>1 DEF EntryHasChannel, SameBooks
  <2> QED
    BY <2>1, <2>2 DEF EntryHasChannel, SameBooks, SameChannel, SameEntry
<1> QED
  BY <1>1, <1>2, <1>3 DEF Kept, Matched

(* A change of one connection that leaves its number and its task.          *)
LEMMA UpdateConnection ==
    ASSUME NEW n, Kept(n), NEW a, NEW c,
           a \in DOMAIN n.active => SameEntry(n.active[a], c),
           NEW m, m = [n EXCEPT !.active[a] = c]
    PROVE  SameBooks(n, m)
<1>1. /\ DOMAIN m = DOMAIN n /\ m.known = n.known /\ m.channels = n.channels
      /\ DOMAIN m.active = DOMAIN n.active
      /\ \A b \in DOMAIN n.active : m.active[b] = IF b = a THEN c ELSE n.active[b]
  BY DEF Kept, Shaped
<1>2. \A b \in DOMAIN n.active : SameEntry(n.active[b], m.active[b])
  BY <1>1 DEF Kept, Shaped, SameEntry
<1>3. \A i \in DOMAIN n.channels : SameChannel(n.channels[i], m.channels[i])
  BY <1>1 DEF Kept, Shaped, SameChannel
<1> QED
  BY <1>1, <1>2, <1>3 DEF SameBooks, Kept, Shaped

(* An info to the net task.                                                 *)
LEMMA SendInfoSame ==
    ASSUME NEW n, Kept(n), NEW a, NEW info
    PROVE  SameBooks(n, SendInfo(n, a, info))
<1> DEFINE m == SendInfo(n, a, info)
<1>1. /\ DOMAIN m = DOMAIN n /\ m.known = n.known /\ m.active = n.active
      /\ DOMAIN m.channels = DOMAIN n.channels
      /\ \A i \in DOMAIN n.channels :
             m.channels[i] = IF i = n.active[a].id
                             THEN [n.channels[i] EXCEPT !.infos = Append(@, info)]
                             ELSE n.channels[i]
  BY DEF Kept, Shaped, SendInfo
<1> HIDE DEF m
<1>2. \A b \in DOMAIN n.active : SameEntry(n.active[b], m.active[b])
  BY <1>1 DEF Kept, Shaped, SameEntry
<1>3. ASSUME NEW i \in DOMAIN n.channels PROVE SameChannel(n.channels[i], m.channels[i])
  BY <1>1 DEF Kept, Shaped, SameChannel
<1>4. SameBooks(n, m)
  BY <1>1, <1>2, <1>3 DEF SameBooks, Kept, Shaped
<1> QED
  BY <1>4 DEF m

(* A number that no channel has.                                            *)
LEMMA FreshId ==
    ASSUME NEW D, IsFiniteSet(D)
    PROVE  \E i \in 1..(Cardinality(D) + 1) : i \notin D
<1> SUFFICES ASSUME 1..(Cardinality(D) + 1) \subseteq D PROVE FALSE
  OBVIOUS
<1> DEFINE k == Cardinality(D)
           I == 1..(k + 1)
<1>1. k \in Nat
  BY FS_CardinalityType
<1>2. Cardinality(I) = k + 1
  <2>1. 1 \in Int /\ k + 1 \in Int /\ ~(1 > k + 1) /\ (k + 1) - 1 + 1 = k + 1
    BY <1>1
  <2> HIDE DEF k
  <2> QED
    BY <2>1, FS_Interval
<1>3. I \subseteq D
  OBVIOUS
<1> HIDE DEF I
<1>4. Cardinality(I) <= k
  BY <1>3, FS_Subset
<1> QED
  BY <1>1, <1>2, <1>4

(* add_active_peer: the entry and its open channel are new together.        *)
LEMMA AddKept ==
    ASSUME NEW n, Kept(n), NEW a, a \notin DOMAIN n.active, NEW resolved, NEW task,
           task # "ended"
    PROVE  Kept(AddActivePeer(n, a, resolved, task))
<1> DEFINE id == CHOOSE i \in 1..(Cardinality(DOMAIN n.channels) + 1) : i \notin DOMAIN n.channels
           c == NewConnection(id, resolved, task)
           ch == [addr |-> a, infos |-> <<>>, open |-> TRUE]
           m == AddActivePeer(n, a, resolved, task)
<1>1. id \notin DOMAIN n.channels
  <2>1. IsFiniteSet(DOMAIN n.channels)
    BY DEF Kept, Shaped
  <2> QED
    BY <2>1, FreshId
<1>2. {"id", "task"} \subseteq DOMAIN c /\ c.id = id /\ c.task = task
  BY DEF NewConnection
<1>3. {"addr", "open"} \subseteq DOMAIN ch /\ ch.addr = a /\ ch.open = TRUE
  OBVIOUS
<1>4. m = [n EXCEPT !.active = Put(n.active, a, c), !.channels = Put(n.channels, id, ch)]
  BY DEF AddActivePeer
<1> HIDE DEF id, c, ch, m
<1>5. /\ DOMAIN m = DOMAIN n /\ m.known = n.known
      /\ m.active = Put(n.active, a, c) /\ m.channels = Put(n.channels, id, ch)
  BY <1>4 DEF Kept, Shaped
<1>6. /\ DOMAIN m.active = DOMAIN n.active \cup {a}
      /\ m.active[a] = c /\ \A b \in DOMAIN n.active : m.active[b] = n.active[b]
  BY <1>5 DEF Put
<1>7. /\ DOMAIN m.channels = DOMAIN n.channels \cup {id}
      /\ m.channels[id] = ch /\ \A i \in DOMAIN n.channels : m.channels[i] = n.channels[i]
  BY <1>1, <1>5 DEF Put
<1>8. IsFiniteSet(DOMAIN m.channels)
  <2>1. IsFiniteSet(DOMAIN n.channels)
    BY DEF Kept, Shaped
  <2>2. IsFiniteSet(DOMAIN n.channels \cup {id})
    BY <2>1, FS_AddElement
  <2> QED
    BY <1>7, <2>2
<1>9. Shaped(m)
  BY <1>2, <1>3, <1>5, <1>6, <1>7, <1>8 DEF Kept, Shaped
<1>10. ASSUME NEW i \in DOMAIN m.channels PROVE OpenHasEntry(m, i)
  <2>1. CASE i = id
    BY <1>2, <1>3, <1>6, <1>7, <2>1 DEF OpenHasEntry
  <2>2. CASE i \in DOMAIN n.channels
    <3>1. OpenHasEntry(n, i)
      BY <2>2 DEF Kept, Matched
    <3> QED
      BY <1>6, <1>7, <2>2, <3>1 DEF OpenHasEntry
  <2> QED
    BY <1>7, <1>10, <2>1, <2>2
<1>11. ASSUME NEW b \in DOMAIN m.active PROVE EntryHasChannel(m, b)
  <2>1. CASE b = a
    BY <1>2, <1>3, <1>6, <1>7, <2>1 DEF EntryHasChannel
  <2>2. CASE b \in DOMAIN n.active
    <3>1. EntryHasChannel(n, b)
      BY <2>2 DEF Kept, Matched
    <3> QED
      BY <1>6, <1>7, <2>2, <3>1 DEF EntryHasChannel
  <2> QED
    BY <1>6, <1>11, <2>1, <2>2
<1>12. Kept(m)
  BY <1>9, <1>10, <1>11 DEF Kept, Matched
<1> QED
  BY <1>12 DEF m

(* An address more among the known peers, or fewer of them.                 *)
LEMMA KnownKept ==
    ASSUME NEW n, Kept(n), NEW known, IsFiniteSet(known),
           NEW m, m = [n EXCEPT !.known = known]
    PROVE  Kept(m)
<1>1. /\ DOMAIN m = DOMAIN n /\ m.known = known
      /\ m.active = n.active /\ m.channels = n.channels
  BY DEF Kept, Shaped
<1>2. Shaped(m)
  BY <1>1 DEF Kept, Shaped
<1>3. Matched(m)
  BY <1>1 DEF Kept, Matched, OpenHasEntry, EntryHasChannel
<1> QED
  BY <1>2, <1>3 DEF Kept

(* remove_active_peer: no other channel of the address is open, and no      *)
(* other entry has this channel.                                            *)
LEMMA RemoveKept ==
    ASSUME NEW n, Kept(n), NEW a
    PROVE  /\ Kept(RemoveActivePeer(n, a))
           /\ DOMAIN RemoveActivePeer(n, a).active = DOMAIN n.active \ {a}
           /\ DOMAIN RemoveActivePeer(n, a).channels = DOMAIN n.channels
           /\ \A i \in DOMAIN n.channels :
                 RemoveActivePeer(n, a).channels[i].addr = n.channels[i].addr
           /\ RemoveActivePeer(n, a).known = n.known
<1>1. CASE a \notin DOMAIN n.active
  BY <1>1 DEF RemoveActivePeer
<1>2. CASE a \in DOMAIN n.active
  <2> DEFINE m == RemoveActivePeer(n, a)
             id == n.active[a].id
  <2>1. m = [n EXCEPT !.active = Drop(n.active, a), !.channels[id].open = FALSE]
    BY <1>2 DEF RemoveActivePeer
  <2>2. EntryHasChannel(n, a)
    BY <1>2 DEF Kept, Matched
  <2> HIDE DEF m
  <2>3. /\ DOMAIN m = DOMAIN n /\ m.known = n.known
        /\ m.active = Drop(n.active, a)
        /\ m.channels = [n.channels EXCEPT ![id] = [@ EXCEPT !.open = FALSE]]
    BY <2>1 DEF Kept, Shaped
  <2>4. /\ DOMAIN m.active = DOMAIN n.active \ {a}
        /\ \A b \in DOMAIN m.active : m.active[b] = n.active[b]
    BY <2>3 DEF Drop, Restrict
  <2>5. /\ DOMAIN m.channels = DOMAIN n.channels
        /\ \A i \in DOMAIN n.channels :
              /\ {"addr", "open"} \subseteq DOMAIN m.channels[i]
              /\ m.channels[i].addr = n.channels[i].addr
              /\ i # id => m.channels[i].open = n.channels[i].open
        /\ m.channels[id].open = FALSE
    <3> DEFINE old == n.channels[id]
               new == [old EXCEPT !.open = FALSE]
    <3>1. id \in DOMAIN n.channels /\ \A i \in DOMAIN n.channels :
                                        {"addr", "open"} \subseteq DOMAIN n.channels[i]
      BY <2>2 DEF Kept, Shaped, EntryHasChannel
    <3>2. {"addr", "open"} \subseteq DOMAIN new /\ new.addr = old.addr /\ new.open = FALSE
      BY <3>1
    <3> HIDE DEF new, id
    <3>3. m.channels = [n.channels EXCEPT ![id] = new]
      BY <2>3 DEF new, id
    <3> QED
      BY <3>1, <3>2, <3>3
  <2>6. Shaped(m)
    BY <2>3, <2>4, <2>5 DEF Kept, Shaped
  <2>7. ASSUME NEW i \in DOMAIN m.channels PROVE OpenHasEntry(m, i)
    <3>1. CASE i = id
      BY <2>5, <3>1 DEF OpenHasEntry
    <3>2. CASE i # id
      <4>1. OpenHasEntry(n, i)
        BY <2>5, <2>7 DEF Kept, Matched
      <4> QED
        BY <2>4, <2>5, <2>7, <3>2, <4>1 DEF OpenHasEntry
    <3> QED
      BY <3>1, <3>2, Zenon
  <2>8. ASSUME NEW b \in DOMAIN m.active PROVE EntryHasChannel(m, b)
    <3>1. EntryHasChannel(n, b) /\ b # a
      BY <2>4, <2>8 DEF Kept, Matched
    <3>2. n.active[b].id # id
      BY <2>2, <3>1 DEF EntryHasChannel
    <3> QED
      BY <2>4, <2>5, <2>8, <3>1, <3>2 DEF EntryHasChannel
  <2>9. Kept(m)
    BY <2>6, <2>7, <2>8 DEF Kept, Matched
  <2> QED
    BY <2>3, <2>4, <2>5, <2>9 DEF m
<1> QED
  BY <1>1, <1>2

(* A task that ends closes its channel.                                     *)
LEMMA EndTaskKept ==
    ASSUME NEW n, Kept(n), NEW a \in DOMAIN n.active, NEW error
    PROVE  Kept(EndTask(n, a, error))
<1> DEFINE info == [kind |-> error, resolved |-> n.active[a].resolved]
           t == SendInfo(n, a, info)
           id == n.active[a].id
           m == [t EXCEPT !.active[a].task = "ended", !.channels[id].open = FALSE]
<1> HIDE DEF info
<1>1. SameBooks(n, t)
  BY SendInfoSame
<1>2. Kept(t)
  BY <1>1, SameBooksKept
<1>3. a \in DOMAIN t.active /\ t.active[a].id = id
  BY <1>1 DEF SameBooks, SameEntry
<1>4. EndTask(n, a, error) = m
  BY DEF EndTask, info
<1> HIDE DEF t, id
<1> DEFINE c == [t.active[a] EXCEPT !.task = "ended"]
           ch == [t.channels[id] EXCEPT !.open = FALSE]
<1>5. EntryHasChannel(t, a)
  BY <1>2, <1>3 DEF Kept, Matched
<1>6. {"id", "task"} \subseteq DOMAIN c /\ c.id = id /\ c.task = "ended"
  BY <1>2, <1>3 DEF Kept, Shaped
<1>7. {"addr", "open"} \subseteq DOMAIN ch /\ ch.addr = a /\ ch.open = FALSE
  BY <1>2, <1>3, <1>5 DEF Kept, Shaped, EntryHasChannel
<1>8. /\ DOMAIN m = DOMAIN t /\ m.known = t.known
      /\ m.active = [t.active EXCEPT ![a] = c]
      /\ m.channels = [t.channels EXCEPT ![id] = ch]
  BY <1>2 DEF Kept, Shaped
<1> HIDE DEF m, c, ch
<1>9. /\ DOMAIN m.active = DOMAIN t.active /\ m.active[a] = c
      /\ \A b \in DOMAIN t.active : b # a => m.active[b] = t.active[b]
  BY <1>3, <1>8
<1>10. /\ DOMAIN m.channels = DOMAIN t.channels /\ m.channels[id] = ch
       /\ \A i \in DOMAIN t.channels : i # id => m.channels[i] = t.channels[i]
  BY <1>3, <1>5, <1>8 DEF EntryHasChannel
<1>11. Shaped(m)
  BY <1>2, <1>6, <1>7, <1>8, <1>9, <1>10 DEF Kept, Shaped
<1>12. ASSUME NEW i \in DOMAIN m.channels PROVE OpenHasEntry(m, i)
  <2>1. CASE i = id
    BY <1>7, <1>10, <2>1 DEF OpenHasEntry
  <2>2. CASE i # id
    <3>1. OpenHasEntry(t, i)
      BY <1>2, <1>10, <1>12 DEF Kept, Matched
    <3> QED
      BY <1>3, <1>9, <1>10, <1>12, <2>2, <3>1 DEF OpenHasEntry
  <2> QED
    BY <2>1, <2>2
<1>13. ASSUME NEW b \in DOMAIN m.active PROVE EntryHasChannel(m, b)
  <2>1. CASE b = a
    BY <1>3, <1>5, <1>6, <1>7, <1>9, <1>10, <2>1 DEF EntryHasChannel
  <2>2. CASE b # a
    <3>1. EntryHasChannel(t, b)
      BY <1>2, <1>9, <1>13 DEF Kept, Matched
    <3>2. t.active[b].id # id
      BY <1>3, <1>5, <2>2, <3>1 DEF EntryHasChannel
    <3> QED
      BY <1>9, <1>10, <1>13, <2>2, <3>1, <3>2 DEF EntryHasChannel
  <2> QED
    BY <2>1, <2>2
<1>14. Kept(m)
  BY <1>11, <1>12, <1>13 DEF Kept, Matched
<1> QED
  BY <1>4, <1>14

(* connect_peer adds a connection to an address that has none, or nothing.  *)
LEMMA ConnectKept ==
    ASSUME NEW n, Kept(n), NEW resolved
    PROVE  Kept(ConnectPeer(n, resolved))
<1> DEFINE addrs == resolved.addrs
           first == {i \in DOMAIN addrs :
                        /\ Kind[addrs[i]] # "invalid"
                        /\ \A j \in 1..(i - 1) : Kind[addrs[j]] = "invalid"}
           from == CHOOSE i \in first : TRUE
           a == addrs[from]
           rest == [resolved EXCEPT !.addrs = SubSeq(@, from, Len(@))]
           known == IF resolved.domain THEN {} ELSE {a}
           k == AddActivePeer(n, a, rest, "connecting")
<1>1. CASE first = {} \/ \E i \in DOMAIN addrs : addrs[i] \in DOMAIN n.active
  BY <1>1 DEF ConnectPeer
<1>2. CASE ~(first = {} \/ \E i \in DOMAIN addrs : addrs[i] \in DOMAIN n.active)
  <2>1. ConnectPeer(n, resolved) = [k EXCEPT !.known = k.known \cup known]
    BY <1>2 DEF ConnectPeer
  <2>2. from \in first
    BY <1>2
  <2>3. a \notin DOMAIN n.active
    BY <1>2, <2>2
  <2>4. IsFiniteSet(known)
    <3>1. IsFiniteSet({}) /\ IsFiniteSet({a})
      BY FS_EmptySet, FS_Singleton
    <3> QED
      BY <3>1
  <2> HIDE DEF a, rest, known, first, from
  <2>5. Kept(k)
    BY <2>3, AddKept
  <2> HIDE DEF k
  <2>6. IsFiniteSet(k.known \cup known)
    BY <2>4, <2>5, FS_Union DEF Kept, Shaped
  <2>7. Kept([k EXCEPT !.known = k.known \cup known])
    BY <2>5, <2>6, KnownKept
  <2> QED
    BY <2>1, <2>7
<1> QED
  BY <1>1, <1>2, Zenon

(* Two folds: over the addresses in the database, and over the host names.  *)
DialAddress(n, a) == ConnectPeer(n, Static(a))

Addressed == INSTANCE LoopTheorems WITH op <- DialAddress, Good <- Kept
Named == INSTANCE LoopTheorems WITH op <- ConnectPeer, Good <- Kept

(* dial_known_peers.                                                        *)
LEMMA DialKept ==
    ASSUME NEW n, Kept(n), NEW names, IsFiniteSet(names)
    PROVE  Kept(DialKnownPeers(n, names))
<1> DEFINE known == Addressed!FoldOver(n, n.known)
<1>1. DialKnownPeers(n, names) = Named!FoldOver(known, names)
  BY Zenon DEF DialKnownPeers, FoldSet, MapThenFoldSet, Addressed!FoldOver, Named!FoldOver,
     DialAddress
<1>2. IsFiniteSet(n.known)
  BY DEF Kept, Shaped
<1>3. \A v : \A a \in n.known : Kept(v) => Kept(DialAddress(v, a))
  BY ConnectKept DEF DialAddress
<1>4. Kept(known)
  BY <1>2, <1>3, Addressed!FoldOverKeeps DEF IsFiniteSet, Addressed!IsFiniteSet
<1> HIDE DEF known
<1>5. \A v : \A r \in names : Kept(v) => Kept(ConnectPeer(v, r))
  BY ConnectKept
<1>6. Kept(Named!FoldOver(known, names))
  BY <1>4, <1>5, Named!FoldOverKeeps DEF IsFiniteSet, Named!IsFiniteSet
<1> QED
  BY <1>1, <1>6

-----------------------------------------------------------------------------
(* The steps.                                                               *)

(* A net after a step that leaves the connections and the channels in their *)
(* states.                                                                  *)
LEMMA StepSame ==
    ASSUME NEW n, Kept(n), NEW a, NEW c,
           a \in DOMAIN n.active => SameEntry(n.active[a], c)
    PROVE  Kept([n EXCEPT !.active[a] = c])
<1> DEFINE m == [n EXCEPT !.active[a] = c]
<1>1. m = [n EXCEPT !.active[a] = c]
  OBVIOUS
<1> HIDE DEF m
<1>2. SameBooks(n, m)
  BY <1>1, UpdateConnection
<1>3. Kept(m)
  BY <1>2, SameBooksKept
<1> QED
  BY <1>1, <1>3

LEMMA SendInfoKept ==
    ASSUME NEW n, Kept(n), NEW a, NEW info
    PROVE  Kept(SendInfo(n, a, info)) /\ DOMAIN SendInfo(n, a, info).active = DOMAIN n.active
  BY SendInfoSame, SameBooksKept DEF SameBooks

(* A field that is neither the number nor the task of a connection.         *)
LEMMA SameEntryFields ==
    ASSUME NEW c, {"id", "task"} \subseteq DOMAIN c, NEW v
    PROVE  /\ SameEntry(c, [c EXCEPT !.inbox = v])
           /\ SameEntry(c, [c EXCEPT !.tasks = v])
           /\ SameEntry(c, [c EXCEPT !.queue = v])
           /\ SameEntry(c, [c EXCEPT !.open = v])
           /\ SameEntry(c, [c EXCEPT !.missed = v])
  BY DEF SameEntry

(* The infos of a channel.                                                  *)
LEMMA InfosKept ==
    ASSUME NEW n, Kept(n), NEW id, NEW v, NEW m, m = [n EXCEPT !.channels[id].infos = v]
    PROVE  Kept(m) /\ m.known = n.known
<1>1. /\ DOMAIN m = DOMAIN n /\ m.known = n.known /\ m.active = n.active
      /\ DOMAIN m.channels = DOMAIN n.channels
      /\ \A i \in DOMAIN n.channels :
             m.channels[i] = IF i = id THEN [n.channels[i] EXCEPT !.infos = v]
                             ELSE n.channels[i]
  BY DEF Kept, Shaped
<1>2. \A b \in DOMAIN n.active : SameEntry(n.active[b], m.active[b])
  BY <1>1 DEF Kept, Shaped, SameEntry
<1>3. ASSUME NEW i \in DOMAIN n.channels PROVE SameChannel(n.channels[i], m.channels[i])
  BY <1>1 DEF Kept, Shaped, SameChannel
<1>4. SameBooks(n, m)
  BY <1>1, <1>2, <1>3 DEF SameBooks, Kept, Shaped
<1> QED
  BY <1>1, <1>4, SameBooksKept

(* A message in the mailbox of a connection.                                *)
LEMMA DeliveredSame ==
    ASSUME NEW c, {"id", "task"} \subseteq DOMAIN c, NEW state
    PROVE  SameEntry(c, Delivered(c, state))
  BY SameEntryFields DEF Delivered, SameEntry

LEMMA PushKept ==
    ASSUME NEW n, Kept(n), NEW a, NEW state
    PROVE  Kept(PushInternalMessage(n, a, state))
<1>1. CASE a \in DOMAIN n.active
  <2> DEFINE c == Delivered(n.active[a], state)
  <2>1. SameEntry(n.active[a], c)
    BY <1>1, DeliveredSame DEF Kept, Shaped
  <2>2. PushInternalMessage(n, a, state) = [n EXCEPT !.active[a] = c]
    BY <1>1 DEF PushInternalMessage
  <2> HIDE DEF c
  <2> QED
    BY <2>1, <2>2, StepSame
<1>2. CASE a \notin DOMAIN n.active
  BY <1>2 DEF PushInternalMessage
<1> QED
  BY <1>1, <1>2

(* A change of every connection at once.                                    *)
LEMMA AllUpdated ==
    ASSUME NEW n, Kept(n), NEW f, DOMAIN f = DOMAIN n.active,
           \A a \in DOMAIN n.active : SameEntry(n.active[a], f[a]),
           NEW m, m = [n EXCEPT !.active = f]
    PROVE  Kept(m)
<1>1. /\ DOMAIN m = DOMAIN n /\ m.known = n.known /\ m.channels = n.channels /\ m.active = f
  BY DEF Kept, Shaped
<1>2. \A i \in DOMAIN n.channels : SameChannel(n.channels[i], m.channels[i])
  BY <1>1 DEF Kept, Shaped, SameChannel
<1>3. SameBooks(n, m)
  BY <1>1, <1>2 DEF SameBooks, Kept, Shaped
<1> QED
  BY <1>3, SameBooksKept

LEMMA ForgoKept ==
    ASSUME NEW n, Kept(n), NEW states
    PROVE  Kept(Forgo(n, states))
<1> DEFINE f == [a \in DOMAIN n.active |->
                    [n.active[a] EXCEPT !.missed = @ \cup states]]
           m == [n EXCEPT !.active = f]
<1>1. \A a \in DOMAIN n.active : SameEntry(n.active[a], f[a])
  BY SameEntryFields DEF Kept, Shaped
<1>2. DOMAIN f = DOMAIN n.active
  OBVIOUS
<1>3. Forgo(n, states) = m
  BY DEF Forgo
<1> HIDE DEF f
<1>4. m = [n EXCEPT !.active = f]
  OBVIOUS
<1> HIDE DEF m
<1> QED
  BY <1>1, <1>2, <1>3, <1>4, AllUpdated

(* Spending a bound leaves the names.                                       *)
LEMMA SpendNames ==
    ASSUME PeersInv, NEW bound, bound # "names", Spend(bound)
    PROVE  "names" \in DOMAIN budget' /\ IsFiniteSet(budget'.names)
<1>1. "names" \in DOMAIN budget' /\ budget'.names = budget.names
  BY DEF PeersInv, Spend
<1> QED
  BY <1>1 DEF PeersInv

(* The invariant after a step, from what the step makes of the net.         *)
LEMMA InvAfter ==
    ASSUME PeersInv, Kept(net'),
           \/ UNCHANGED budget
           \/ \E bound : bound # "names" /\ Spend(bound)
    PROVE  PeersInv'
<1>1. CASE UNCHANGED budget
  BY <1>1 DEF PeersInv
<1>2. CASE \E bound : bound # "names" /\ Spend(bound)
  BY <1>2, SpendNames DEF PeersInv
<1> QED
  BY <1>1, <1>2

LEMMA RpcStep ==
    ASSUME PeersInv, NEW a, RpcConnectPeer(a) \/ RpcForgetPeer(a) \/ AcceptIncoming(a)
    PROVE  PeersInv'
<1>0. Kept(net)
  BY DEF PeersInv
<1>1. CASE RpcConnectPeer(a)
  <2>1. Kept(net')
    BY <1>0, <1>1, ConnectKept DEF RpcConnectPeer
  <2> QED
    BY <1>1, <2>1, InvAfter DEF RpcConnectPeer
<1>2. CASE RpcForgetPeer(a)
  <2>1. net' = [net EXCEPT !.known = net.known \ {a}]
    BY <1>2 DEF RpcForgetPeer
  <2>2. IsFiniteSet(net.known) /\ net.known \ {a} \subseteq net.known
    BY <1>0 DEF Kept, Shaped
  <2>3. IsFiniteSet(net.known \ {a})
    BY <2>2, FS_Subset
  <2>4. Kept(net')
    BY <1>0, <2>1, <2>3, KnownKept
  <2> QED
    BY <1>2, <2>4, InvAfter DEF RpcForgetPeer
<1>3. CASE AcceptIncoming(a)
  <2> DEFINE m == AddActivePeer(net, a, Static(a), "running")
  <2>1. a \notin DOMAIN net.active /\ net' = [m EXCEPT !.known = m.known \cup {a}]
    BY <1>3 DEF AcceptIncoming, Connections
  <2>2. Kept(m)
    BY <1>0, <2>1, AddKept
  <2> HIDE DEF m
  <2>3. IsFiniteSet(m.known)
    BY <2>2 DEF Kept, Shaped
  <2>4. IsFiniteSet(m.known \cup {a})
    BY <2>3, FS_AddElement
  <2>5. Kept(net')
    BY <2>1, <2>2, <2>4, KnownKept
  <2> QED
    BY <1>3, <2>5, InvAfter DEF AcceptIncoming
<1> QED
  BY <1>1, <1>2, <1>3

(* Reconnects and redials.                                                  *)
LEMMA DialStep ==
    ASSUME PeersInv, RedialKnownPeers \/ \E resolved \in timers : ReconnectPeer(resolved)
    PROVE  PeersInv'
<1>0. Kept(net) /\ IsFiniteSet(budget.names)
  BY DEF PeersInv
<1>1. CASE RedialKnownPeers
  <2>1. Kept(DialKnownPeers(net, budget.names))
    BY <1>0, DialKept
  <2>2. Kept(net')
    BY <1>0, <1>1, <2>1 DEF RedialKnownPeers
  <2> QED
    BY <1>1, <2>2, InvAfter DEF RedialKnownPeers
<1>2. CASE \E resolved \in timers : ReconnectPeer(resolved)
  <2>1. PICK resolved \in timers : ReconnectPeer(resolved)
    BY <1>2
  <2>2. Kept(net')
    BY <1>0, <2>1, ConnectKept DEF ReconnectPeer
  <2> QED
    BY <2>1, <2>2, InvAfter DEF ReconnectPeer
<1> QED
  BY <1>1, <1>2

(* The steps that may end the task of a connection.                         *)
LEMMA EndingStep ==
    ASSUME PeersInv, NEW a,
           \/ Handshake(a) \/ BadMagic(a) \/ HeartbeatTimeout(a)
           \/ DuplicateConnection(a) \/ PeerCloses(a)
    PROVE  PeersInv'
<1>0. Kept(net)
  BY DEF PeersInv
<1>1. CASE Handshake(a)
  <2>1. a \in DOMAIN net.active /\ net.active[a].task = "connecting" /\ UNCHANGED budget
    BY <1>1 DEF Handshake, Connections
  <2>2. CASE Kind[a] = "silent"
    <3>1. Kept(net')
      BY <1>0, <1>1, <2>1, <2>2, EndTaskKept DEF Handshake
    <3> QED
      BY <2>1, <3>1, InvAfter
  <2>3. CASE Kind[a] # "silent"
    <3> DEFINE c == [net.active[a] EXCEPT !.task = "running"]
    <3>1. SameEntry(net.active[a], c)
      BY <1>0, <2>1 DEF Kept, Shaped, SameEntry
    <3>2. net' = [net EXCEPT !.active[a] = c]
      BY <1>1, <2>3 DEF Handshake
    <3> HIDE DEF c
    <3>3. Kept(net')
      BY <1>0, <3>1, <3>2, StepSame
    <3> QED
      BY <2>1, <3>3, InvAfter
  <2> QED
    BY <2>2, <2>3
<1>2. CASE BadMagic(a)
  <2>1. a \in DOMAIN net.active /\ net' = EndTask(net, a, "magic") /\ UNCHANGED budget
    BY <1>2 DEF BadMagic, Running, Connections
  <2> QED
    BY <1>0, <2>1, EndTaskKept, InvAfter
<1>3. CASE HeartbeatTimeout(a)
  <2>1. /\ a \in DOMAIN net.active /\ net' = EndTask(net, a, "timeout")
        /\ UNCHANGED budget \/ Spend("timeouts")
    BY <1>3 DEF HeartbeatTimeout, Running, Connections
  <2>2. Kept(net')
    BY <1>0, <2>1, EndTaskKept
  <2> QED
    BY <2>1, <2>2, InvAfter
<1>4. CASE DuplicateConnection(a)
  <2>1. /\ a \in DOMAIN net.active /\ net' = EndTask(net, a, "retry")
        /\ Spend("duplicates")
    BY <1>4 DEF DuplicateConnection, Running, Connections
  <2>2. Kept(net')
    BY <1>0, <2>1, EndTaskKept
  <2> QED
    BY <2>1, <2>2, InvAfter
<1>5. CASE PeerCloses(a)
  <2>1. a \in DOMAIN net.active /\ net' = EndTask(net, a, "error") /\ Spend("closes")
    BY <1>5 DEF PeerCloses, Running, Connections
  <2>2. Kept(net')
    BY <1>0, <2>1, EndTaskKept
  <2> QED
    BY <2>1, <2>2, InvAfter
<1> QED
  BY <1>1, <1>2, <1>3, <1>4, <1>5

(* The connection of a running task.                                        *)
LEMMA RunningEntry ==
    ASSUME PeersInv, NEW a, Running(a)
    PROVE  a \in DOMAIN net.active /\ {"id", "task"} \subseteq DOMAIN net.active[a]
  BY DEF PeersInv, Kept, Shaped, Running, Connections

(* Heartbeats and the mailbox.                                              *)
LEMMA MessageStep ==
    ASSUME PeersInv, NEW a, ReceiveHeartbeat(a) \/ HandleInternalMessage(a)
    PROVE  PeersInv'
<1> DEFINE c == net.active[a]
<1>0. Kept(net) /\ a \in DOMAIN net.active /\ {"id", "task"} \subseteq DOMAIN c
  BY RunningEntry DEF PeersInv, ReceiveHeartbeat, HandleInternalMessage
<1>1. CASE ReceiveHeartbeat(a)
  <2> DEFINE d == [c EXCEPT !.received = TRUE, !.state = peerTip[a],
                            !.states = @ \cup {peerTip[a]}, !.tasks = Append(@, peerTip[a])]
  <2>1. net' = [net EXCEPT !.active[a] = d] /\ UNCHANGED budget
    BY <1>1 DEF ReceiveHeartbeat
  <2>2. SameEntry(c, d)
    BY <1>0 DEF SameEntry
  <2> HIDE DEF d
  <2>3. Kept(net')
    BY <1>0, <2>1, <2>2, StepSame
  <2> QED
    BY <2>1, <2>3, InvAfter
<1>2. CASE HandleInternalMessage(a)
  <2> DEFINE d == [c EXCEPT !.inbox = Tail(@)]
             state == Head(c.inbox)
             read == [net EXCEPT !.active[a] = d]
  <2>1. SameEntry(c, d)
    BY <1>0, SameEntryFields
  <2>2. [net EXCEPT !.active[a].inbox = Tail(@)] = read
    OBVIOUS
  <2>3. net' = IF state \in c.states
               THEN [read EXCEPT !.active[a].tasks = Append(@, state)]
               ELSE EndTask(read, a, "error")
    BY <1>2, <2>2 DEF HandleInternalMessage
  <2>4. UNCHANGED budget
    BY <1>2 DEF HandleInternalMessage
  <2> HIDE DEF d
  <2>5. Kept(read)
    BY <1>0, <2>1, StepSame
  <2>6. a \in DOMAIN read.active /\ {"id", "task"} \subseteq DOMAIN read.active[a]
    BY <1>0, <2>1 DEF SameEntry, Kept, Shaped
  <2> HIDE DEF read
  <2>7. CASE state \in c.states
    <3> DEFINE e == [read.active[a] EXCEPT !.tasks = Append(@, state)]
    <3>1. SameEntry(read.active[a], e)
      BY <2>6, SameEntryFields
    <3>2. net' = [read EXCEPT !.active[a] = e]
      BY <2>3, <2>7
    <3> HIDE DEF e
    <3>3. Kept(net')
      BY <2>5, <3>1, <3>2, StepSame
    <3> QED
      BY <2>4, <3>3, InvAfter
  <2>8. CASE state \notin c.states
    <3>1. Kept(net')
      BY <2>3, <2>5, <2>6, <2>8, EndTaskKept
    <3> QED
      BY <2>4, <3>1, InvAfter
  <2> QED
    BY <2>7, <2>8
<1> QED
  BY <1>1, <1>2

LEMMA SendRequestsSame ==
    ASSUME NEW c, {"id", "task"} \subseteq DOMAIN c, NEW rs
    PROVE  SameEntry(c, SendRequests(c, rs))
  BY DEF SendRequests, SameEntry

(* handle_peer_state.                                                       *)
LEMMA PeerStateStep ==
    ASSUME PeersInv, NEW a, HandlePeerState(a)
    PROVE  PeersInv'
<1> DEFINE c       == net.active[a]
           t       == Head(c.tasks)
           taken   == [net EXCEPT !.active[a].tasks = Tail(@)]
           missing == SetToSortSeq(Missing(archive.bodies, MaxOf(archive.tip, 1), t), <)
           batch   == SubSeq(missing, 1, Min({MaxBlockRequests, Len(missing)}))
           asked   == SendInfo(taken, a, [kind |-> "ancestors", state |-> t])
           headers == [taken EXCEPT !.active[a] =
                          SendRequests(@, <<GetHeaders(archive.tip, t)>>)]
           ready   == SendInfo(taken, a, [kind |-> "ready", state |-> t])
           bodies  == [taken EXCEPT !.active[a] =
                          SendRequests(@, [i \in DOMAIN batch |->
                                              GetBlock(batch[i], archive.tip, t)])]
<1>0. Kept(net) /\ a \in DOMAIN net.active /\ {"id", "task"} \subseteq DOMAIN c
  BY RunningEntry, Zenon DEF PeersInv, HandlePeerState
<1> DEFINE after   ==
               CASE t > archive.infos -> asked
                 [] archive.infos >= t /\ t > archive.mainTip -> taken
                 [] archive.mainTip >= t /\ archive.tip >= t -> taken
                 [] archive.mainTip >= t /\ t > archive.tip /\ t > archive.headers -> headers
                 [] OTHER -> IF missing = <<>> THEN ready ELSE bodies
           forgone == Overlooked(c, t, missing, batch)
<1>1. /\ net' = IF forgone THEN [after EXCEPT !.active[a].missed = @ \cup {t}] ELSE after
      /\ UNCHANGED budget
  BY Zenon DEF HandlePeerState
<1>2. Kept(taken) /\ a \in DOMAIN taken.active
      /\ {"id", "task"} \subseteq DOMAIN taken.active[a]
  <2> DEFINE d == [c EXCEPT !.tasks = Tail(@)]
  <2>1. SameEntry(c, d)
    BY <1>0, SameEntryFields
  <2>2. taken = [net EXCEPT !.active[a] = d]
    OBVIOUS
  <2> HIDE DEF d, taken
  <2>3. Kept(taken)
    BY <1>0, <2>1, <2>2, StepSame
  <2>4. a \in DOMAIN taken.active
    BY <1>0, <2>2 DEF Kept, Shaped
  <2> QED
    BY <2>3, <2>4 DEF Kept, Shaped
<1> HIDE DEF taken, t
<1>3. ASSUME NEW info
      PROVE  Kept(SendInfo(taken, a, info)) /\ a \in DOMAIN SendInfo(taken, a, info).active
  BY <1>2, SendInfoKept
<1>4. ASSUME NEW rs, NEW n, n = [taken EXCEPT !.active[a] = SendRequests(@, rs)]
      PROVE  Kept(n) /\ a \in DOMAIN n.active
  <2> DEFINE d == SendRequests(taken.active[a], rs)
  <2>1. SameEntry(taken.active[a], d)
    BY <1>2, SendRequestsSame
  <2>2. n = [taken EXCEPT !.active[a] = d]
    BY <1>4
  <2> HIDE DEF d
  <2>3. Kept(n)
    BY <1>2, <2>1, <2>2, StepSame
  <2> QED
    BY <1>2, <2>2, <2>3 DEF Kept, Shaped
<1>5. /\ Kept(asked) /\ a \in DOMAIN asked.active
      /\ Kept(ready) /\ a \in DOMAIN ready.active
  BY <1>3
<1>6. Kept(headers) /\ a \in DOMAIN headers.active
  BY <1>4
<1>7. Kept(bodies) /\ a \in DOMAIN bodies.active
  BY <1>4
<1> HIDE DEF asked, headers, ready, bodies, missing, batch
<1>8. after = asked \/ after = taken \/ after = headers \/ after = ready \/ after = bodies
  OBVIOUS
<1> HIDE DEF after, forgone
<1>9. Kept(after) /\ a \in DOMAIN after.active
  BY <1>2, <1>5, <1>6, <1>7, <1>8
<1>10. Kept(net')
  <2> DEFINE d == [after.active[a] EXCEPT !.missed = @ \cup {t}]
  <2>1. SameEntry(after.active[a], d)
    BY <1>9, SameEntryFields DEF Kept, Shaped
  <2>2. net' = after \/ net' = [after EXCEPT !.active[a] = d]
    BY <1>1
  <2> HIDE DEF d
  <2> QED
    BY <1>9, <2>1, <2>2, StepSame
<1>11. UNCHANGED budget
  BY Zenon DEF HandlePeerState
<1> QED
  BY <1>10, <1>11, InvAfter

(* A request that is sent, and one that is over.                            *)
LEMMA RequestStep ==
    ASSUME PeersInv, NEW a, Running(a), NEW r,
           SendQueued(a) \/ PeerAnswers(a, r) \/ PeerRefuses(a, r) \/ ResponseTimeout(a, r)
    PROVE  PeersInv'
<1> DEFINE c == net.active[a]
           closed == [c EXCEPT !.open = @ \ {r}, !.received = TRUE]
<1>0. Kept(net) /\ a \in DOMAIN net.active /\ {"id", "task"} \subseteq DOMAIN c
  BY RunningEntry DEF PeersInv
<1>1. ASSUME NEW info PROVE Kept(Close(a, r, info)) /\ a \in DOMAIN Close(a, r, info).active
  <2> DEFINE n == [net EXCEPT !.active[a] = closed]
  <2>1. SameEntry(c, closed)
    BY <1>0 DEF SameEntry
  <2>2. Close(a, r, info) = SendInfo(n, a, info)
    BY DEF Close
  <2> HIDE DEF closed
  <2>3. Kept(n)
    BY <1>0, <2>1, StepSame
  <2>4. a \in DOMAIN n.active
    BY <1>0 DEF Kept, Shaped
  <2> HIDE DEF n
  <2> QED
    BY <2>2, <2>3, <2>4, SendInfoKept
<1>2. CASE SendQueued(a)
  <2> DEFINE d == Opened([c EXCEPT !.queue = Tail(@)], Head(c.queue))
  <2>1. net' = [net EXCEPT !.active[a] = d] /\ UNCHANGED budget
    BY <1>2 DEF SendQueued
  <2>2. SameEntry(c, d)
    BY <1>0 DEF SameEntry, Opened
  <2> HIDE DEF d
  <2>3. Kept(net')
    BY <1>0, <2>1, <2>2, StepSame
  <2> QED
    BY <2>1, <2>3, InvAfter
<1>3. CASE PeerAnswers(a, r)
  <2>1. Kept(net') /\ UNCHANGED budget
    BY <1>1, <1>3 DEF PeerAnswers
  <2> QED
    BY <2>1, InvAfter
<1>4. CASE PeerRefuses(a, r)
  <2> DEFINE info == [kind |-> "refused"]
             n == Close(a, r, info)
             d == [n.active[a] EXCEPT !.missed = @ \cup (r.block..budget.height)]
  <2>1. net' = [n EXCEPT !.active[a] = d] /\ Spend("refusals")
    BY <1>4 DEF PeerRefuses
  <2> HIDE DEF info
  <2>2. Kept(n) /\ a \in DOMAIN n.active
    BY <1>1
  <2> HIDE DEF n
  <2>3. SameEntry(n.active[a], d)
    BY <2>2, SameEntryFields DEF Kept, Shaped
  <2> HIDE DEF d
  <2>4. Kept(net')
    BY <2>1, <2>2, <2>3, StepSame
  <2> QED
    BY <2>1, <2>4, InvAfter
<1>5. CASE ResponseTimeout(a, r)
  <2> DEFINE info == [kind |-> "error", resolved |-> c.resolved]
             d == [c EXCEPT !.open = @ \ {r}]
             n == [net EXCEPT !.active[a] = d]
  <2>1. [net EXCEPT !.active[a].open = @ \ {r}] = n
    OBVIOUS
  <2>2. net' = SendInfo(n, a, info) /\ Spend("timeouts")
    BY <1>5, <2>1 DEF ResponseTimeout
  <2>3. SameEntry(c, d)
    BY <1>0, SameEntryFields
  <2> HIDE DEF d, info
  <2>4. Kept(n)
    BY <1>0, <2>3, StepSame
  <2> HIDE DEF n
  <2>5. Kept(net')
    BY <2>2, <2>4, SendInfoKept
  <2> QED
    BY <2>2, <2>5, InvAfter
<1> QED
  BY <1>2, <1>3, <1>4, <1>5

(* An info at the net task.                                                 *)
LEMMA InfoStep ==
    ASSUME PeersInv, NEW id, HandleInfo(id)
    PROVE  PeersInv'
<1> DEFINE channel == net.channels[id]
           info == Head(channel.infos)
           a == channel.addr
           n == [net EXCEPT !.channels[id].infos = Tail(@)]
<1>1. Kept(net) /\ UNCHANGED budget
  BY DEF PeersInv, HandleInfo
<1>2. \/ HandleError(n, a, info)
      \/ net' = n
      \/ HandleTipReady(n, info.state)
      \/ HandleBlock(n, a, info.request)
      \/ HandleHeaders(n, a, info.request)
  BY Zenon DEF HandleInfo
<1>3. Kept(n)
  <2> DEFINE v == Tail(channel.infos)
  <2>1. n = [net EXCEPT !.channels[id].infos = v]
    OBVIOUS
  <2> HIDE DEF n, v
  <2> QED
    BY <1>1, <2>1, InfosKept
<1> HIDE DEF n, info, a
<1>4. CASE HandleError(n, a, info)
  <2> DEFINE m == RemoveActivePeer(n, a)
             known == IF info.kind = "magic" THEN m.known \ {a} ELSE m.known
  <2>1. net' = [m EXCEPT !.known = known]
    BY <1>4 DEF HandleError
  <2>2. Kept(m)
    BY <1>3, RemoveKept
  <2> HIDE DEF m
  <2>3. IsFiniteSet(m.known) /\ known \subseteq m.known
    BY <2>2 DEF Kept, Shaped
  <2> HIDE DEF known
  <2>4. IsFiniteSet(known)
    BY <2>3, FS_Subset
  <2>5. Kept(net')
    BY <2>1, <2>2, <2>4, KnownKept
  <2> QED
    BY <1>1, <2>5, InvAfter
<1>5. CASE net' = n \/ HandleTipReady(n, info.state)
  <2>1. Kept(net')
    BY <1>3, <1>5 DEF HandleTipReady
  <2> QED
    BY <1>1, <2>1, InvAfter
<1>6. CASE HandleBlock(n, a, info.request) \/ HandleHeaders(n, a, info.request)
  <2> DEFINE push == PushInternalMessage(n, a, info.request.state)
  <2>1. net' = n \/ net' = push
    BY <1>6, Zenon DEF HandleBlock, HandleHeaders, BodiesAvailable
  <2>2. Kept(push)
    BY <1>3, PushKept
  <2>3. Kept(net')
    BY <1>3, <2>1, <2>2
  <2> QED
    BY <1>1, <2>3, InvAfter
<1> QED
  BY <1>2, <1>4, <1>5, <1>6

(* The notice that a channel is closed: the entry at its address goes, and  *)
(* no other entry has this channel.                                         *)
LEMMA ClosedStep ==
    ASSUME PeersInv, NEW id, ChannelClosed(id)
    PROVE  PeersInv'
<1> DEFINE a == net.channels[id].addr
           m == RemoveActivePeer(net, a)
<1>1. /\ Kept(net) /\ id \in DOMAIN net.channels /\ UNCHANGED budget
      /\ net' = [m EXCEPT !.channels = Drop(m.channels, id)]
  BY DEF PeersInv, ChannelClosed
<1>2. Kept(m) /\ a \notin DOMAIN m.active /\ m.channels[id].addr = a
  BY <1>1, RemoveKept
<1> HIDE DEF m, a
<1>3. /\ DOMAIN net' = DOMAIN m /\ net'.known = m.known /\ net'.active = m.active
      /\ net'.channels = Drop(m.channels, id)
  BY <1>1, <1>2 DEF Kept, Shaped
<1>4. /\ DOMAIN net'.channels = DOMAIN m.channels \ {id}
      /\ \A i \in DOMAIN net'.channels : net'.channels[i] = m.channels[i]
  BY <1>3 DEF Drop, Restrict
<1>5. IsFiniteSet(DOMAIN net'.channels)
  <2>1. IsFiniteSet(DOMAIN m.channels) /\ DOMAIN net'.channels \subseteq DOMAIN m.channels
    BY <1>2, <1>4 DEF Kept, Shaped
  <2> QED
    BY <2>1, FS_Subset
<1>6. Shaped(net')
  BY <1>2, <1>3, <1>4, <1>5 DEF Kept, Shaped
<1>7. ASSUME NEW i \in DOMAIN net'.channels PROVE OpenHasEntry(net', i)
  <2>1. OpenHasEntry(m, i)
    BY <1>2, <1>4 DEF Kept, Matched
  <2> QED
    BY <1>3, <1>4, <2>1 DEF OpenHasEntry
<1>8. ASSUME NEW b \in DOMAIN net'.active PROVE EntryHasChannel(net', b)
  <2>1. EntryHasChannel(m, b) /\ b # a
    BY <1>2, <1>3 DEF Kept, Matched
  <2> QED
    BY <1>2, <1>3, <1>4, <2>1 DEF EntryHasChannel
<1>9. Kept(net')
  BY <1>6, <1>7, <1>8 DEF Kept, Matched
<1> QED
  BY <1>1, <1>9, InvAfter

(* The mainchain task, and the rest of the world.                           *)
LEMMA WorldStep ==
    ASSUME PeersInv, NEW x,
           \/ AncestorInfos(x) \/ AncestorInfosFail(x) \/ DiscardBody(x)
           \/ MainchainBlock \/ PeerAdvances(x)
    PROVE  PeersInv'
<1>0. Kept(net)
  BY DEF PeersInv
<1>1. CASE AncestorInfos(x)
  <2> DEFINE sources == {q \in requests : q[2] = x}
             f == [a \in DOMAIN net.active |->
                      IF <<a, x>> \in sources THEN Delivered(net.active[a], x) ELSE net.active[a]]
  <2>1. net' = [net EXCEPT !.active = f] /\ UNCHANGED budget
    BY <1>1, Zenon DEF AncestorInfos
  <2> HIDE DEF sources
  <2>2. \A a \in DOMAIN net.active : SameEntry(net.active[a], f[a])
    <3> SUFFICES ASSUME NEW a \in DOMAIN net.active PROVE SameEntry(net.active[a], f[a])
      OBVIOUS
    <3>1. {"id", "task"} \subseteq DOMAIN net.active[a]
      BY <1>0 DEF Kept, Shaped
    <3>2. SameEntry(net.active[a], Delivered(net.active[a], x))
      BY <3>1, DeliveredSame
    <3>3. SameEntry(net.active[a], net.active[a])
      BY <3>1 DEF SameEntry
    <3> QED
      BY <3>2, <3>3
  <2>3. DOMAIN f = DOMAIN net.active
    OBVIOUS
  <2> HIDE DEF f
  <2>4. Kept(net')
    BY <1>0, <2>1, <2>2, <2>3, AllUpdated
  <2> QED
    BY <2>1, <2>4, InvAfter
<1>2. CASE AncestorInfosFail(x)
  <2>1. net' = Forgo(net, {x}) /\ Spend("refusals")
    BY <1>2 DEF AncestorInfosFail
  <2>2. Kept(net')
    BY <1>0, <2>1, ForgoKept
  <2> QED
    BY <2>1, <2>2, InvAfter
<1>3. CASE DiscardBody(x)
  <2>1. net' = Forgo(net, x..budget.height) /\ Spend("discards")
    BY <1>3 DEF DiscardBody
  <2>2. Kept(net')
    BY <1>0, <2>1, ForgoKept
  <2> QED
    BY <2>1, <2>2, InvAfter
<1>4. CASE MainchainBlock \/ PeerAdvances(x)
  BY <1>4 DEF MainchainBlock, PeerAdvances, PeersInv
<1> QED
  BY <1>1, <1>2, <1>3, <1>4

-----------------------------------------------------------------------------
(* The results about connections.                                           *)

(* Net::new starts with empty tables, and dials.                            *)
LEMMA InitPeersInv ==
    ASSUME PeersAssumption, Init
    PROVE  PeersInv
<1> DEFINE n == [known |-> {a \in budget.known : Kind[a] # "invalid"},
                 active |-> [a \in {} |-> None],
                 channels |-> [i \in {} |-> None]]
<1>1. net = DialKnownPeers(n, budget.names) /\ budget \in Cases
  BY DEF Init
<1>2. IsFiniteSet(budget.known) /\ IsFiniteSet(budget.names) /\ "names" \in DOMAIN budget
  BY <1>1 DEF PeersAssumption, Case
<1>3. IsFiniteSet(n.known)
  <2>1. n.known \subseteq budget.known
    OBVIOUS
  <2> QED
    BY <1>2, <2>1, FS_Subset
<1>4. DOMAIN n.active = {} /\ DOMAIN n.channels = {} /\ IsFiniteSet({})
      /\ {"known", "active", "channels"} \subseteq DOMAIN n
  BY FS_EmptySet
<1> HIDE DEF n
<1>5. Kept(n)
  BY <1>3, <1>4 DEF Kept, Shaped, Matched
<1>6. Kept(net)
  BY <1>1, <1>2, <1>5, DialKept
<1> QED
  BY <1>2, <1>6 DEF PeersInv

LEMMA NextPeersInv ==
    ASSUME PeersInv, [Next]_vars
    PROVE  PeersInv'
<1>1. CASE UNCHANGED vars
  BY <1>1 DEF vars, PeersInv
<1>2. CASE Environment
  <2>1. ASSUME NEW a, RpcConnectPeer(a) \/ RpcForgetPeer(a) \/ AcceptIncoming(a)
        PROVE  PeersInv'
    BY <2>1, RpcStep
  <2>2. ASSUME NEW a, DuplicateConnection(a) \/ PeerCloses(a) PROVE PeersInv'
    BY <2>2, EndingStep
  <2>3. ASSUME NEW a, Running(a), NEW r, PeerRefuses(a, r) \/ ResponseTimeout(a, r)
        PROVE  PeersInv'
    BY <2>3, RequestStep
  <2>4. ASSUME NEW x,
               PeerAdvances(x) \/ AncestorInfosFail(x) \/ DiscardBody(x) \/ MainchainBlock
        PROVE  PeersInv'
    BY <2>4, WorldStep
  <2> QED
    BY <1>2, <2>1, <2>2, <2>3, <2>4, Zenon DEF Environment
<1>3. CASE \E a \in Addresses : ConnectionTask(a)
  <2>1. PICK a \in Addresses : ConnectionTask(a)
    BY <1>3
  <2>2. CASE Handshake(a) \/ BadMagic(a) \/ HeartbeatTimeout(a)
    BY <2>2, EndingStep
  <2>3. CASE ReceiveHeartbeat(a) \/ HandleInternalMessage(a)
    BY <2>3, MessageStep
  <2>4. CASE HandlePeerState(a)
    BY <2>4, PeerStateStep
  <2>5. CASE SendQueued(a)
    <3>1. Running(a)
      BY <2>5 DEF SendQueued
    <3> QED
      BY <2>5, <3>1, RequestStep
  <2>6. CASE Running(a) /\ \E r \in net.active[a].open : PeerAnswers(a, r)
    BY <2>6, RequestStep
  <2> QED
    BY <2>1, <2>2, <2>3, <2>4, <2>5, <2>6 DEF ConnectionTask
<1>4. CASE \E id \in Ids : NetTask(id)
  BY <1>4, InfoStep, ClosedStep DEF NetTask
<1>5. CASE \E state \in {q[2] : q \in requests} : AncestorInfos(state)
  BY <1>5, WorldStep
<1>6. CASE RedialKnownPeers \/ \E resolved \in timers : ReconnectPeer(resolved)
  BY <1>6, DialStep
<1> QED
  BY <1>1, <1>2, <1>3, <1>4, <1>5, <1>6 DEF Next

(* The invariant is the property.                                           *)
LEMMA InvMatches ==
    PeersInv => EntriesMatchTasks
  BY DEF PeersInv, Kept, Matched, OpenHasEntry, EntryHasChannel, EntriesMatchTasks, Connections

(* active_peers and the tasks of the connections agree (lib/net/mod.rs,     *)
(* lib/node/net_task.rs), whatever the addresses, the channels and the      *)
(* faults, and however the notices of connections that ended, connections   *)
(* from both sides, reconnects and redials interleave: no task goes on      *)
(* without its entry, and no entry of a task that ended is left without the *)
(* notice that removes it.                                                  *)
THEOREM EntriesMatchTasksAlways ==
    Spec => []EntriesMatchTasks
<1>1. Init => PeersInv
  BY PeersAssumption, InitPeersInv
<1>2. PeersInv /\ [Next]_vars => PeersInv'
  BY NextPeersInv
<1>3. PeersInv => EntriesMatchTasks
  BY InvMatches
<1> QED
  BY <1>1, <1>2, <1>3, PTL DEF Spec

-----------------------------------------------------------------------------
(* The order of tips, for every bound on the trees: whatever blocks are     *)
(* mined, in whatever order, the trees are what module Chains assumes, and  *)
(* so the results of ChainsProofs hold of them.                             *)

Trees == INSTANCE ChainsProofs WITH
    MainBlocks     <- Mined,
    SideBlocks     <- DOMAIN side_chain,
    Zero           <- ZeroHash,
    None           <- ZeroHash,
    main_prev      <- [m \in Mined |-> main_chain[m].prev],
    main_work      <- [m \in Mined |-> main_chain[m].work],
    bmm_commitment <- [m \in Mined |-> IF m \in DOMAIN side_chain THEN m ELSE ZeroHash],
    prev_side      <- side_chain,
    prev_main      <- [s \in DOMAIN side_chain |-> main_chain[s].prev]

(* Parents come first; only the first block has none; a sidechain block has *)
(* the number of the mainchain block that commits to it.                    *)
TreeInv ==
    /\ main_chain \in Seq([prev : Nat, work : Nat \ {0}])
    /\ \A m \in Mined : main_chain[m].prev < m
    /\ \A m \in Mined : main_chain[m].prev = 0 => m = 1
    /\ DOMAIN side_chain \subseteq Mined \ {1}
    /\ side_chain \in [DOMAIN side_chain -> DOMAIN side_chain \cup {ZeroHash}]
    /\ \A s \in DOMAIN side_chain : side_chain[s] < s

(* A set of blocks has one whose parent is not in it: the one with the      *)
(* least number.                                                            *)
LEMMA NumberedGrounded ==
    ASSUME NEW prev, DOMAIN prev \subseteq Nat,
           \A b \in DOMAIN prev : prev[b] \in Nat /\ prev[b] < b
    PROVE  Trees!Grounded(prev)
<1> SUFFICES ASSUME NEW S \in SUBSET DOMAIN prev, S # {}
             PROVE  \E b \in S : prev[b] \notin S
  BY DEF Trees!Grounded
<1>1. S \subseteq Nat
  OBVIOUS
<1>2. IsWellFoundedOn(OpToRel(<, Nat), Nat)
  BY NatLessThanWellFounded
<1>3. PICK b \in S : \A c \in S : ~ (<<c, b>> \in OpToRel(<, Nat))
  BY <1>1, <1>2, WFMin
<1>4. \A c \in S : ~ (c < b)
  BY <1>1, <1>3 DEF OpToRel
<1> QED
  BY <1>4

(* The trees are what module Chains assumes.                                *)
LEMMA TreesAssumption ==
    TreeInv => Trees!ChainsAssumption
<1> SUFFICES ASSUME TreeInv PROVE Trees!ChainsAssumption
  OBVIOUS
<1> DEFINE prev == [m \in Mined |-> main_chain[m].prev]
<1>1. Mined \subseteq Nat \ {0} /\ ZeroHash = 0
  BY DEF TreeInv, Mined, ZeroHash
<1>2. \A m \in Mined : main_chain[m].prev \in Nat /\ main_chain[m].work \in Nat \ {0}
  <2> DEFINE R == [prev : Nat, work : Nat \ {0}]
  <2>1. main_chain \in Seq(R)
    BY DEF TreeInv
  <2> HIDE DEF R
  <2>2. \A m \in Mined : main_chain[m] \in R
    BY <2>1 DEF Mined
  <2> QED
    BY <2>2 DEF R
<1>3. \A m \in Mined : main_chain[m].prev \in Mined \cup {ZeroHash}
  BY SMTT(30), <1>1, <1>2 DEF TreeInv, Mined, ZeroHash
<1>4. \A m \in Mined : main_chain[m].prev < m
  BY DEF TreeInv
<1>5. prev \in [Mined -> Mined \cup {ZeroHash}] /\ Trees!Grounded(prev)
  <2>1. DOMAIN prev \subseteq Nat /\ \A b \in DOMAIN prev : prev[b] \in Nat /\ prev[b] < b
    BY <1>1, <1>2, <1>4
  <2>2. prev \in [Mined -> Mined \cup {ZeroHash}]
    BY <1>3
  <2> HIDE DEF prev
  <2> QED
    BY <2>1, <2>2, NumberedGrounded
<1>6. Trees!Grounded(side_chain)
  <2>1. DOMAIN side_chain \subseteq Nat
        /\ \A b \in DOMAIN side_chain : side_chain[b] \in Nat /\ side_chain[b] < b
    BY <1>1 DEF TreeInv
  <2> QED
    BY <2>1, NumberedGrounded
<1>7. ZeroHash \notin Mined /\ ZeroHash \notin DOMAIN side_chain
  BY <1>1 DEF TreeInv
<1>8. [s \in DOMAIN side_chain |-> main_chain[s].prev] \in [DOMAIN side_chain -> Mined]
  BY <1>3 DEF TreeInv, ZeroHash
<1>9. \A m, n \in Mined : prev[m] = ZeroHash /\ prev[n] = ZeroHash => m = n
  BY DEF TreeInv, ZeroHash
<1>10. side_chain \in [DOMAIN side_chain -> DOMAIN side_chain \cup {ZeroHash}]
  BY DEF TreeInv
<1> QED
  BY <1>2, <1>5, <1>6, <1>7, <1>8, <1>9, <1>10 DEF Trees!ChainsAssumption

(* Chain and Trees are the same trees.                                      *)
LEMMA SameTrees ==
    /\ Chain!MainAncestors = Trees!MainAncestors
    /\ Chain!Ancestors = Trees!Ancestors
    /\ Chain!Height = Trees!Height
    /\ Chain!MainHeight = Trees!MainHeight
    /\ Chain!TotalWork = Trees!TotalWork
    /\ \A a, d : Chain!IsMainDescendant(a, d) <=> Trees!IsMainDescendant(a, d)
    /\ \A m, n : Chain!SharedMainchainLineage(m, n) <=> Trees!SharedMainchainLineage(m, n)
    /\ \A m, n : Chain!LastCommonMainAncestor(m, n) = Trees!LastCommonMainAncestor(m, n)
    /\ \A s, m : Chain!HeightBefore(s, m) = Trees!HeightBefore(s, m)
    /\ \A t0, t1 : Chain!better_tip(t0, t1) = Trees!better_tip(t0, t1)
    /\ \A t0, t1 : Chain!PeerBetter(t0, t1) <=> Trees!PeerBetter(t0, t1)
<1>1. Chain!MainAncestors = Trees!MainAncestors
  BY DEF Chain!MainAncestors, Trees!MainAncestors
<1>2. Chain!Ancestors = Trees!Ancestors
  BY DEF Chain!Ancestors, Trees!Ancestors
<1>3. Chain!Height = Trees!Height
  BY DEF Chain!Height, Trees!Height, Chain!Ancestors, Trees!Ancestors,
     Chain!Cardinality, Trees!Cardinality
<1>4. Chain!MainHeight = Trees!MainHeight
  BY DEF Chain!MainHeight, Trees!MainHeight, Chain!MainAncestors, Trees!MainAncestors,
     Chain!Cardinality, Trees!Cardinality
<1>5. Chain!TotalWork = Trees!TotalWork
  BY DEF Chain!TotalWork, Trees!TotalWork
<1>6. \A a, d : Chain!IsMainDescendant(a, d) <=> Trees!IsMainDescendant(a, d)
  BY <1>1 DEF Chain!IsMainDescendant, Trees!IsMainDescendant
<1>7. \A m, n : Chain!SharedMainchainLineage(m, n) <=> Trees!SharedMainchainLineage(m, n)
  BY <1>6 DEF Chain!SharedMainchainLineage, Trees!SharedMainchainLineage
<1>8. \A m, n : Chain!LastCommonMainAncestor(m, n) = Trees!LastCommonMainAncestor(m, n)
  BY <1>1, <1>4 DEF Chain!LastCommonMainAncestor, Trees!LastCommonMainAncestor
<1>9. \A s, m : Chain!MinedBefore(s, m) = Trees!MinedBefore(s, m)
  BY <1>2, <1>6 DEF Chain!MinedBefore, Trees!MinedBefore
<1>10. \A s, m : Chain!HeightBefore(s, m) = Trees!HeightBefore(s, m)
  BY DEF Chain!HeightBefore, Trees!HeightBefore, Chain!MinedBefore, Trees!MinedBefore,
     Chain!IsMainDescendant, Trees!IsMainDescendant, Chain!Height, Trees!Height,
     Chain!Ancestors, Trees!Ancestors, Chain!MainAncestors, Trees!MainAncestors,
     Chain!Cardinality, Trees!Cardinality
<1>11. \A s, m : Chain!WorkBefore(s, m) = Trees!WorkBefore(s, m)
  BY DEF Chain!HeightBefore, Trees!HeightBefore, Chain!MinedBefore, Trees!MinedBefore,
     Chain!IsMainDescendant, Trees!IsMainDescendant, Chain!Height, Trees!Height,
     Chain!Ancestors, Trees!Ancestors, Chain!MainAncestors, Trees!MainAncestors,
     Chain!Cardinality, Trees!Cardinality,
     Chain!WorkBefore, Trees!WorkBefore, Chain!TotalWork, Trees!TotalWork
<1>12. \A t0, t1 : Chain!FirstAcrossFork(t0, t1) <=> Trees!FirstAcrossFork(t0, t1)
  BY <1>3, <1>5, <1>8, <1>10 DEF Chain!FirstAcrossFork, Trees!FirstAcrossFork
<1>13. \A t0, t1 : Chain!FirstOfEquals(t0, t1) <=> Trees!FirstOfEquals(t0, t1)
  BY <1>8, <1>10, <1>11 DEF Chain!FirstOfEquals, Trees!FirstOfEquals
<1>14. \A t0, t1 : Chain!TipOrder(t0, t1) = Trees!TipOrder(t0, t1)
  BY <1>3, <1>5, <1>7, <1>12, <1>13 DEF Chain!TipOrder, Trees!TipOrder
<1>15. \A t0, t1 : Chain!better_tip(t0, t1) = Trees!better_tip(t0, t1)
  BY <1>3, <1>14 DEF Chain!better_tip, Trees!better_tip, Chain!NoTip, Trees!NoTip
<1>16. \A t0, t1 : Chain!PeerBetterAtHeight(t0, t1) <=> Trees!PeerBetterAtHeight(t0, t1)
  BY <1>5, <1>7 DEF Chain!PeerBetterAtHeight, Trees!PeerBetterAtHeight
<1>17. \A t0, t1 : Chain!PeerBetterAcrossFork(t0, t1) <=> Trees!PeerBetterAcrossFork(t0, t1)
  BY <1>3, <1>5, <1>8, <1>10 DEF Chain!PeerBetterAcrossFork, Trees!PeerBetterAcrossFork
<1>18. \A t0, t1 : Chain!PeerBetterOfEquals(t0, t1) <=> Trees!PeerBetterOfEquals(t0, t1)
  BY <1>8, <1>10, <1>11 DEF Chain!PeerBetterOfEquals, Trees!PeerBetterOfEquals
<1>19. \A t0, t1 : Chain!PeerBetter(t0, t1) <=> Trees!PeerBetter(t0, t1)
  BY <1>3, <1>5, <1>16, <1>17, <1>18 DEF Chain!PeerBetter, Trees!PeerBetter
<1> QED
  BY <1>1, <1>2, <1>3, <1>4, <1>5, <1>6, <1>7, <1>8, <1>10, <1>15, <1>19

(* The tips a node compares are merge-mined tips of the trees.              *)
LEMMA TipsMined ==
    ASSUME TreeInv, NEW t \in Tips
    PROVE  t \in Trees!Tips /\ Trees!MergeMined(t)
<1>1. PICK s \in DOMAIN side_chain : t = [block_hash |-> s, main_block_hash |-> s]
  BY DEF Tips, Chain!Tip
<1>2. s \in Mined
  BY DEF TreeInv
<1>3. t \in Trees!Tips
  BY <1>1, <1>2 DEF Trees!Tips
<1> QED
  BY <1>1, <1>2, <1>3 DEF Trees!MergeMined

(* Both orders agree in every state of the trees.                           *)
LEMMA PeerCheckInState ==
    TreeInv => PeerCheckAgrees
<1> SUFFICES ASSUME TreeInv, NEW own \in Tips, NEW peer \in Tips, own # peer,
                    Height(own) > 0, Height(peer) > 0
             PROVE  /\ Chain!PeerBetter(own, peer) <=> Chain!better_tip(own, peer) = peer
                    /\ Chain!PeerBetter(own, peer) => Chain!better_tip(peer, own) = peer
  BY DEF PeerCheckAgrees
<1>1. Trees!ChainsAssumption
  BY TreesAssumption
<1>2. own \in Trees!Tips /\ peer \in Trees!Tips
  BY TipsMined
<1>3. Trees!Height[own.block_hash] > 0 /\ Trees!Height[peer.block_hash] > 0
  BY SameTrees DEF Height
<1>4. /\ Trees!PeerBetter(own, peer) <=> Trees!better_tip(own, peer) = peer
      /\ Trees!PeerBetter(own, peer) => Trees!better_tip(peer, own) = peer
  BY <1>1, <1>2, <1>3, Trees!PeerCheckExact
<1> QED
  BY <1>4, SameTrees

(* better_tip follows its rule, and is an order on every branch, in every   *)
(* state of the trees.                                                      *)
LEMMA TipOrderInState ==
    TreeInv => TipOrderSound
<1> SUFFICES ASSUME TreeInv PROVE TipOrderSound
  OBVIOUS
<1>1. Trees!ChainsAssumption
  BY TreesAssumption
<1>2. \A t \in Tips : t \in Trees!Tips /\ Trees!MergeMined(t)
  BY TipsMined
<1>3. \A t0, t1 : Better(t0, t1) <=> Trees!BetterTip(t0, t1)
  BY SameTrees DEF Better, Trees!BetterTip
<1>4. BetterTipRule
  <2> SUFFICES ASSUME NEW t0 \in Tips, NEW t1 \in Tips, t0 # t1,
                      Height(t0) > 0, Height(t1) > 0,
                      \/ Shared(t0, t1) /\ Height(t0) > Height(t1)
                      \/ Shared(t0, t1) /\ Height(t0) = Height(t1) /\ Work(t0) < Work(t1)
                      \/ ~Shared(t0, t1) /\ Height(t0) > Height(t1) /\ Work(t0) = Work(t1)
                      \/ ~Shared(t0, t1) /\ Height(t0) >= Height(t1) /\ Work(t0) > Work(t1)
                      \/ ~Shared(t0, t1) /\ Work(t0) > Work(t1)
                             /\ HeightBefore(t0, t0, t1) >= HeightBefore(t1, t0, t1)
                      \/ ~Shared(t0, t1) /\ Height(t0) = Height(t1) /\ Work(t0) = Work(t1)
                             /\ HeightBefore(t0, t0, t1) > HeightBefore(t1, t0, t1)
               PROVE  Better(t0, t1)
    BY DEF BetterTipRule
  <2>1. /\ Height(t0) = Trees!Height[t0.block_hash] /\ Height(t1) = Trees!Height[t1.block_hash]
        /\ Work(t0) = Trees!TotalWork[t0.main_block_hash]
        /\ Work(t1) = Trees!TotalWork[t1.main_block_hash]
        /\ Shared(t0, t1)
               <=> Trees!SharedMainchainLineage(t0.main_block_hash, t1.main_block_hash)
        /\ HeightBefore(t0, t0, t1) =
               Trees!HeightBefore(t0.block_hash,
                   Trees!LastCommonMainAncestor(t0.main_block_hash, t1.main_block_hash))
        /\ HeightBefore(t1, t0, t1) =
               Trees!HeightBefore(t1.block_hash,
                   Trees!LastCommonMainAncestor(t0.main_block_hash, t1.main_block_hash))
    BY SameTrees DEF Height, Work, Shared, HeightBefore
  <2>2. Trees!MergeMined(t0) /\ Trees!MergeMined(t1)
    BY <1>2
  <2>3. Trees!BetterTip(t0, t1)
    BY <1>1, <2>1, <2>2, Trees!TipRule
  <2> QED
    BY <1>3, <2>3
<1>5. BranchOrder
  <2> SUFFICES ASSUME NEW m \in Mined
               PROVE  LET tips == {t \in Tips : Chain!IsMainDescendant(t.main_block_hash, m)}
                      IN  /\ \A t0, t1, t2 \in tips :
                                 ~(Better(t0, t1) /\ Better(t1, t2) /\ Better(t2, t0))
                          /\ \A t0, t1 \in {t \in tips : Height(t) > 0} :
                                 t0 = t1 \/ Better(t0, t1) \/ Better(t1, t0)
    BY DEF BranchOrder
  <2> DEFINE T == {t \in Tips : Chain!IsMainDescendant(t.main_block_hash, m)}
  <2>1. \A t \in T : Trees!MergeMined(t) /\ Trees!IsMainDescendant(t.main_block_hash, m)
    BY <1>2, SameTrees
  <2>2. \A t : Height(t) = Trees!Height[t.block_hash]
    BY SameTrees DEF Height
  <2> HIDE DEF T
  <2>3. /\ \A t0, t1, t2 \in T :
               ~(Trees!BetterTip(t0, t1) /\ Trees!BetterTip(t1, t2) /\ Trees!BetterTip(t2, t0))
        /\ \A t0, t1 \in T :
               Trees!Height[t0.block_hash] > 0 /\ Trees!Height[t1.block_hash] > 0
                   => t0 = t1 \/ Trees!BetterTip(t0, t1) \/ Trees!BetterTip(t1, t0)
    BY <1>1, <2>1, Trees!BranchTips
  <2>4. /\ \A t0, t1, t2 \in T : ~(Better(t0, t1) /\ Better(t1, t2) /\ Better(t2, t0))
        /\ \A t0, t1 \in {t \in T : Height(t) > 0} :
               t0 = t1 \/ Better(t0, t1) \/ Better(t1, t0)
    BY <1>3, <2>2, <2>3
  <2> QED
    BY <2>4 DEF T
<1> QED
  BY <1>4, <1>5 DEF TipOrderSound

(* The trees stay well-formed as they grow.                                 *)
LEMMA TreesGrow ==
    TreeSpec => []TreeInv
<1>1. TreeInit => TreeInv
  <2> SUFFICES ASSUME TreeInit PROVE TreeInv
    OBVIOUS
  <2>1. main_chain = <<[prev |-> 0, work |-> 1]>> /\ DOMAIN side_chain = {}
    BY DEF TreeInit, ZeroHash
  <2>2. [prev |-> 0, work |-> 1] \in [prev : Nat, work : Nat \ {0}]
    OBVIOUS
  <2>3. main_chain \in Seq([prev : Nat, work : Nat \ {0}]) /\ Mined = {1}
    BY <2>1, <2>2 DEF Mined
  <2>4. side_chain \in [{} -> {} \cup {ZeroHash}]
    BY DEF TreeInit
  <2> QED
    BY <2>1, <2>3, <2>4 DEF TreeInv
<1>2. TreeInv /\ [TreeNext]_treeVars => TreeInv'
  <2> SUFFICES ASSUME TreeInv, [TreeNext]_treeVars PROVE TreeInv'
    OBVIOUS
  <2> DEFINE R == [prev : Nat, work : Nat \ {0}]
  <2>1. CASE UNCHANGED treeVars
    BY <2>1 DEF TreeInv, treeVars, Mined
  <2>2. ASSUME NEW prev \in Mined, NEW work \in 1..MaxWork,
               main_chain' = Append(main_chain, [prev |-> prev, work |-> work]),
               \/ UNCHANGED side_chain
               \/ \E parent \in DOMAIN side_chain \cup {ZeroHash} :
                      side_chain' = [s \in DOMAIN side_chain \cup {Len(main_chain) + 1} |->
                                        IF s = Len(main_chain) + 1 THEN parent ELSE side_chain[s]]
        PROVE  TreeInv'
    <3> DEFINE n == Len(main_chain)
    <3>1. MaxWork \in Nat /\ main_chain \in Seq(R)
      BY TipChoiceAssumption DEF TreeInv
    <3>2. [prev |-> prev, work |-> work] \in R /\ prev \in 1..n
      BY <3>1 DEF Mined
    <3> HIDE DEF R
    <3>3. /\ n \in Nat /\ main_chain' \in Seq(R) /\ Mined = 1..n /\ Mined' = 1..(n + 1)
          /\ main_chain'[n + 1] = [prev |-> prev, work |-> work]
          /\ \A m \in 1..n : main_chain'[m] = main_chain[m]
      BY <2>2, <3>1, <3>2 DEF Mined
    <3>4. \A m \in Mined' : main_chain'[m].prev < m /\ (main_chain'[m].prev = 0 => m = 1)
      BY SMTT(30), <3>2, <3>3 DEF TreeInv
    <3>5. /\ DOMAIN side_chain \subseteq 2..n
          /\ side_chain \in [DOMAIN side_chain -> DOMAIN side_chain \cup {0}]
          /\ \A s \in DOMAIN side_chain : side_chain[s] < s
      BY SMTT(30), <3>3 DEF TreeInv, ZeroHash
    <3>6. n >= 1
      BY <3>2, <3>3
    <3>7. /\ DOMAIN side_chain' \subseteq 2..(n + 1)
          /\ side_chain' \in [DOMAIN side_chain' -> DOMAIN side_chain' \cup {0}]
          /\ \A s \in DOMAIN side_chain' : side_chain'[s] < s
      <4>1. CASE UNCHANGED side_chain
        BY <3>3, <3>5, <4>1
      <4>2. ASSUME NEW parent \in DOMAIN side_chain \cup {ZeroHash},
                   side_chain' = [s \in DOMAIN side_chain \cup {n + 1} |->
                                     IF s = n + 1 THEN parent ELSE side_chain[s]]
            PROVE  /\ DOMAIN side_chain' \subseteq 2..(n + 1)
                   /\ side_chain' \in [DOMAIN side_chain' -> DOMAIN side_chain' \cup {0}]
                   /\ \A s \in DOMAIN side_chain' : side_chain'[s] < s
        <5> HIDE DEF n
        <5>1. DOMAIN side_chain' = DOMAIN side_chain \cup {n + 1}
          BY <4>2
        <5>2. parent \in 0..n /\ parent \in DOMAIN side_chain \cup {0}
          BY <3>3, <3>5 DEF ZeroHash
        <5>3. \A s \in DOMAIN side_chain : s # n + 1 /\ side_chain'[s] = side_chain[s]
          BY <3>3, <3>5, <4>2
        <5>4. side_chain'[n + 1] = parent
          BY <4>2
        <5>5. \A s \in DOMAIN side_chain' : side_chain'[s] \in DOMAIN side_chain' \cup {0}
          BY <3>5, <5>1, <5>2, <5>3, <5>4
        <5>6. side_chain' \in [DOMAIN side_chain' -> DOMAIN side_chain' \cup {0}]
          BY <4>2, <5>1, <5>5
        <5>7. \A s \in DOMAIN side_chain' : side_chain'[s] < s
          BY <3>3, <3>5, <5>1, <5>2, <5>3, <5>4
        <5>8. DOMAIN side_chain' \subseteq 2..(n + 1)
          BY <3>3, <3>5, <3>6, <5>1
        <5> QED
          BY <5>6, <5>7, <5>8
      <4> QED
        BY <2>2, <4>1, <4>2
    <3>8. DOMAIN side_chain' \subseteq Mined' \ {1}
      BY <3>3, <3>7
    <3> QED
      BY <3>3, <3>4, <3>7, <3>8 DEF TreeInv, ZeroHash, R
  <2>3. CASE TreeNext
    <3>1. PICK prev \in Mined, work \in 1..MaxWork :
              \/ MineMainBlock(prev, work)
              \/ \E parent \in DOMAIN side_chain \cup {ZeroHash} :
                     MineSideBlock(prev, work, parent)
      BY <2>3 DEF TreeNext
    <3>2. /\ main_chain' = Append(main_chain, [prev |-> prev, work |-> work])
          /\ \/ UNCHANGED side_chain
             \/ \E parent \in DOMAIN side_chain \cup {ZeroHash} :
                    side_chain' = [s \in DOMAIN side_chain \cup {Len(main_chain) + 1} |->
                                      IF s = Len(main_chain) + 1 THEN parent ELSE side_chain[s]]
      BY <3>1 DEF MineMainBlock, MineSideBlock
    <3> QED
      BY <2>2, <3>2
  <2> QED
    BY <2>1, <2>3
<1> QED
  BY <1>1, <1>2, PTL DEF TreeSpec

(* The check that decides whether anything is asked of a peer and the one   *)
(* that decides on the blocks once they are there agree about any two tips  *)
(* above the genesis height, of every pair of block trees.                  *)
THEOREM PeerCheckAgreesAlways == TreeSpec => []PeerCheckAgrees
  BY TreesGrow, PeerCheckInState, PTL

(* better_tip follows its rule, the documented one but for equal heights on *)
(* one lineage, where the lower work is first and not the greater; and      *)
(* among the tips of one branch of the mainchain it is free of cycles and   *)
(* total: on every pair of block trees.                                     *)
THEOREM TipOrderSoundAlways == TreeSpec => []TipOrderSound
  BY TreesGrow, TipOrderInState, PTL
==============================================================================
