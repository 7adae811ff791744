-------------------------- MODULE BackupLedgerProofs --------------------------
(***************************************************************************)
(* The ledger of the backup, for any files, any bundle size and any number *)
(* of edits, kills and damaged assets. Every copy of the ledger, in the    *)
(* file or in a command, is sane by itself and backed by the remote, so    *)
(* that overlapping commands keep both; what a re-verification revoked     *)
(* stays revoked only when the commands run one at a time.                 *)
(***************************************************************************)
EXTENDS BackupLedger, WellFoundedInduction, TLAPS

-----------------------------------------------------------------------------
(* The inductive invariant                                                 *)

Holders(l, f) == {i \in DOMAIN l.bundles : f \in DOMAIN l.bundles[i].contents}

\* An object and the bundle it names agree; no other bundle has it.
OneStory(l) ==
    \A f \in Objects :
        LET entry == l.entries[f] IN
        /\ Holders(l, f) = IF entry.bundle = 0 THEN {} ELSE {entry.bundle}
        /\ entry.bundle = 0 => entry.state \in {"absent", "hashed"}
        /\ entry.bundle # 0 => entry.state = l.bundles[entry.bundle].state

\* The bundle holds what its objects were registered with.
Matches(l, i) ==
    \A f \in DOMAIN l.bundles[i].contents : l.bundles[i].contents[f] = l.entries[f].sha

Sane(l) ==
    /\ IsLedger(l)
    /\ OneStory(l)
    /\ \A i \in DOMAIN l.bundles : l.bundles[i].state = "committed_complete" => Matches(l, i)

\* The asset is there, or somebody else removed or damaged it.
Held(asset) == asset \in spoiled \/ (asset \in DOMAIN remote /\ remote[asset] = "intact")

Backed(l) == \A i \in DOMAIN l.bundles : Held(Asset(l.bundles[i]))

Steps == {"idle", "resume", "fetch", "confirm", "commit", "bundle", "pack", "upload",
          "enrol", "verify", "evacuate"}

Parcels == [seq : Nat, contents : UNION {[group -> Versions] : group \in SUBSET Objects}]

Seen == [Objects -> Versions \cup {0}]

Jobs == [pc : Steps, ledger : Ledgers, files : SUBSET Objects, groups : SUBSET (SUBSET Objects),
         bundle : Parcels, left : SUBSET Nat, done : SUBSET Nat, seen : Seen, clean : BOOLEAN]

\* The groups still to be bundled: disjoint, and of objects in no bundle.
Queue(groups, l) ==
    /\ \A group \in groups : group # {} /\ group \subseteq Unassigned(l)
    /\ \A one, other \in groups : one # other => one \cap other = {}

\* What each step of a command leaves for the next.
Prepared(j) ==
    /\ Sane(j.ledger)
    /\ Queue(j.groups, j.ledger)
    /\ j.pc \in {"bundle", "pack", "upload", "enrol"} => j.groups # {}
    /\ j.pc \in {"confirm", "commit"} =>
           Incomplete(j.ledger) # {} /\ Matches(j.ledger, Min(Incomplete(j.ledger)))
    /\ j.pc \in {"upload", "enrol"} => /\ j.bundle.seq = Len(j.ledger.bundles) + 1
                                       /\ DOMAIN j.bundle.contents = NextGroup(j.groups)
                                       /\ j.bundle.contents \in Contents
    /\ j.pc = "verify" => j.left \cup j.done \subseteq DOMAIN j.ledger.bundles
    /\ j.pc = "evacuate" => j.left \subseteq Objects

Shipped(j) == Backed(j.ledger) /\ (j.pc = "enrol" => Held(j.bundle))

Surroundings ==
    /\ local \in [Objects -> Versions]
    /\ \A asset \in DOMAIN remote : asset.contents \in Contents /\ remote[asset] \in {"intact", "damaged"}
    /\ report.ready \in BOOLEAN
    /\ visits \in 0..MaxVisits

BackupInv ==
    /\ Surroundings
    /\ job \in [Commands -> Jobs]
    /\ Sane(ledger) /\ Backed(ledger)
    /\ \A p \in Commands : Prepared(job[p]) /\ Shipped(job[p])

\* One command at a time: its copy is the ledger, save for the bundles a
\* verification has gone through; and what an evacuation check saw is committed.
Follows(j, l) ==
    /\ j.pc \notin {"idle", "verify"} => j.ledger = l
    /\ j.pc = "verify" =>
           /\ DOMAIN j.ledger.bundles = DOMAIN l.bundles
           /\ \A i \in DOMAIN l.bundles :
                  /\ Asset(j.ledger.bundles[i]) = Asset(l.bundles[i])
                  /\ i \notin j.done => j.ledger.bundles[i].state = l.bundles[i].state
    /\ j.pc = "evacuate" /\ j.clean =>
           \A f \in Objects \ j.left : /\ j.ledger.entries[f].state = "committed_complete"
                                       /\ j.ledger.entries[f].sha = j.seen[f]

\* No bundle of the ledger that is among the revoked is committed.
NotClaimed(l, revoked) ==
    \A i \in DOMAIN l.bundles :
        Asset(l.bundles[i]) \in revoked => l.bundles[i].state # "committed_complete"

SerialInv ==
    /\ BackupInv
    /\ NotClaimed(ledger, condemned)
    /\ \A p \in Commands : Follows(job[p], ledger)

-----------------------------------------------------------------------------
(* Smallest elements, groups and the operations on a ledger                *)

LEMMA SmallestExists ==
    ASSUME NEW S \in SUBSET Nat, S # {}
    PROVE  \E m \in S : \A n \in S : m =< n
<1>1. \E m \in S : \A n \in S : ~ (<<n, m>> \in OpToRel(<, Nat))
  BY NatLessThanWellFounded, WFMin
<1>2. PICK m \in S : \A n \in S : ~ (<<n, m>> \in OpToRel(<, Nat))
  BY <1>1
<1>3. ASSUME NEW n \in S PROVE m =< n
  <2>1. ~ (<<n, m>> \in OpToRel(<, Nat))
    BY <1>2
  <2>2. ~ (n < m)
    BY <2>1 DEF OpToRel
  <2> QED
    BY <2>2
<1> QED
  BY <1>3

LEMMA MinIn == ASSUME NEW S \in SUBSET Nat, S # {} PROVE Min(S) \in S
  BY SmallestExists DEF Min

\* The first group is one of the groups.
LEMMA NextGroupIn ==
    ASSUME NEW groups, groups # {},
           \A group \in groups : group # {} /\ group \subseteq Objects
    PROVE  NextGroup(groups) \in groups
<1>1. UNION groups # {} /\ UNION groups \in SUBSET Nat
  <2>1. PICK group \in groups : group # {}
    OBVIOUS
  <2>2. \A f \in UNION groups : f \in Nat
    BY ObjectsAssumption
  <2>3. UNION groups # {}
    BY <2>1
  <2> QED
    BY <2>2, <2>3
<1>2. Min(UNION groups) \in UNION groups
  BY <1>1, MinIn
<1> QED
  BY <1>2 DEF NextGroup

\* Partition splits its entries into disjoint groups that are not empty.
LEMMA PartitionSplits ==
    ASSUME NEW entries
    PROVE  /\ \A group \in Partition(entries) : group # {} /\ group \subseteq entries
           /\ \A one, other \in Partition(entries) : one # other => one \cap other = {}
  BY Zenon DEF Partition

LEMMA IncompleteTyped ==
    ASSUME NEW l \in Ledgers
    PROVE  /\ Incomplete(l) \in SUBSET Nat
           /\ Incomplete(l) \subseteq DOMAIN l.bundles
           /\ Incomplete(l) # {} => Min(Incomplete(l)) \in DOMAIN l.bundles
<1>1. DOMAIN l.bundles \subseteq Nat /\ Incomplete(l) \subseteq DOMAIN l.bundles
  BY DEF Ledgers, Incomplete
<1> QED
  BY <1>1, MinIn

LEMMA EmptySane == Sane(EmptyLedger)
  BY DEF Sane, EmptyLedger, IsLedger, Ledgers, Numbered, OneStory, Holders, Entries, Unregistered

\* Marking a bundle keeps the ledger sane, and every asset it names.
LEMMA MarkedSane ==
    ASSUME NEW l, Sane(l), NEW i \in DOMAIN l.bundles, NEW state \in BundleStates,
           state = "committed_complete" => Matches(l, i)
    PROVE  /\ Sane(Marked(l, i, state))
           /\ DOMAIN Marked(l, i, state).bundles = DOMAIN l.bundles
           /\ \A k \in DOMAIN l.bundles :
                  /\ Asset(Marked(l, i, state).bundles[k]) = Asset(l.bundles[k])
                  /\ Marked(l, i, state).bundles[k].state = IF k = i THEN state ELSE l.bundles[k].state
           /\ \A f \in Objects : /\ Marked(l, i, state).entries[f].sha = l.entries[f].sha
                                 /\ Marked(l, i, state).entries[f].bundle = l.entries[f].bundle
           /\ Unassigned(Marked(l, i, state)) = Unassigned(l)
<1> DEFINE m == Marked(l, i, state)
<1>1. /\ l \in Ledgers /\ Numbered(l) /\ OneStory(l)
      /\ \A k \in DOMAIN l.bundles : l.bundles[k].state = "committed_complete" => Matches(l, k)
  BY DEF Sane, IsLedger
<1>2. /\ m.bundles = [l.bundles EXCEPT ![i].state = state]
      /\ m.entries = [f \in Objects |-> IF f \in DOMAIN l.bundles[i].contents
                                        THEN [l.entries[f] EXCEPT !.state = state] ELSE l.entries[f]]
      /\ m = [bundles |-> m.bundles, entries |-> m.entries]
  BY DEF Marked
<1> HIDE DEF m
<1>3. \A k \in DOMAIN l.bundles : l.bundles[k] \in Bundles
  BY <1>1 DEF Ledgers
<1>4. /\ DOMAIN m.bundles = DOMAIN l.bundles
      /\ \A k \in DOMAIN l.bundles :
            /\ m.bundles[k].contents = l.bundles[k].contents
            /\ m.bundles[k].seq = l.bundles[k].seq
            /\ m.bundles[k].state = IF k = i THEN state ELSE l.bundles[k].state
  BY <1>1, <1>2, <1>3 DEF Ledgers, Bundles
<1>5. m.bundles \in Seq(Bundles)
  <2>1. [l.bundles[i] EXCEPT !.state = state] \in Bundles
    BY <1>3 DEF Bundles
  <2> QED
    BY <1>1, <1>2, <2>1 DEF Ledgers
<1>6. \A f \in Objects : l.entries[f] \in Entries
  BY <1>1 DEF Ledgers
<1>7. \A f \in Objects :
        /\ m.entries[f].sha = l.entries[f].sha
        /\ m.entries[f].bundle = l.entries[f].bundle
        /\ m.entries[f].state = IF f \in DOMAIN l.bundles[i].contents THEN state ELSE l.entries[f].state
  BY <1>2, <1>6 DEF Entries, Unregistered
<1>8. \A f \in DOMAIN l.bundles[i].contents : f \in Objects =>
        l.entries[f].bundle = i /\ l.entries[f].state # "absent"
  <2> SUFFICES ASSUME NEW f \in DOMAIN l.bundles[i].contents, f \in Objects
               PROVE  l.entries[f].bundle = i /\ l.entries[f].state # "absent"
      OBVIOUS
  <2>1. i \in Holders(l, f)
    BY DEF Holders
  <2>2. l.entries[f].bundle = i /\ l.entries[f].bundle # 0
    BY <1>1, <2>1 DEF OneStory
  <2>3. l.entries[f].state = l.bundles[i].state
    BY <1>1, <2>2 DEF OneStory
  <2> QED
    BY <2>2, <2>3, <1>3 DEF Bundles, BundleStates
<1>9. \A f \in Objects : m.entries[f] \in Entries
  <2> SUFFICES ASSUME NEW f \in Objects PROVE m.entries[f] \in Entries
      OBVIOUS
  <2>1. CASE f \in DOMAIN l.bundles[i].contents
    <3>1. l.entries[f] # Unregistered
      BY <2>1, <1>8 DEF Unregistered
    <3>2. l.entries[f] \in [sha : Versions, state : {"hashed", "uploaded", "committed_complete"}, bundle : Nat]
      BY <3>1, <1>6 DEF Entries
    <3>3. m.entries[f] = [l.entries[f] EXCEPT !.state = state]
      BY <1>2, <2>1
    <3> QED
      BY <3>2, <3>3 DEF Entries, BundleStates
  <2>2. CASE f \notin DOMAIN l.bundles[i].contents
    BY <1>2, <1>6, <2>2
  <2> QED
    BY <2>1, <2>2
<1>10. m \in Ledgers
  <2>1. m.entries \in [Objects -> Entries]
    BY <1>2, <1>9
  <2> QED
    BY <2>1, <1>2, <1>5 DEF Ledgers
<1>11. Numbered(m)
  BY <1>1, <1>4 DEF Numbered
<1>12. \A f \in Objects : Holders(m, f) = Holders(l, f)
  BY <1>4 DEF Holders
<1>13. OneStory(m)
  <2> SUFFICES ASSUME NEW f \in Objects
               PROVE  /\ Holders(m, f) = IF m.entries[f].bundle = 0 THEN {} ELSE {m.entries[f].bundle}
                      /\ m.entries[f].bundle = 0 => m.entries[f].state \in {"absent", "hashed"}
                      /\ m.entries[f].bundle # 0 => m.entries[f].state = m.bundles[m.entries[f].bundle].state
      BY DEF OneStory
  <2>1. Holders(m, f) = IF m.entries[f].bundle = 0 THEN {} ELSE {m.entries[f].bundle}
    BY <1>1, <1>7, <1>12 DEF OneStory
  <2>2. i \in Nat \ {0}
    BY <1>1 DEF Ledgers
  <2>3. m.entries[f].bundle = 0 => m.entries[f].state \in {"absent", "hashed"}
    BY <1>1, <1>7, <1>8, <2>2 DEF OneStory
  <2>4. ASSUME m.entries[f].bundle # 0
        PROVE  m.entries[f].state = m.bundles[m.entries[f].bundle].state
    <3>1. l.entries[f].bundle # 0 /\ l.entries[f].state = l.bundles[l.entries[f].bundle].state
      BY <1>1, <1>7, <2>4 DEF OneStory
    <3>2. l.entries[f].bundle \in Holders(l, f)
      BY <1>1, <3>1 DEF OneStory
    <3>3. l.entries[f].bundle \in DOMAIN l.bundles
      BY <3>2 DEF Holders
    <3>4. f \in DOMAIN l.bundles[i].contents <=> l.entries[f].bundle = i
      BY <1>8, <3>2 DEF Holders
    <3> QED
      BY <1>4, <1>7, <3>1, <3>3, <3>4
  <2> QED
    BY <2>1, <2>3, <2>4
<1>14. \A k \in DOMAIN m.bundles : m.bundles[k].state = "committed_complete" => Matches(m, k)
  <2> SUFFICES ASSUME NEW k \in DOMAIN m.bundles, m.bundles[k].state = "committed_complete"
               PROVE  Matches(m, k)
      OBVIOUS
  <2>1. k \in DOMAIN l.bundles /\ Matches(l, k)
    BY <1>1, <1>4
  <2>2. DOMAIN l.bundles[k].contents \subseteq Objects
    BY <1>3, <2>1 DEF Bundles, Contents
  <2> QED
    BY <1>4, <1>7, <2>1, <2>2 DEF Matches
<1>15. Unassigned(m) = Unassigned(l)
  <2>1. ASSUME NEW f \in Objects PROVE f \in Unassigned(m) <=> f \in Unassigned(l)
    <3>1. CASE f \in DOMAIN l.bundles[i].contents
      <4>1. l.entries[f].bundle # 0 /\ m.entries[f].bundle # 0
        BY <3>1, <1>7, <1>8, <1>1 DEF Ledgers
      <4> QED
        BY <4>1 DEF Unassigned
    <3>2. CASE f \notin DOMAIN l.bundles[i].contents
      BY <3>2, <1>7 DEF Unassigned, Registered
    <3> QED
      BY <3>1, <3>2
  <2> QED
    BY <2>1 DEF Unassigned, Registered
<1> QED
  BY <1>4, <1>7, <1>10, <1>11, <1>13, <1>14, <1>15 DEF Sane, IsLedger, Asset, m

\* Registering files puts none of them in a bundle.
LEMMA WithFilesSane ==
    ASSUME NEW l, Sane(l), NEW files \in SUBSET Objects, local \in [Objects -> Versions]
    PROVE  /\ Sane(WithFiles(l, files))
           /\ WithFiles(l, files).bundles = l.bundles
<1> DEFINE m == WithFiles(l, files)
<1>1. /\ l \in Ledgers /\ Numbered(l) /\ OneStory(l)
      /\ \A k \in DOMAIN l.bundles : l.bundles[k].state = "committed_complete" => Matches(l, k)
  BY DEF Sane, IsLedger
<1>2. m = [l EXCEPT !.entries = m.entries]
  BY <1>1 DEF WithFiles, Ledgers
<1>3. m.entries = [f \in Objects |->
                      IF f \in files \ Registered(l)
                      THEN [sha |-> local[f], state |-> "hashed", bundle |-> 0]
                      ELSE l.entries[f]]
  BY <1>1 DEF WithFiles, Ledgers
<1> HIDE DEF m
<1>4. m.bundles = l.bundles
  BY <1>1, <1>2 DEF Ledgers
<1>5. \A f \in Objects : m.entries[f] \in Entries
  BY <1>1, <1>3 DEF Ledgers, Entries
<1>6. m \in Ledgers
  <2>1. m.entries \in [Objects -> Entries]
    BY <1>3, <1>5
  <2> QED
    BY <2>1, <1>1, <1>2 DEF Ledgers
<1>7. \A f \in Objects : f \in files \ Registered(l) =>
        /\ l.entries[f].bundle = 0
        /\ m.entries[f].bundle = 0 /\ m.entries[f].state = "hashed"
  <2> SUFFICES ASSUME NEW f \in Objects, f \in files \ Registered(l)
               PROVE  /\ l.entries[f].bundle = 0
                      /\ m.entries[f].bundle = 0 /\ m.entries[f].state = "hashed"
      OBVIOUS
  <2>1. l.entries[f].state = "absent" /\ l.entries[f] \in Entries
    BY <1>1 DEF Registered, Ledgers
  <2>2. l.entries[f] = Unregistered
    BY <2>1 DEF Entries
  <2> QED
    BY <2>2, <1>3 DEF Unregistered
<1>8. \A f \in Objects : f \notin files \ Registered(l) => m.entries[f] = l.entries[f]
  BY <1>3
<1>9. \A f \in Objects : Holders(m, f) = Holders(l, f)
  BY <1>4 DEF Holders
<1>10. OneStory(m)
  <2> SUFFICES ASSUME NEW f \in Objects
               PROVE  /\ Holders(m, f) = IF m.entries[f].bundle = 0 THEN {} ELSE {m.entries[f].bundle}
                      /\ m.entries[f].bundle = 0 => m.entries[f].state \in {"absent", "hashed"}
                      /\ m.entries[f].bundle # 0 => m.entries[f].state = m.bundles[m.entries[f].bundle].state
      BY DEF OneStory
  <2>1. CASE f \in files \ Registered(l)
    BY <2>1, <1>1, <1>7, <1>9 DEF OneStory
  <2>2. CASE f \notin files \ Registered(l)
    BY <2>2, <1>1, <1>4, <1>8, <1>9 DEF OneStory
  <2> QED
    BY <2>1, <2>2
<1>11. ASSUME NEW k \in DOMAIN m.bundles, m.bundles[k].state = "committed_complete"
       PROVE  Matches(m, k)
  <2>1. Matches(l, k) /\ l.bundles[k] \in Bundles
    BY <1>1, <1>4, <1>11 DEF Ledgers
  <2>2. DOMAIN l.bundles[k].contents \subseteq Objects
    BY <2>1 DEF Bundles, Contents
  <2>3. ASSUME NEW f \in DOMAIN l.bundles[k].contents PROVE m.entries[f] = l.entries[f]
    <3>1. k \in Holders(l, f) /\ f \in Objects
      BY <2>2, <1>4 DEF Holders
    <3>2. l.entries[f].bundle # 0
      BY <3>1, <1>1 DEF OneStory
    <3> QED
      BY <3>1, <3>2, <1>7, <1>8
  <2> QED
    BY <1>4, <2>1, <2>3 DEF Matches
<1>12. Numbered(m)
  BY <1>1, <1>4 DEF Numbered
<1> QED
  BY <1>4, <1>6, <1>10, <1>11, <1>12 DEF Sane, IsLedger, m

\* Adding a bundle of objects in no bundle.
LEMMA WithBundleSane ==
    ASSUME NEW l, Sane(l), NEW bundle,
           bundle.seq = Len(l.bundles) + 1, bundle.contents \in Contents,
           DOMAIN bundle.contents \subseteq Unassigned(l)
    PROVE  /\ Sane(WithBundle(l, bundle))
           /\ DOMAIN WithBundle(l, bundle).bundles = DOMAIN l.bundles \cup {bundle.seq}
           /\ \A k \in DOMAIN l.bundles : WithBundle(l, bundle).bundles[k] = l.bundles[k]
           /\ WithBundle(l, bundle).bundles[bundle.seq] =
                 [seq |-> bundle.seq, contents |-> bundle.contents, state |-> "uploaded"]
           /\ bundle.seq \notin DOMAIN l.bundles
           /\ Unassigned(WithBundle(l, bundle)) = Unassigned(l) \ DOMAIN bundle.contents
<1> DEFINE m == WithBundle(l, bundle)
           b == [seq |-> bundle.seq, contents |-> bundle.contents, state |-> "uploaded"]
<1>1. /\ l \in Ledgers /\ Numbered(l) /\ OneStory(l)
      /\ \A k \in DOMAIN l.bundles : l.bundles[k].state = "committed_complete" => Matches(l, k)
  BY DEF Sane, IsLedger
<1>2. /\ m.bundles = Append(l.bundles, b)
      /\ m.entries = [f \in Objects |->
                         IF f \in DOMAIN bundle.contents
                         THEN [l.entries[f] EXCEPT !.state = "uploaded", !.bundle = bundle.seq]
                         ELSE l.entries[f]]
      /\ m = [bundles |-> m.bundles, entries |-> m.entries]
  BY DEF WithBundle
<1> HIDE DEF m
<1>3. l.bundles \in Seq(Bundles) /\ Len(l.bundles) \in Nat /\ bundle.seq \in Nat \ {0}
  BY <1>1 DEF Ledgers
<1>4. b \in Bundles /\ b.seq = bundle.seq /\ b.contents = bundle.contents /\ b.state = "uploaded"
  BY <1>3 DEF Bundles, BundleStates
<1> HIDE DEF b
<1>5. /\ m.bundles \in Seq(Bundles)
      /\ DOMAIN m.bundles = DOMAIN l.bundles \cup {bundle.seq}
      /\ \A k \in DOMAIN l.bundles : m.bundles[k] = l.bundles[k]
      /\ m.bundles[bundle.seq] = b
      /\ bundle.seq \notin DOMAIN l.bundles
  <2> DEFINE before == l.bundles
  <2>7. m.bundles = Append(before, b) /\ before \in Seq(Bundles) /\ b \in Bundles
    BY <1>2, <1>3, <1>4
  <2> HIDE DEF before
  <2>6. /\ Append(before, b) \in Seq(Bundles)
        /\ Len(Append(before, b)) = Len(before) + 1
        /\ \A k \in 1..Len(before) : Append(before, b)[k] = before[k]
        /\ Append(before, b)[Len(before) + 1] = b
    BY <2>7
  <2>1. m.bundles \in Seq(Bundles) /\ Len(m.bundles) = Len(l.bundles) + 1
    BY <2>7, <2>6 DEF before
  <2>2. DOMAIN m.bundles = 1..(Len(l.bundles) + 1) /\ DOMAIN l.bundles = 1..Len(l.bundles)
    BY <1>3, <2>1
  <2>3. \A k \in 1..Len(l.bundles) : m.bundles[k] = l.bundles[k]
    BY <2>7, <2>6 DEF before
  <2>4. m.bundles[Len(l.bundles) + 1] = b
    BY <2>7, <2>6 DEF before
  <2>5. 1..(Len(l.bundles) + 1) = 1..Len(l.bundles) \cup {Len(l.bundles) + 1}
    BY <1>3
  <2> QED
    BY <2>1, <2>2, <2>3, <2>4, <2>5, <1>3
<1>6. \A f \in DOMAIN bundle.contents :
        /\ f \in Objects /\ l.entries[f] \in Entries /\ l.entries[f] # Unregistered
        /\ l.entries[f].bundle = 0 /\ l.entries[f].state # "committed_complete"
  <2>1. \A f \in Unassigned(l) : /\ f \in Objects /\ l.entries[f].state # "absent"
                                 /\ l.entries[f].bundle = 0
                                 /\ l.entries[f].state # "committed_complete"
    BY DEF Unassigned, Registered
  <2> QED
    BY <2>1, <1>1 DEF Ledgers, Unregistered
<1>7. \A f \in Objects : f \notin DOMAIN bundle.contents => m.entries[f] = l.entries[f]
  BY <1>2
<1>8. \A f \in DOMAIN bundle.contents :
        /\ m.entries[f] \in [sha : Versions, state : {"hashed", "uploaded", "committed_complete"}, bundle : Nat]
        /\ m.entries[f].sha = l.entries[f].sha
        /\ m.entries[f].state = "uploaded" /\ m.entries[f].bundle = bundle.seq
  <2> SUFFICES ASSUME NEW f \in DOMAIN bundle.contents
               PROVE  /\ m.entries[f] \in [sha : Versions, state : {"hashed", "uploaded", "committed_complete"}, bundle : Nat]
                      /\ m.entries[f].sha = l.entries[f].sha
                      /\ m.entries[f].state = "uploaded" /\ m.entries[f].bundle = bundle.seq
      OBVIOUS
  <2>1. l.entries[f] \in [sha : Versions, state : {"hashed", "uploaded", "committed_complete"}, bundle : Nat]
    BY <1>6 DEF Entries
  <2>2. m.entries[f] = [l.entries[f] EXCEPT !.state = "uploaded", !.bundle = bundle.seq]
    BY <1>2, <1>6
  <2> QED
    BY <2>1, <2>2, <1>3
<1>9. m \in Ledgers
  <2>1. \A f \in Objects : m.entries[f] \in Entries
    BY <1>1, <1>7, <1>8 DEF Ledgers, Entries
  <2>2. m.entries \in [Objects -> Entries]
    BY <1>2, <2>1
  <2> QED
    BY <2>2, <1>2, <1>5 DEF Ledgers
<1>10. Numbered(m)
  BY <1>1, <1>4, <1>5 DEF Numbered
<1>11. OneStory(m)
  <2> SUFFICES ASSUME NEW f \in Objects
               PROVE  /\ Holders(m, f) = IF m.entries[f].bundle = 0 THEN {} ELSE {m.entries[f].bundle}
                      /\ m.entries[f].bundle = 0 => m.entries[f].state \in {"absent", "hashed"}
                      /\ m.entries[f].bundle # 0 => m.entries[f].state = m.bundles[m.entries[f].bundle].state
      BY DEF OneStory
  <2>1. Holders(m, f) = Holders(l, f) \cup (IF f \in DOMAIN bundle.contents THEN {bundle.seq} ELSE {})
    BY <1>4, <1>5 DEF Holders
  <2>2. CASE f \in DOMAIN bundle.contents
    <3>1. Holders(l, f) = {}
      BY <2>2, <1>1, <1>6 DEF OneStory
    <3> QED
      BY <2>1, <2>2, <3>1, <1>3, <1>4, <1>5, <1>8
  <2>3. CASE f \notin DOMAIN bundle.contents
    <3>1. m.entries[f] = l.entries[f] /\ Holders(m, f) = Holders(l, f)
      BY <2>1, <2>3, <1>7
    <3>2. l.entries[f].bundle # 0 => l.entries[f].bundle \in DOMAIN l.bundles
      BY <1>1 DEF OneStory, Holders
    <3> QED
      BY <3>1, <3>2, <1>1, <1>5 DEF OneStory
  <2> QED
    BY <2>2, <2>3
<1>12. ASSUME NEW k \in DOMAIN m.bundles, m.bundles[k].state = "committed_complete"
       PROVE  Matches(m, k)
  <2>1. k \in DOMAIN l.bundles /\ m.bundles[k] = l.bundles[k]
    BY <1>4, <1>5, <1>12
  <2>2. Matches(l, k) /\ l.bundles[k] \in Bundles
    BY <1>1, <1>12, <2>1 DEF Ledgers
  <2>3. DOMAIN l.bundles[k].contents \subseteq Objects
    BY <2>2 DEF Bundles, Contents
  <2>4. ASSUME NEW f \in DOMAIN l.bundles[k].contents PROVE m.entries[f] = l.entries[f]
    <3>1. k \in Holders(l, f) /\ f \in Objects
      BY <2>1, <2>3 DEF Holders
    <3>2. l.entries[f].bundle # 0
      BY <3>1, <1>1 DEF OneStory
    <3> QED
      BY <3>1, <3>2, <1>6, <1>7
  <2> QED
    BY <2>1, <2>2, <2>4 DEF Matches
<1>13. Unassigned(m) = Unassigned(l) \ DOMAIN bundle.contents
  <2>1. ASSUME NEW f \in Objects
        PROVE  f \in Unassigned(m) <=> f \in Unassigned(l) \ DOMAIN bundle.contents
    BY <1>3, <1>7, <1>8 DEF Unassigned, Registered
  <2> QED
    BY <2>1 DEF Unassigned, Registered
<1> QED
  BY <1>5, <1>9, <1>10, <1>11, <1>12, <1>13 DEF Sane, IsLedger, m, b

-----------------------------------------------------------------------------
(* What a step of one command does to the invariant                        *)

LEMMA NoJobFits == NoJob \in Jobs /\ Prepared(NoJob) /\ Shipped(NoJob)
<1>1. NoJob.pc = "idle" /\ NoJob.ledger = EmptyLedger /\ NoJob.groups = {}
  BY DEF NoJob
<1>2. EmptyLedger \in Ledgers /\ EmptyLedger.bundles = <<>>
  BY EmptySane DEF Sane, IsLedger, EmptyLedger
<1>3. [seq |-> 0, contents |-> [f \in {} |-> 0]] \in Parcels
  <2>1. [f \in {} |-> 0] \in [{} -> Versions]
    OBVIOUS
  <2> QED
    BY <2>1 DEF Parcels
<1>4. [f \in Objects |-> 0] \in Seen
  BY DEF Seen
<1>5. NoJob \in Jobs
  BY <1>2, <1>3, <1>4 DEF NoJob, Jobs, Steps
<1>6. Prepared(NoJob)
  BY <1>1, EmptySane DEF Prepared, Queue
<1>7. Shipped(NoJob)
  BY <1>1, <1>2 DEF Shipped, Backed
<1> QED
  BY <1>5, <1>6, <1>7

\* Held, after a step.
HeldNext(asset) == asset \in spoiled' \/ (asset \in DOMAIN remote' /\ remote'[asset] = "intact")

\* Nothing takes an asset away unnoticed.
Kept == \A asset : Held(asset) => HeldNext(asset)

LEMMA StillKept == ASSUME UNCHANGED <<remote, spoiled>> PROVE Kept
  BY DEF Kept, Held, HeldNext

\* A command moves to a prepared step; the others stand.
LEMMA CommandMoves ==
    ASSUME BackupInv, Kept, NEW p \in Commands, NEW j \in Jobs, job' = [job EXCEPT ![p] = j],
           Prepared(j),
           \A i \in DOMAIN j.ledger.bundles : HeldNext(Asset(j.ledger.bundles[i])),
           j.pc = "enrol" => HeldNext(j.bundle)
    PROVE  /\ job' \in [Commands -> Jobs]
           /\ \A q \in Commands : Prepared(job[q])' /\ Shipped(job[q])'
<1>1. job \in [Commands -> Jobs] /\ \A q \in Commands : Prepared(job[q]) /\ Shipped(job[q])
  BY DEF BackupInv
<1>2. job' \in [Commands -> Jobs]
  BY <1>1
<1>3. ASSUME NEW q \in Commands PROVE Prepared(job'[q]) /\ Shipped(job[q])'
  <2>1. CASE q = p
    <3>1. job'[q] = j
      BY <2>1, <1>1
    <3> QED
      BY <3>1 DEF Shipped, Backed, Held, HeldNext
  <2>2. CASE q # p
    <3>1. job'[q] = job[q]
      BY <2>2, <1>1
    <3>2. Prepared(job[q]) /\ Shipped(job[q])
      BY <1>1
    <3>3. Shipped(job[q])'
      BY <3>1, <3>2 DEF Shipped, Backed, Held, HeldNext, Kept
    <3> QED
      BY <3>1, <3>2, <3>3
  <2> QED
    BY <2>1, <2>2
<1>4. \A q \in Commands : Prepared(job[q])'
  BY <1>3
<1> QED
  BY <1>2, <1>3, <1>4

\* The same, for a step that leaves the remote alone.
LEMMA CommandMovesQuietly ==
    ASSUME BackupInv, UNCHANGED <<remote, spoiled>>, NEW p \in Commands, NEW j \in Jobs,
           job' = [job EXCEPT ![p] = j], Prepared(j), Shipped(j)
    PROVE  /\ job' \in [Commands -> Jobs]
           /\ \A q \in Commands : Prepared(job[q])' /\ Shipped(job[q])'
<1>1. \A i \in DOMAIN j.ledger.bundles : HeldNext(Asset(j.ledger.bundles[i]))
  BY DEF Shipped, Backed, Held, HeldNext
<1>2. j.pc = "enrol" => HeldNext(j.bundle)
  BY DEF Shipped, Held, HeldNext
<1> QED
  BY <1>1, <1>2, CommandMoves, StillKept

\* A command that ends, with the ledger as it is.
LEMMA ExitKeeps ==
    ASSUME BackupInv, NEW p \in Commands, Exit(p), UNCHANGED <<remote, spoiled, ledger>>,
           Surroundings'
    PROVE  BackupInv'
<1>1. /\ job' \in [Commands -> Jobs]
      /\ \A q \in Commands : Prepared(job[q])' /\ Shipped(job[q])'
  BY NoJobFits, CommandMovesQuietly DEF Exit, Go
<1>2. Sane(ledger)' /\ Backed(ledger)'
  BY DEF BackupInv, Backed, Held
<1> QED
  BY <1>1, <1>2 DEF BackupInv

\* A command that goes on, with the ledger as it is.
LEMMA GoKeeps ==
    ASSUME BackupInv, NEW p \in Commands, NEW j \in Jobs, Go(p, j), Prepared(j), Shipped(j),
           UNCHANGED <<remote, spoiled, ledger>>, Surroundings'
    PROVE  BackupInv'
<1>1. /\ job' \in [Commands -> Jobs]
      /\ \A q \in Commands : Prepared(job[q])' /\ Shipped(job[q])'
  BY CommandMovesQuietly DEF Go
<1>2. Sane(ledger)' /\ Backed(ledger)'
  BY DEF BackupInv, Backed, Held
<1> QED
  BY <1>1, <1>2 DEF BackupInv

\* A command that goes on with a ledger it has written.
LEMMA SaveKeeps ==
    ASSUME BackupInv, NEW p \in Commands, NEW j \in Jobs, Go(p, j), Prepared(j), Shipped(j),
           NEW l, Save(l), Sane(l), Backed(l),
           UNCHANGED <<remote, spoiled>>, Surroundings'
    PROVE  BackupInv'
<1>1. /\ job' \in [Commands -> Jobs]
      /\ \A q \in Commands : Prepared(job[q])' /\ Shipped(job[q])'
  BY CommandMovesQuietly DEF Go
<1>2. ledger' = l
  BY DEF Save
<1>3. Sane(ledger')
  BY <1>2
<1>4. Backed(ledger)'
  BY <1>2 DEF Backed, Held
<1> QED
  BY <1>1, <1>3, <1>4 DEF BackupInv

-----------------------------------------------------------------------------
(* The steps, one by one                                                   *)

LEMMA VisitTyped == ASSUME Surroundings, Visit \/ UNCHANGED visits PROVE visits' \in 0..MaxVisits
  BY BoundAssumption DEF Surroundings, Visit

\* A command starts from the ledger file.
LEMMA StartsPrepared ==
    ASSUME BackupInv, NEW j \in Jobs, j.ledger = ledger, j.groups = {},
           j.pc \in {"resume", "verify", "evacuate"},
           j.pc = "verify" => j.left \cup j.done \subseteq DOMAIN ledger.bundles,
           j.pc = "evacuate" => j.left \subseteq Objects
    PROVE  Prepared(j) /\ Shipped(j)
  BY DEF BackupInv, Prepared, Shipped, Queue

LEMMA StartSyncKeeps ==
    ASSUME BackupInv, NEW p \in Commands, NEW inventory \in SUBSET Objects, StartSync(p, inventory)
    PROVE  BackupInv'
<1> DEFINE j == [NoJob EXCEPT !.pc = "resume", !.ledger = ledger, !.files = inventory]
<1>1. j \in Jobs /\ j.pc = "resume" /\ j.ledger = ledger /\ j.groups = {}
  <2>1. ledger \in Ledgers
    BY DEF BackupInv, Sane, IsLedger
  <2> QED
    BY <2>1, NoJobFits DEF Jobs, Steps, NoJob
<1>2. Go(p, j) /\ UNCHANGED <<local, ledger, remote, report, spoiled>> /\ visits' \in 0..MaxVisits
  BY VisitTyped DEF StartSync, Begin, Go, BackupInv
<1> HIDE DEF j
<1>3. Prepared(j) /\ Shipped(j)
  BY <1>1, StartsPrepared
<1>4. Surroundings'
  BY <1>2 DEF BackupInv, Surroundings
<1> QED
  BY <1>1, <1>2, <1>3, <1>4, GoKeeps

LEMMA StartVerifyKeeps ==
    ASSUME BackupInv, NEW p \in Commands, NEW bundles \in SUBSET DOMAIN ledger.bundles,
           StartVerify(p, bundles)
    PROVE  BackupInv'
<1> DEFINE j == [NoJob EXCEPT !.pc = "verify", !.ledger = ledger, !.left = bundles]
<1>1. j \in Jobs /\ j.pc = "verify" /\ j.ledger = ledger /\ j.groups = {} /\ j.left = bundles /\ j.done = {}
  <2>1. ledger \in Ledgers /\ DOMAIN ledger.bundles \subseteq Nat
    BY DEF BackupInv, Sane, IsLedger, Ledgers
  <2> QED
    BY <2>1, NoJobFits DEF Jobs, Steps, NoJob
<1>2. Go(p, j) /\ UNCHANGED <<local, ledger, remote, report, spoiled>> /\ visits' \in 0..MaxVisits
  BY VisitTyped DEF StartVerify, Begin, Go, BackupInv
<1> HIDE DEF j
<1>3. Prepared(j) /\ Shipped(j)
  BY <1>1, StartsPrepared
<1>4. Surroundings'
  BY <1>2 DEF BackupInv, Surroundings
<1> QED
  BY <1>1, <1>2, <1>3, <1>4, GoKeeps

LEMMA StartEvacuateKeeps ==
    ASSUME BackupInv, NEW p \in Commands, StartEvacuate(p)
    PROVE  BackupInv'
<1> DEFINE j == [NoJob EXCEPT !.pc = "evacuate", !.ledger = ledger, !.left = Objects]
<1>1. j \in Jobs /\ j.pc = "evacuate" /\ j.ledger = ledger /\ j.groups = {} /\ j.left = Objects
  <2>1. ledger \in Ledgers /\ Objects \subseteq Nat
    BY ObjectsAssumption DEF BackupInv, Sane, IsLedger
  <2> QED
    BY <2>1, NoJobFits DEF Jobs, Steps, NoJob
<1>2. Go(p, j) /\ UNCHANGED <<local, ledger, remote, report, spoiled>> /\ visits' \in 0..MaxVisits
  BY VisitTyped DEF StartEvacuate, Begin, Go, BackupInv
<1> HIDE DEF j
<1>3. Prepared(j) /\ Shipped(j)
  BY <1>1, StartsPrepared
<1>4. Surroundings'
  BY <1>2 DEF BackupInv, Surroundings
<1> QED
  BY <1>1, <1>2, <1>3, <1>4, GoKeeps

LEMMA FetchKeeps ==
    ASSUME BackupInv, NEW p \in Commands, Fetch(p) PROVE BackupInv'
<1> DEFINE next == IF At(p, "resume") THEN "confirm" ELSE "commit"
           j    == [job[p] EXCEPT !.pc = next]
<1>1. job[p] \in Jobs /\ Prepared(job[p]) /\ Shipped(job[p])
  BY DEF BackupInv
<1>2. UNCHANGED <<remote, spoiled, ledger>> /\ Surroundings'
  BY DEF Fetch, BackupInv, Surroundings
<1>3. CASE Restores(job[p].ledger, Min(Incomplete(job[p].ledger)))
  <2>1. Go(p, j) /\ Incomplete(job[p].ledger) # {}
    BY <1>3 DEF Fetch
  <2>2. /\ j \in Jobs /\ j.pc \in {"confirm", "commit"} /\ j.ledger = job[p].ledger
        /\ j.groups = job[p].groups
    BY <1>1 DEF Jobs, Steps
  <2>3. Matches(job[p].ledger, Min(Incomplete(job[p].ledger)))
    BY <1>3 DEF Restores, Matches
  <2> HIDE DEF j
  <2>4. Prepared(j) /\ Shipped(j)
    BY <1>1, <2>1, <2>2, <2>3 DEF Prepared, Shipped
  <2> QED
    BY <2>1, <2>2, <2>4, <1>2, GoKeeps
<1>4. CASE ~ Restores(job[p].ledger, Min(Incomplete(job[p].ledger)))
  <2>1. Exit(p)
    BY <1>4 DEF Fetch
  <2> QED
    BY <2>1, <1>2, ExitKeeps
<1> QED
  BY <1>3, <1>4

\* Groups wait for objects in no bundle, whatever bundle is marked meanwhile.
LEMMA CommitKeeps ==
    ASSUME BackupInv, NEW p \in Commands, Commit(p) PROVE BackupInv'
<1> DEFINE i == Min(Incomplete(job[p].ledger))
           l == Marked(job[p].ledger, i, "committed_complete")
<1>1. job[p] \in Jobs /\ Prepared(job[p]) /\ Shipped(job[p])
  BY DEF BackupInv
<1>2. UNCHANGED <<remote, spoiled>> /\ Surroundings'
  BY DEF Commit, BackupInv, Surroundings
<1>3. /\ Sane(job[p].ledger) /\ Incomplete(job[p].ledger) # {} /\ Matches(job[p].ledger, i)
      /\ Queue(job[p].groups, job[p].ledger) /\ Backed(job[p].ledger)
  BY <1>1 DEF Commit, Prepared, Shipped
<1>4. i \in DOMAIN job[p].ledger.bundles
  BY <1>3, IncompleteTyped DEF Sane, IsLedger
<1>5. /\ Sane(l)
      /\ DOMAIN l.bundles = DOMAIN job[p].ledger.bundles
      /\ \A k \in DOMAIN job[p].ledger.bundles : Asset(l.bundles[k]) = Asset(job[p].ledger.bundles[k])
      /\ Unassigned(l) = Unassigned(job[p].ledger)
  BY <1>3, <1>4, MarkedSane DEF BundleStates
<1>6. Backed(l) /\ Queue(job[p].groups, l) /\ l \in Ledgers
  BY <1>3, <1>5 DEF Backed, Queue, Sane, IsLedger
<1>7. Save(l) /\ \/ Go(p, [job[p] EXCEPT !.ledger = l, !.pc = "resume"])
                 \/ Go(p, NoJob)
                 \/ Go(p, [job[p] EXCEPT !.ledger = l, !.pc = "bundle"]) /\ job[p].groups # {}
  BY DEF Commit, Exit
<1> HIDE DEF l
<1>8. CASE Go(p, NoJob)
  BY <1>8, <1>2, <1>5, <1>6, <1>7, NoJobFits, SaveKeeps
<1>9. CASE Go(p, [job[p] EXCEPT !.ledger = l, !.pc = "resume"])
  <2> DEFINE j == [job[p] EXCEPT !.ledger = l, !.pc = "resume"]
  <2>1. j \in Jobs /\ j.pc = "resume" /\ j.ledger = l /\ j.groups = job[p].groups
    BY <1>1, <1>6 DEF Jobs, Steps
  <2>2. Go(p, j)
    BY <1>9
  <2> HIDE DEF j
  <2>3. Prepared(j) /\ Shipped(j)
    BY <2>1, <1>5, <1>6 DEF Prepared, Shipped
  <2> QED
    BY <2>1, <2>2, <2>3, <1>2, <1>5, <1>6, <1>7, SaveKeeps
<1>10. CASE Go(p, [job[p] EXCEPT !.ledger = l, !.pc = "bundle"]) /\ job[p].groups # {}
  <2> DEFINE j == [job[p] EXCEPT !.ledger = l, !.pc = "bundle"]
  <2>1. j \in Jobs /\ j.pc = "bundle" /\ j.ledger = l /\ j.groups = job[p].groups
    BY <1>1, <1>6 DEF Jobs, Steps
  <2>2. Go(p, j)
    BY <1>10
  <2> HIDE DEF j
  <2>3. Prepared(j) /\ Shipped(j)
    BY <2>1, <1>5, <1>6, <1>10 DEF Prepared, Shipped
  <2> QED
    BY <2>1, <2>2, <2>3, <1>2, <1>5, <1>6, <1>7, SaveKeeps
<1> QED
  BY <1>7, <1>8, <1>9, <1>10

LEMMA RegisterKeeps ==
    ASSUME BackupInv, NEW p \in Commands, Register(p) PROVE BackupInv'
<1> DEFINE new    == WithFiles(job[p].ledger, job[p].files)
           groups == Partition(Unassigned(new) \cap job[p].files)
<1>1. job[p] \in Jobs /\ Prepared(job[p]) /\ Shipped(job[p]) /\ local \in [Objects -> Versions]
  BY DEF BackupInv, Surroundings
<1>2. UNCHANGED <<remote, spoiled>> /\ Surroundings'
  BY DEF Register, BackupInv, Surroundings
<1>3. job[p].files \in SUBSET Objects /\ Sane(job[p].ledger) /\ Backed(job[p].ledger)
  BY <1>1 DEF Jobs, Prepared, Shipped
<1>4. Sane(new) /\ new.bundles = job[p].ledger.bundles
  BY <1>1, <1>3, WithFilesSane
<1>5. Backed(new) /\ new \in Ledgers
  BY <1>3, <1>4 DEF Backed, Sane, IsLedger
<1>6. Queue(groups, new)
  <2>1. \A group \in groups : group # {} /\ group \subseteq Unassigned(new) \cap job[p].files
    BY PartitionSplits
  <2>2. \A one, other \in groups : one # other => one \cap other = {}
    BY PartitionSplits
  <2> QED
    BY <2>1, <2>2 DEF Queue
<1>7. groups \in SUBSET (SUBSET Objects)
  <2>1. Unassigned(new) \subseteq Objects
    BY DEF Unassigned, Registered
  <2> QED
    BY <2>1, PartitionSplits
<1>8. \/ Exit(p) /\ UNCHANGED ledger
      \/ Save(new) /\ Exit(p)
      \/ Save(new) /\ groups # {} /\ Go(p, [job[p] EXCEPT !.ledger = new, !.groups = groups, !.pc = "bundle"])
  BY DEF Register
<1> HIDE DEF new, groups
<1>9. CASE Exit(p) /\ UNCHANGED ledger
  BY <1>9, <1>2, ExitKeeps
<1>10. CASE Save(new) /\ Exit(p)
  BY <1>10, <1>2, <1>4, <1>5, NoJobFits, SaveKeeps DEF Exit
<1>11. CASE Save(new) /\ groups # {} /\ Go(p, [job[p] EXCEPT !.ledger = new, !.groups = groups, !.pc = "bundle"])
  <2> DEFINE j == [job[p] EXCEPT !.ledger = new, !.groups = groups, !.pc = "bundle"]
  <2>1. j \in Jobs /\ j.pc = "bundle" /\ j.ledger = new /\ j.groups = groups
    BY <1>1, <1>5, <1>7 DEF Jobs, Steps
  <2>2. Go(p, j)
    BY <1>11
  <2> HIDE DEF j
  <2>3. Prepared(j) /\ Shipped(j)
    BY <2>1, <1>4, <1>5, <1>6, <1>11 DEF Prepared, Shipped
  <2> QED
    BY <2>1, <2>2, <2>3, <1>2, <1>4, <1>5, <1>11, SaveKeeps
<1> QED
  BY <1>8, <1>9, <1>10, <1>11

LEMMA RehashKeeps ==
    ASSUME BackupInv, NEW p \in Commands, Rehash(p) PROVE BackupInv'
<1> DEFINE j == [job[p] EXCEPT !.pc = "pack"]
<1>1. job[p] \in Jobs /\ Prepared(job[p]) /\ Shipped(job[p])
  BY DEF BackupInv
<1>2. UNCHANGED <<remote, spoiled, ledger>> /\ Surroundings'
  BY DEF Rehash, BackupInv, Surroundings
<1>3. job[p].pc = "bundle" /\ (Go(p, j) \/ Exit(p))
  BY DEF Rehash, At
<1>4. j \in Jobs /\ j.pc = "pack" /\ j.ledger = job[p].ledger /\ j.groups = job[p].groups
  BY <1>1 DEF Jobs, Steps
<1> HIDE DEF j
<1>5. Prepared(j) /\ Shipped(j)
  BY <1>1, <1>3, <1>4 DEF Prepared, Shipped
<1> QED
  BY <1>2, <1>3, <1>4, <1>5, GoKeeps, ExitKeeps

\* What is packed is the next group, with the contents the files have now.
LEMMA PackKeeps ==
    ASSUME BackupInv, NEW p \in Commands, Pack(p) PROVE BackupInv'
<1> DEFINE bundle == [seq |-> Len(job[p].ledger.bundles) + 1,
                      contents |-> [f \in NextGroup(job[p].groups) |-> local[f]]]
           j      == [job[p] EXCEPT !.pc = "upload", !.bundle = bundle]
<1>1. job[p] \in Jobs /\ Prepared(job[p]) /\ Shipped(job[p]) /\ local \in [Objects -> Versions]
  BY DEF BackupInv, Surroundings
<1>2. UNCHANGED <<remote, spoiled, ledger>> /\ Surroundings'
  BY DEF Pack, BackupInv, Surroundings
<1>3. job[p].pc = "pack" /\ Go(p, j)
  BY DEF Pack, At
<1>4. NextGroup(job[p].groups) \in (SUBSET Objects) \ {{}}
  <2>1. \A group \in job[p].groups : group # {} /\ group \subseteq Objects
    BY <1>1 DEF Prepared, Queue, Unassigned, Registered
  <2>2. NextGroup(job[p].groups) \in job[p].groups
    BY <1>1, <1>3, <2>1, NextGroupIn DEF Prepared
  <2> QED
    BY <2>1, <2>2
<1>5. [f \in NextGroup(job[p].groups) |-> local[f]] \in [NextGroup(job[p].groups) -> Versions]
  BY <1>1, <1>4
<1>6. bundle.contents \in Contents /\ DOMAIN bundle.contents = NextGroup(job[p].groups)
  BY <1>4, <1>5 DEF Contents
<1>7. bundle \in Parcels
  <2>1. Len(job[p].ledger.bundles) \in Nat
    BY <1>1 DEF Jobs, Ledgers
  <2> QED
    BY <2>1, <1>4, <1>5 DEF Parcels
<1>8. bundle.seq = Len(job[p].ledger.bundles) + 1
  OBVIOUS
<1> HIDE DEF bundle
<1>9. /\ j \in Jobs /\ j.pc = "upload" /\ j.ledger = job[p].ledger /\ j.groups = job[p].groups
      /\ j.bundle = bundle
  BY <1>1, <1>7 DEF Jobs, Steps
<1> HIDE DEF j
<1>10. Prepared(j) /\ Shipped(j)
  BY <1>1, <1>3, <1>6, <1>8, <1>9 DEF Prepared, Shipped
<1> QED
  BY <1>2, <1>3, <1>9, <1>10, GoKeeps

\* An upload ends with the asset at the remote, and takes nothing away.
LEMMA UploadKeeps ==
    ASSUME BackupInv, NEW p \in Commands, Upload(p) PROVE BackupInv'
<1> DEFINE name == job[p].bundle
           j    == [job[p] EXCEPT !.pc = "enrol"]
<1>1. job[p] \in Jobs /\ Prepared(job[p]) /\ Shipped(job[p])
  BY DEF BackupInv
<1>2. job[p].pc = "upload" /\ UNCHANGED <<local, ledger, report, visits>>
  BY DEF Upload, At
<1>3. name.contents \in Contents
  BY <1>1, <1>2 DEF Prepared
<1>4. /\ j \in Jobs /\ j.pc = "enrol" /\ j.ledger = job[p].ledger /\ j.groups = job[p].groups
      /\ j.bundle = job[p].bundle
  BY <1>1 DEF Jobs, Steps
<1> HIDE DEF j
<1>5. Prepared(j)
  BY <1>1, <1>2, <1>4 DEF Prepared
<1>6. CASE name \in DOMAIN remote
  <2>1. UNCHANGED <<remote, spoiled>>
    BY <1>6 DEF Upload
  <2>2. Surroundings'
    BY <2>1, <1>2 DEF BackupInv, Surroundings
  <2>3. (remote[name] = "intact" /\ Go(p, j)) \/ Exit(p)
    BY <1>6 DEF Upload, j
  <2>4. CASE remote[name] = "intact" /\ Go(p, j)
    <3>1. Shipped(j)
      BY <1>1, <1>4, <1>6, <2>4 DEF Shipped, Held
    <3> QED
      BY <3>1, <1>2, <1>4, <1>5, <2>1, <2>2, <2>4, GoKeeps
  <2>5. CASE Exit(p)
    BY <2>1, <2>2, <2>5, <1>2, ExitKeeps
  <2> QED
    BY <2>3, <2>4, <2>5
<1>7. CASE name \notin DOMAIN remote
  <2>1. remote' = Stored(name) /\ spoiled' = spoiled \ {name} /\ Go(p, j)
    BY <1>7 DEF Upload, j
  <2>2. /\ DOMAIN remote' = DOMAIN remote \cup {name} /\ remote'[name] = "intact"
        /\ \A a \in DOMAIN remote : remote'[a] = remote[a]
    BY <2>1, <1>7 DEF Stored
  <2>3. Kept /\ HeldNext(name)
    BY <2>1, <2>2 DEF Kept, Held, HeldNext
  <2>4. \A a : a \in DOMAIN remote' => a.contents \in Contents /\ remote'[a] \in {"intact", "damaged"}
    BY <2>2, <1>3 DEF BackupInv, Surroundings
  <2>5. Surroundings'
    BY <2>4, <1>2 DEF BackupInv, Surroundings
  <2>6. \A i \in DOMAIN j.ledger.bundles : HeldNext(Asset(j.ledger.bundles[i]))
    BY <2>3, <1>1, <1>4 DEF Shipped, Backed, Kept
  <2>7. /\ job' \in [Commands -> Jobs]
        /\ \A q \in Commands : Prepared(job[q])' /\ Shipped(job[q])'
    BY <2>1, <2>3, <2>6, <1>4, <1>5, CommandMoves DEF Go
  <2>8. Sane(ledger')
    BY <1>2 DEF BackupInv
  <2>9. Backed(ledger)'
    BY <2>3, <1>2 DEF BackupInv, Backed, Held, HeldNext, Kept
  <2> QED
    BY <2>5, <2>7, <2>8, <2>9 DEF BackupInv
<1> QED
  BY <1>6, <1>7

LEMMA EnrolKeeps ==
    ASSUME BackupInv, NEW p \in Commands, Enrol(p) PROVE BackupInv'
<1> DEFINE l    == WithBundle(job[p].ledger, job[p].bundle)
           rest == job[p].groups \ {NextGroup(job[p].groups)}
           j    == [job[p] EXCEPT !.ledger = l, !.groups = rest, !.pc = "fetch"]
<1>1. job[p] \in Jobs /\ Prepared(job[p]) /\ Shipped(job[p])
  BY DEF BackupInv
<1>2. UNCHANGED <<remote, spoiled>> /\ Surroundings'
  BY DEF Enrol, BackupInv, Surroundings
<1>3. job[p].pc = "enrol" /\ Save(l) /\ Go(p, j)
  BY <1>1 DEF Enrol, At, Jobs
<1>4. /\ Sane(job[p].ledger) /\ Queue(job[p].groups, job[p].ledger) /\ job[p].groups # {}
      /\ job[p].bundle.seq = Len(job[p].ledger.bundles) + 1
      /\ job[p].bundle.contents \in Contents
      /\ DOMAIN job[p].bundle.contents = NextGroup(job[p].groups)
      /\ Backed(job[p].ledger) /\ Held(job[p].bundle)
  BY <1>1, <1>3 DEF Prepared, Shipped
<1>5. NextGroup(job[p].groups) \in job[p].groups
  <2>1. \A group \in job[p].groups : group # {} /\ group \subseteq Objects
    BY <1>4 DEF Queue, Unassigned, Registered
  <2> QED
    BY <2>1, <1>4, NextGroupIn
<1>6. /\ Sane(l)
      /\ DOMAIN l.bundles = DOMAIN job[p].ledger.bundles \cup {job[p].bundle.seq}
      /\ \A k \in DOMAIN job[p].ledger.bundles : l.bundles[k] = job[p].ledger.bundles[k]
      /\ l.bundles[job[p].bundle.seq] = [seq |-> job[p].bundle.seq, contents |-> job[p].bundle.contents,
                                         state |-> "uploaded"]
      /\ Unassigned(l) = Unassigned(job[p].ledger) \ NextGroup(job[p].groups)
  <2>1. DOMAIN job[p].bundle.contents \subseteq Unassigned(job[p].ledger)
    BY <1>4, <1>5 DEF Queue
  <2> QED
    BY <2>1, <1>4, WithBundleSane
<1>7. Backed(l)
  <2>1. job[p].bundle = [seq |-> job[p].bundle.seq, contents |-> job[p].bundle.contents]
    BY <1>1 DEF Jobs, Parcels
  <2>2. Asset(l.bundles[job[p].bundle.seq]) = job[p].bundle
    BY <2>1, <1>6 DEF Asset
  <2> QED
    BY <2>2, <1>4, <1>6 DEF Backed
<1>8. Queue(rest, l)
  BY <1>4, <1>5, <1>6 DEF Queue
<1>9. l \in Ledgers /\ rest \in SUBSET (SUBSET Objects)
  BY <1>1, <1>6 DEF Sane, IsLedger, Jobs
<1> HIDE DEF l, rest
<1>10. j \in Jobs /\ j.pc = "fetch" /\ j.ledger = l /\ j.groups = rest
  BY <1>1, <1>9 DEF Jobs, Steps
<1> HIDE DEF j
<1>11. Prepared(j) /\ Shipped(j)
  BY <1>6, <1>7, <1>8, <1>10 DEF Prepared, Shipped
<1> QED
  BY <1>2, <1>3, <1>6, <1>7, <1>10, <1>11, SaveKeeps

LEMMA RecheckKeeps ==
    ASSUME BackupInv, NEW p \in Commands, Recheck(p) PROVE BackupInv'
<1> DEFINE i     == Min(job[p].left)
           state == IF Restores(job[p].ledger, i) THEN "committed_complete" ELSE "uploaded"
           l     == Marked(job[p].ledger, i, state)
           j     == [job[p] EXCEPT !.ledger = l, !.left = job[p].left \ {i}, !.done = job[p].done \cup {i}]
<1>1. job[p] \in Jobs /\ Prepared(job[p]) /\ Shipped(job[p])
  BY DEF BackupInv
<1>2. UNCHANGED <<remote, spoiled, ledger>> /\ Surroundings'
  BY DEF Recheck, BackupInv, Surroundings
<1>3. job[p].pc = "verify" /\ job[p].left # {} /\ Go(p, j)
  BY <1>1 DEF Recheck, At, Jobs
<1>4. /\ Sane(job[p].ledger) /\ Backed(job[p].ledger) /\ Queue(job[p].groups, job[p].ledger)
      /\ job[p].left \cup job[p].done \subseteq DOMAIN job[p].ledger.bundles
  BY <1>1, <1>3 DEF Prepared, Shipped
<1>5. i \in job[p].left /\ i \in Nat /\ i \in DOMAIN job[p].ledger.bundles
  BY <1>1, <1>3, <1>4, MinIn DEF Jobs
<1>6. state \in BundleStates /\ (state = "committed_complete" => Matches(job[p].ledger, i))
  BY DEF BundleStates, Restores, Matches
<1> HIDE DEF i, state
<1>7. /\ Sane(l)
      /\ DOMAIN l.bundles = DOMAIN job[p].ledger.bundles
      /\ \A k \in DOMAIN job[p].ledger.bundles : Asset(l.bundles[k]) = Asset(job[p].ledger.bundles[k])
      /\ Unassigned(l) = Unassigned(job[p].ledger)
  BY <1>4, <1>5, <1>6, MarkedSane
<1>8. Backed(l) /\ Queue(job[p].groups, l) /\ l \in Ledgers
  BY <1>4, <1>7 DEF Backed, Queue, Sane, IsLedger
<1> HIDE DEF l
<1>9. /\ j \in Jobs /\ j.pc = "verify" /\ j.ledger = l /\ j.groups = job[p].groups
      /\ j.left = job[p].left \ {i} /\ j.done = job[p].done \cup {i}
  BY <1>1, <1>3, <1>5, <1>8 DEF Jobs
<1> HIDE DEF j
<1>10. Prepared(j) /\ Shipped(j)
  BY <1>4, <1>5, <1>7, <1>8, <1>9 DEF Prepared, Shipped
<1> QED
  BY <1>2, <1>3, <1>9, <1>10, GoKeeps

LEMMA SaveVerifyKeeps ==
    ASSUME BackupInv, NEW p \in Commands, SaveVerify(p) PROVE BackupInv'
<1>1. Sane(job[p].ledger) /\ Backed(job[p].ledger)
  BY DEF BackupInv, Prepared, Shipped
<1>2. UNCHANGED <<remote, spoiled>> /\ Surroundings'
  BY DEF SaveVerify, BackupInv, Surroundings
<1>3. Save(job[p].ledger) /\ Go(p, NoJob)
  BY DEF SaveVerify, Exit
<1> QED
  BY <1>1, <1>2, <1>3, NoJobFits, SaveKeeps

LEMMA InspectKeeps ==
    ASSUME BackupInv, NEW p \in Commands, Inspect(p) PROVE BackupInv'
<1> DEFINE f     == Min(job[p].left)
           entry == job[p].ledger.entries[f]
           clean == job[p].clean /\ entry.state = "committed_complete" /\ entry.sha = local[f]
           j     == [job[p] EXCEPT !.left = job[p].left \ {f}, !.seen = [job[p].seen EXCEPT ![f] = local[f]],
                                   !.clean = clean]
<1>1. job[p] \in Jobs /\ Prepared(job[p]) /\ Shipped(job[p]) /\ local \in [Objects -> Versions]
  BY DEF BackupInv, Surroundings
<1>2. UNCHANGED <<remote, spoiled, ledger>> /\ Surroundings'
  BY DEF Inspect, BackupInv, Surroundings
<1>3. job[p].pc = "evacuate" /\ job[p].left # {} /\ Go(p, j)
  BY <1>1 DEF Inspect, At, Jobs
<1>4. job[p].left \subseteq Objects /\ f \in Objects
  BY <1>1, <1>3, MinIn DEF Prepared, Jobs
<1>5. [job[p].seen EXCEPT ![f] = local[f]] \in Seen
  BY <1>1, <1>4 DEF Jobs, Seen
<1>6. clean \in BOOLEAN
  OBVIOUS
<1> HIDE DEF f, clean
<1>7. /\ j \in Jobs /\ j.pc = "evacuate" /\ j.ledger = job[p].ledger /\ j.groups = job[p].groups
      /\ j.left = job[p].left \ {f}
  BY <1>1, <1>3, <1>5, <1>6 DEF Jobs
<1> HIDE DEF j
<1>8. Prepared(j) /\ Shipped(j)
  BY <1>1, <1>3, <1>4, <1>7 DEF Prepared, Shipped
<1> QED
  BY <1>2, <1>3, <1>7, <1>8, GoKeeps

LEMMA ReportKeeps ==
    ASSUME BackupInv, NEW p \in Commands, Report(p) PROVE BackupInv'
<1>1. report'.ready \in BOOLEAN
  BY DEF Report
<1>2. Exit(p) /\ UNCHANGED <<remote, spoiled, ledger, local, visits>>
  BY DEF Report
<1>3. Surroundings'
  BY <1>1, <1>2 DEF BackupInv, Surroundings
<1> QED
  BY <1>2, <1>3, ExitKeeps

LEMMA KillKeeps ==
    ASSUME BackupInv, NEW p \in Commands, Kill(p) PROVE BackupInv'
<1>1. Exit(p) /\ UNCHANGED <<local, ledger, remote, report, spoiled>> /\ visits' \in 0..MaxVisits
  BY VisitTyped DEF Kill, BackupInv
<1>2. Surroundings'
  BY <1>1 DEF BackupInv, Surroundings
<1> QED
  BY <1>1, <1>2, ExitKeeps

LEMMA JobStepKeeps ==
    ASSUME BackupInv, NEW p \in Commands, JobStep(p) PROVE BackupInv'
  BY FetchKeeps, CommitKeeps, RegisterKeeps, RehashKeeps, PackKeeps, UploadKeeps, EnrolKeeps,
     RecheckKeeps, SaveVerifyKeeps, InspectKeeps, ReportKeeps DEF JobStep, SyncStep

\* What the surroundings do to the remote is noted in spoiled.
LEMMA WeatherKeeps ==
    ASSUME BackupInv,
           \/ \E f \in Objects : Edit(f)
           \/ \E asset \in DOMAIN remote : Damage(asset) \/ Lose(asset)
           \/ UNCHANGED vars
    PROVE  BackupInv'
<1>1. UNCHANGED <<ledger, job, report>>
  BY DEF Edit, Damage, Lose, vars
<1>2. visits' \in 0..MaxVisits
  BY VisitTyped DEF Edit, Damage, Lose, vars, BackupInv
<1>3. local' \in [Objects -> Versions]
  <2>1. local \in [Objects -> Versions]
    BY DEF BackupInv, Surroundings
  <2>2. ASSUME NEW f \in Objects, Edit(f) PROVE local' \in [Objects -> Versions]
    <3>1. local[f] + 1 \in Versions
      BY <2>1, <2>2, BoundAssumption DEF Edit, Versions
    <3> QED
      BY <2>1, <2>2, <3>1 DEF Edit
  <2> QED
    BY <2>1, <2>2 DEF Damage, Lose, vars
<1>4. \A a : a \in DOMAIN remote' => a.contents \in Contents /\ remote'[a] \in {"intact", "damaged"}
  <2>1. \A a : a \in DOMAIN remote => a.contents \in Contents /\ remote[a] \in {"intact", "damaged"}
    BY DEF BackupInv, Surroundings
  <2>2. ASSUME NEW asset \in DOMAIN remote, Damage(asset) \/ Lose(asset)
        PROVE  \A a : a \in DOMAIN remote' => /\ a \in DOMAIN remote
                                              /\ remote'[a] \in {remote[a], "damaged"}
    BY <2>2 DEF Damage, Lose
  <2> QED
    BY <2>1, <2>2 DEF Edit, vars
<1>5. Kept
  <2>1. ASSUME NEW asset \in DOMAIN remote, Damage(asset) \/ Lose(asset) PROVE Kept
    BY <2>1 DEF Damage, Lose, Kept, Held, HeldNext
  <2> QED
    BY <2>1, StillKept DEF Edit, vars
<1>6. Surroundings'
  BY <1>1, <1>2, <1>3, <1>4 DEF BackupInv, Surroundings
<1>7. Sane(ledger') /\ Backed(ledger)'
  BY <1>1, <1>5 DEF BackupInv, Backed, Held, HeldNext, Kept
<1>8. \A p \in Commands : Prepared(job'[p]) /\ Shipped(job[p])'
  BY <1>1, <1>5 DEF BackupInv, Shipped, Backed, Held, HeldNext, Kept
<1> QED
  BY <1>1, <1>6, <1>7, <1>8 DEF BackupInv

LEMMA BackupInvInductive == BackupInv /\ [Next]_vars => BackupInv'
<1> SUFFICES ASSUME BackupInv, [Next]_vars PROVE BackupInv'
    OBVIOUS
<1>1. ASSUME NEW p \in Commands, NEW inventory \in (SUBSET Objects) \ {{}}, StartSync(p, inventory)
      PROVE  BackupInv'
  BY <1>1, StartSyncKeeps
<1>2. ASSUME NEW p \in Commands, NEW bundles \in (SUBSET DOMAIN ledger.bundles) \ {{}}, StartVerify(p, bundles)
      PROVE  BackupInv'
  BY <1>2, StartVerifyKeeps
<1>3. ASSUME NEW p \in Commands, StartEvacuate(p) \/ JobStep(p) \/ Kill(p) PROVE BackupInv'
  BY <1>3, StartEvacuateKeeps, JobStepKeeps, KillKeeps
<1> QED
  BY <1>1, <1>2, <1>3, WeatherKeeps DEF Next

LEMMA BackupInvInitially == Init => BackupInv
<1> SUFFICES ASSUME Init PROVE BackupInv
    OBVIOUS
<1>1. Surroundings
  BY BoundAssumption DEF Init, Surroundings, Versions
<1>2. ledger = EmptyLedger /\ Sane(ledger) /\ Backed(ledger)
  BY EmptySane DEF Init, Backed, EmptyLedger
<1>3. job \in [Commands -> Jobs] /\ \A p \in Commands : Prepared(job[p]) /\ Shipped(job[p])
  BY NoJobFits DEF Init
<1> QED
  BY <1>1, <1>2, <1>3 DEF BackupInv

LEMMA BackupInvHolds == Spec => []BackupInv
  BY BackupInvInitially, BackupInvInductive, PTL DEF Spec

-----------------------------------------------------------------------------
(* Whatever commands overlap                                               *)

\* A committed object names a bundle that is committed, holds it with its
\* registered digest, and is backed.
LEMMA CommittedEntry ==
    ASSUME NEW l, Sane(l), Backed(l), NEW f \in Objects, l.entries[f].state = "committed_complete"
    PROVE  LET i == l.entries[f].bundle IN
           /\ i \in DOMAIN l.bundles
           /\ l.bundles[i].state = "committed_complete"
           /\ f \in DOMAIN l.bundles[i].contents
           /\ l.bundles[i].contents[f] = l.entries[f].sha
           /\ Held(Asset(l.bundles[i]))
<1> DEFINE i == l.entries[f].bundle
<1>1. i # 0 /\ Holders(l, f) = {i} /\ l.bundles[i].state = "committed_complete"
  BY DEF Sane, OneStory
<1>2. i \in DOMAIN l.bundles /\ f \in DOMAIN l.bundles[i].contents
  BY <1>1 DEF Holders
<1>3. l.bundles[i].contents[f] = l.entries[f].sha
  BY <1>1, <1>2 DEF Sane, Matches
<1> QED
  BY <1>1, <1>2, <1>3 DEF Backed

\* Every command's copy of the ledger, and the file, stay well formed.
THEOREM BackupTyped == Spec => []TypeOK
<1>1. BackupInv => TypeOK
  BY DEF BackupInv, Surroundings, Prepared, Sane, TypeOK
<1> QED
  BY <1>1, BackupInvHolds, PTL

\* A committed object can be restored from the asset of its bundle, unless
\* somebody else touched that asset: for any number of commands at a time.
THEOREM CommittedCanBeRestored == Spec => []CommittedRestorable
<1>1. BackupInv => CommittedRestorable
  <2> SUFFICES ASSUME BackupInv, NEW f \in Objects, ledger.entries[f].state = "committed_complete"
               PROVE  \E i \in DOMAIN ledger.bundles :
                         LET asset == Asset(ledger.bundles[i]) IN
                         /\ i = ledger.entries[f].bundle
                         /\ f \in DOMAIN asset.contents
                         /\ asset.contents[f] = ledger.entries[f].sha
                         /\ asset \in spoiled \/ (asset \in DOMAIN remote /\ remote[asset] = "intact")
      BY DEF CommittedRestorable
  <2>1. Sane(ledger) /\ Backed(ledger)
    BY DEF BackupInv
  <2>2. LET i == ledger.entries[f].bundle IN
        /\ i \in DOMAIN ledger.bundles
        /\ f \in DOMAIN ledger.bundles[i].contents
        /\ ledger.bundles[i].contents[f] = ledger.entries[f].sha
        /\ Held(Asset(ledger.bundles[i]))
    BY <2>1, CommittedEntry
  <2> QED
    BY <2>2 DEF Asset, Held
<1> QED
  BY <1>1, BackupInvHolds, PTL

\* Objects and bundles tell one story, for any number of commands at a time.
THEOREM LedgerTellsOneStory == Spec => []EntriesMatchBundles
<1>1. BackupInv => EntriesMatchBundles
  <2> SUFFICES ASSUME BackupInv, NEW f \in Registered(ledger)
               PROVE  LET entry == ledger.entries[f] IN
                      /\ Holders(ledger, f) = IF entry.bundle = 0 THEN {} ELSE {entry.bundle}
                      /\ entry.state = IF entry.bundle = 0 THEN "hashed" ELSE ledger.bundles[entry.bundle].state
      BY DEF EntriesMatchBundles, Holders
  <2>1. OneStory(ledger) /\ f \in Objects /\ ledger.entries[f].state # "absent"
    BY DEF BackupInv, Sane, Registered
  <2> QED
    BY <2>1 DEF OneStory
<1> QED
  BY <1>1, BackupInvHolds, PTL

-----------------------------------------------------------------------------
(* One command at a time                                                   *)

OneAtATime == \A p, q \in Commands : p = q

LEMMA NoJobFollows == ASSUME NEW l PROVE Follows(NoJob, l)
  BY DEF Follows, NoJob

LEMMA SerialMoves ==
    ASSUME OneAtATime, SerialInv, NEW p \in Commands, NEW j, Go(p, j), Follows(j, ledger'),
           NotClaimed(ledger', condemned'), BackupInv'
    PROVE  SerialInv'
<1>1. job \in [Commands -> Jobs]
  BY DEF SerialInv, BackupInv
<1>2. \A q \in Commands : Follows(job'[q], ledger')
  BY <1>1 DEF OneAtATime, Go
<1> QED
  BY <1>2 DEF SerialInv

\* A step that keeps the ledger and the copy of it.
LEMMA SerialQuiet ==
    ASSUME OneAtATime, SerialInv, NEW p \in Commands, BackupInv', UNCHANGED <<ledger, condemned>>,
           \/ Exit(p)
           \/ \E j \in Jobs : Go(p, j) /\ Follows(j, ledger)
    PROVE  SerialInv'
<1>1. NotClaimed(ledger', condemned')
  BY DEF SerialInv
<1> QED
  BY <1>1, NoJobFollows, SerialMoves DEF Exit

LEMMA SerialStarts ==
    ASSUME OneAtATime, SerialInv, NEW p \in Commands, BackupInv',
           \/ \E inventory \in (SUBSET Objects) \ {{}} : StartSync(p, inventory)
           \/ \E bundles \in (SUBSET DOMAIN ledger.bundles) \ {{}} : StartVerify(p, bundles)
           \/ StartEvacuate(p)
    PROVE  SerialInv'
<1>1. PICK j : Go(p, j) /\ j.ledger = ledger /\ (j.pc = "evacuate" => j.left = Objects)
  <2>1. ASSUME NEW inventory, StartSync(p, inventory)
        PROVE  \E j : Go(p, j) /\ j.ledger = ledger /\ (j.pc = "evacuate" => j.left = Objects)
    <3> DEFINE j == [NoJob EXCEPT !.pc = "resume", !.ledger = ledger, !.files = inventory]
    <3>1. Go(p, j) /\ j.ledger = ledger /\ j.pc = "resume"
      BY <2>1 DEF StartSync, Begin, Go, NoJob
    <3> QED
      BY <3>1
  <2>2. ASSUME NEW bundles, StartVerify(p, bundles)
        PROVE  \E j : Go(p, j) /\ j.ledger = ledger /\ (j.pc = "evacuate" => j.left = Objects)
    <3> DEFINE j == [NoJob EXCEPT !.pc = "verify", !.ledger = ledger, !.left = bundles]
    <3>1. Go(p, j) /\ j.ledger = ledger /\ j.pc = "verify"
      BY <2>2 DEF StartVerify, Begin, Go, NoJob
    <3> QED
      BY <3>1
  <2>3. ASSUME StartEvacuate(p)
        PROVE  \E j : Go(p, j) /\ j.ledger = ledger /\ (j.pc = "evacuate" => j.left = Objects)
    <3> DEFINE j == [NoJob EXCEPT !.pc = "evacuate", !.ledger = ledger, !.left = Objects]
    <3>1. Go(p, j) /\ j.ledger = ledger /\ j.left = Objects
      BY <2>3 DEF StartEvacuate, Begin, Go, NoJob
    <3> QED
      BY <3>1
  <2> QED
    BY <2>1, <2>2, <2>3
<1>2. UNCHANGED <<ledger, condemned>>
  BY DEF StartSync, StartVerify, StartEvacuate
<1>3. Follows(j, ledger')
  BY <1>1, <1>2 DEF Follows
<1>4. NotClaimed(ledger', condemned')
  BY <1>2 DEF SerialInv
<1> QED
  BY <1>1, <1>3, <1>4, SerialMoves

\* The steps of a sync that only read the ledger.
LEMMA SerialReads ==
    ASSUME OneAtATime, SerialInv, NEW p \in Commands, BackupInv',
           Fetch(p) \/ Rehash(p) \/ Pack(p) \/ Upload(p)
    PROVE  SerialInv'
<1>1. job[p] \in Jobs /\ Follows(job[p], ledger)
  BY DEF SerialInv, BackupInv
<1>2. UNCHANGED <<ledger, condemned>>
  BY DEF Fetch, Rehash, Pack, Upload
<1>3. job[p].ledger = ledger
  BY <1>1 DEF Fetch, Rehash, Pack, Upload, At, Follows
<1>4. ASSUME NEW pc \in {"confirm", "commit", "pack", "upload", "enrol"},
             Go(p, [job[p] EXCEPT !.pc = pc])
      PROVE  SerialInv'
  <2> DEFINE j == [job[p] EXCEPT !.pc = pc]
  <2>1. j.pc = pc /\ j.ledger = ledger
    BY <1>1, <1>3 DEF Jobs
  <2>2. Go(p, j)
    BY <1>4
  <2> HIDE DEF j
  <2>3. Follows(j, ledger') /\ NotClaimed(ledger', condemned')
    BY <2>1, <1>2 DEF Follows, SerialInv
  <2> QED
    BY <2>2, <2>3, SerialMoves
<1>5. CASE Exit(p)
  BY <1>2, <1>5, SerialQuiet
<1>6. CASE Fetch(p)
  BY <1>4, <1>5, <1>6 DEF Fetch
<1>7. CASE Rehash(p)
  BY <1>4, <1>5, <1>7 DEF Rehash
<1>8. CASE Pack(p)
  <2> DEFINE b == [seq |-> Len(job[p].ledger.bundles) + 1,
                   contents |-> [f \in NextGroup(job[p].groups) |-> local[f]]]
             j == [job[p] EXCEPT !.pc = "upload", !.bundle = b]
  <2>1. Go(p, j)
    BY <1>8 DEF Pack
  <2> HIDE DEF b
  <2>2. j.pc = "upload" /\ j.ledger = ledger
    BY <1>1, <1>3 DEF Jobs
  <2> HIDE DEF j
  <2>3. Follows(j, ledger') /\ NotClaimed(ledger', condemned')
    BY <2>2, <1>2 DEF Follows, SerialInv
  <2> QED
    BY <2>1, <2>3, SerialMoves
<1>9. CASE Upload(p)
  BY <1>4, <1>5, <1>9 DEF Upload
<1> QED
  BY <1>6, <1>7, <1>8, <1>9

\* A ledger the command has just written is what it goes on with.
LEMMA SerialSaves ==
    ASSUME OneAtATime, SerialInv, NEW p \in Commands, BackupInv',
           NEW l, Save(l), NotClaimed(l, condemned'),
           \/ Exit(p)
           \/ \E j : Go(p, j) /\ j.ledger = l /\ j.pc \in {"resume", "bundle", "fetch"}
    PROVE  SerialInv'
<1>1. ledger' = l
  BY DEF Save
<1>2. CASE Exit(p)
  BY <1>1, <1>2, NoJobFollows, SerialMoves DEF Exit
<1>3. ASSUME NEW j, Go(p, j), j.ledger = l, j.pc \in {"resume", "bundle", "fetch"}
      PROVE  SerialInv'
  <2>1. Follows(j, ledger')
    BY <1>1, <1>3 DEF Follows
  <2> QED
    BY <2>1, <1>1, <1>3, SerialMoves
<1> QED
  BY <1>2, <1>3

LEMMA SerialCommit ==
    ASSUME OneAtATime, SerialInv, NEW p \in Commands, BackupInv', Commit(p)
    PROVE  SerialInv'
<1> DEFINE i == Min(Incomplete(job[p].ledger))
           l == Marked(job[p].ledger, i, "committed_complete")
<1>1. /\ job[p] \in Jobs /\ Prepared(job[p]) /\ Follows(job[p], ledger)
      /\ NotClaimed(ledger, condemned)
  BY DEF SerialInv, BackupInv
<1>2. job[p].pc \in {"confirm", "commit"} /\ job[p].ledger = ledger
  BY <1>1 DEF Commit, Follows
<1>3. Sane(ledger) /\ Incomplete(ledger) # {} /\ Matches(ledger, i)
  BY <1>1, <1>2 DEF Prepared
<1>4. i \in DOMAIN ledger.bundles
  BY <1>2, <1>3, IncompleteTyped DEF Sane, IsLedger
<1>5. /\ DOMAIN l.bundles = DOMAIN ledger.bundles
      /\ \A k \in DOMAIN ledger.bundles :
            /\ Asset(l.bundles[k]) = Asset(ledger.bundles[k])
            /\ l.bundles[k].state = IF k = i THEN "committed_complete" ELSE ledger.bundles[k].state
  BY <1>2, <1>3, <1>4, MarkedSane DEF BundleStates
<1>6. Save(l) /\ condemned' = condemned \ {Asset(l.bundles[i])}
  BY DEF Commit
<1>7. NotClaimed(l, condemned')
  BY <1>1, <1>5, <1>6 DEF NotClaimed
<1>8. \/ Exit(p)
      \/ Go(p, [job[p] EXCEPT !.ledger = l, !.pc = "resume"])
      \/ Go(p, [job[p] EXCEPT !.ledger = l, !.pc = "bundle"])
  BY DEF Commit
<1> HIDE DEF l
<1>9. ASSUME NEW pc \in {"resume", "bundle"}
      PROVE  LET j == [job[p] EXCEPT !.ledger = l, !.pc = pc] IN j.ledger = l /\ j.pc = pc
  BY <1>1 DEF Jobs
<1>10. Exit(p) \/ \E j : Go(p, j) /\ j.ledger = l /\ j.pc \in {"resume", "bundle", "fetch"}
  BY <1>8, <1>9
<1> QED
  BY <1>6, <1>7, <1>10, SerialSaves

LEMMA SerialRegister ==
    ASSUME OneAtATime, SerialInv, NEW p \in Commands, BackupInv', Register(p)
    PROVE  SerialInv'
<1> DEFINE new    == WithFiles(job[p].ledger, job[p].files)
           groups == Partition(Unassigned(new) \cap job[p].files)
<1>1. /\ job[p] \in Jobs /\ Prepared(job[p]) /\ Follows(job[p], ledger)
      /\ NotClaimed(ledger, condemned) /\ local \in [Objects -> Versions]
  BY DEF SerialInv, BackupInv, Surroundings
<1>2. job[p].ledger = ledger /\ job[p].files \in SUBSET Objects
  BY <1>1 DEF Register, At, Follows, Jobs
<1>3. new.bundles = ledger.bundles
  BY <1>1, <1>2, WithFilesSane DEF Prepared
<1>4. UNCHANGED condemned /\ NotClaimed(new, condemned')
  BY <1>1, <1>3 DEF Register, NotClaimed
<1>5. \/ Exit(p) /\ UNCHANGED ledger
      \/ Save(new) /\ Exit(p)
      \/ Save(new) /\ Go(p, [job[p] EXCEPT !.ledger = new, !.groups = groups, !.pc = "bundle"])
  BY DEF Register
<1> HIDE DEF new, groups
<1>6. LET j == [job[p] EXCEPT !.ledger = new, !.groups = groups, !.pc = "bundle"]
      IN  j.ledger = new /\ j.pc = "bundle"
  BY <1>1 DEF Jobs
<1>7. CASE Exit(p) /\ UNCHANGED ledger
  BY <1>4, <1>7, SerialQuiet
<1>8. CASE Save(new) /\ \E j : Go(p, j) /\ j.ledger = new /\ j.pc \in {"resume", "bundle", "fetch"}
  BY <1>4, <1>8, SerialSaves
<1>9. CASE Save(new) /\ Exit(p)
  BY <1>4, <1>9, SerialSaves
<1> QED
  BY <1>5, <1>6, <1>7, <1>8, <1>9

LEMMA SerialEnrol ==
    ASSUME OneAtATime, SerialInv, NEW p \in Commands, BackupInv', Enrol(p)
    PROVE  SerialInv'
<1> DEFINE l    == WithBundle(job[p].ledger, job[p].bundle)
           rest == job[p].groups \ {NextGroup(job[p].groups)}
           j    == [job[p] EXCEPT !.ledger = l, !.groups = rest, !.pc = "fetch"]
<1>1. /\ job[p] \in Jobs /\ Prepared(job[p]) /\ Follows(job[p], ledger)
      /\ NotClaimed(ledger, condemned)
  BY DEF SerialInv, BackupInv
<1>2. /\ job[p].pc = "enrol" /\ job[p].ledger = ledger
      /\ Save(l) /\ Go(p, j) /\ UNCHANGED condemned
  BY <1>1 DEF Enrol, At, Follows, Jobs
<1>3. /\ Sane(ledger)
      /\ job[p].bundle.seq = Len(ledger.bundles) + 1 /\ job[p].bundle.contents \in Contents
      /\ DOMAIN job[p].bundle.contents \subseteq Unassigned(ledger)
  <2>1. /\ Sane(ledger) /\ Queue(job[p].groups, ledger) /\ job[p].groups # {}
        /\ job[p].bundle.seq = Len(ledger.bundles) + 1 /\ job[p].bundle.contents \in Contents
        /\ DOMAIN job[p].bundle.contents = NextGroup(job[p].groups)
    BY <1>1, <1>2 DEF Prepared
  <2>2. NextGroup(job[p].groups) \in job[p].groups
    <3>1. \A group \in job[p].groups : group # {} /\ group \subseteq Objects
      BY <2>1 DEF Queue, Unassigned, Registered
    <3> QED
      BY <2>1, <3>1, NextGroupIn
  <2> QED
    BY <2>1, <2>2 DEF Queue
<1>4. /\ DOMAIN l.bundles = DOMAIN ledger.bundles \cup {job[p].bundle.seq}
      /\ \A k \in DOMAIN ledger.bundles : l.bundles[k] = ledger.bundles[k]
      /\ l.bundles[job[p].bundle.seq].state = "uploaded"
  <2>1. l.bundles[job[p].bundle.seq] = [seq |-> job[p].bundle.seq, contents |-> job[p].bundle.contents,
                                        state |-> "uploaded"]
    BY <1>2, <1>3, WithBundleSane
  <2>2. l.bundles[job[p].bundle.seq].state = "uploaded"
    BY <2>1
  <2> QED
    BY <2>2, <1>2, <1>3, WithBundleSane, ZenonT(30)
<1>5. NotClaimed(l, condemned')
  BY <1>1, <1>2, <1>4 DEF NotClaimed
<1> HIDE DEF l, rest
<1>6. j.ledger = l /\ j.pc = "fetch"
  BY <1>1 DEF Jobs
<1> QED
  BY <1>2, <1>5, <1>6, SerialSaves

\* A verification's copy differs from the ledger in the bundles it has done.
LEMMA SerialRecheck ==
    ASSUME OneAtATime, SerialInv, NEW p \in Commands, BackupInv', Recheck(p)
    PROVE  SerialInv'
<1> DEFINE i     == Min(job[p].left)
           state == IF Restores(job[p].ledger, i) THEN "committed_complete" ELSE "uploaded"
           l     == Marked(job[p].ledger, i, state)
           j     == [job[p] EXCEPT !.ledger = l, !.left = job[p].left \ {i}, !.done = job[p].done \cup {i}]
<1>1. /\ job[p] \in Jobs /\ Prepared(job[p]) /\ Follows(job[p], ledger)
      /\ NotClaimed(ledger, condemned)
  BY DEF SerialInv, BackupInv
<1>2. /\ job[p].pc = "verify" /\ job[p].left # {} /\ Go(p, j) /\ UNCHANGED <<ledger, condemned>>
  BY <1>1 DEF Recheck, At, Jobs
<1>3. i \in job[p].left /\ i \in DOMAIN job[p].ledger.bundles /\ Sane(job[p].ledger)
  BY <1>1, <1>2, MinIn DEF Jobs, Prepared
<1>4. state \in BundleStates /\ (state = "committed_complete" => Matches(job[p].ledger, i))
  BY DEF BundleStates, Restores, Matches
<1> HIDE DEF i, state
<1>5. /\ DOMAIN l.bundles = DOMAIN job[p].ledger.bundles
      /\ \A k \in DOMAIN job[p].ledger.bundles :
            /\ Asset(l.bundles[k]) = Asset(job[p].ledger.bundles[k])
            /\ l.bundles[k].state = IF k = i THEN state ELSE job[p].ledger.bundles[k].state
  BY <1>3, <1>4, MarkedSane
<1> HIDE DEF l
<1>6. j.pc = "verify" /\ j.ledger = l /\ j.done = job[p].done \cup {i}
  BY <1>1, <1>2 DEF Jobs
<1> HIDE DEF j
<1>7. /\ DOMAIN job[p].ledger.bundles = DOMAIN ledger.bundles
      /\ \A k \in DOMAIN ledger.bundles :
            /\ Asset(job[p].ledger.bundles[k]) = Asset(ledger.bundles[k])
            /\ k \notin job[p].done => job[p].ledger.bundles[k].state = ledger.bundles[k].state
  BY <1>1, <1>2 DEF Follows
<1>8. Follows(j, ledger')
  BY <1>2, <1>5, <1>6, <1>7 DEF Follows
<1> QED
  BY <1>1, <1>2, <1>8, SerialMoves

\* What a verification revoked is not claimed in the ledger it writes.
LEMMA SerialSaveVerify ==
    ASSUME OneAtATime, SerialInv, NEW p \in Commands, BackupInv', SaveVerify(p)
    PROVE  SerialInv'
<1> DEFINE l == job[p].ledger
<1>1. /\ job[p] \in Jobs /\ Prepared(job[p]) /\ Follows(job[p], ledger)
      /\ NotClaimed(ledger, condemned)
  BY DEF SerialInv, BackupInv
<1>2. /\ job[p].pc = "verify" /\ Save(l) /\ Exit(p)
      /\ condemned' = (condemned \ Verdict(p, TRUE)) \cup Verdict(p, FALSE)
  BY DEF SaveVerify, At
<1>3. /\ DOMAIN l.bundles = DOMAIN ledger.bundles
      /\ \A i \in DOMAIN ledger.bundles :
            /\ Asset(l.bundles[i]) = Asset(ledger.bundles[i])
            /\ i \notin job[p].done => l.bundles[i].state = ledger.bundles[i].state
  BY <1>1, <1>2 DEF Follows
<1>4. Numbered(l) /\ job[p].done \subseteq DOMAIN l.bundles
  BY <1>1, <1>2 DEF Prepared, Sane, IsLedger
<1>5. ASSUME NEW i \in DOMAIN l.bundles, Asset(l.bundles[i]) \in condemned'
      PROVE  l.bundles[i].state # "committed_complete"
  <2>1. CASE Asset(l.bundles[i]) \in Verdict(p, FALSE)
    <3>1. PICK k \in job[p].done : k \in Incomplete(l) /\ Asset(l.bundles[i]) = Asset(l.bundles[k])
      BY <2>1 DEF Verdict
    <3>2. l.bundles[i].seq = l.bundles[k].seq
      BY <3>1 DEF Asset
    <3>3. i = k
      BY <3>1, <3>2, <1>4 DEF Numbered
    <3> QED
      BY <3>1, <3>3 DEF Incomplete
  <2>2. CASE Asset(l.bundles[i]) \in condemned /\ Asset(l.bundles[i]) \notin Verdict(p, TRUE)
    <3>1. ledger.bundles[i].state # "committed_complete"
      BY <2>2, <1>1, <1>3 DEF NotClaimed
    <3>2. CASE i \notin job[p].done
      BY <3>1, <3>2, <1>3
    <3>3. CASE i \in job[p].done
      <4>1. i \in Incomplete(l)
        BY <2>2, <3>3 DEF Verdict
      <4> QED
        BY <4>1 DEF Incomplete
    <3> QED
      BY <3>2, <3>3
  <2> QED
    BY <1>2, <1>5, <2>1, <2>2
<1>6. NotClaimed(l, condemned')
  BY <1>5 DEF NotClaimed
<1> QED
  BY <1>2, <1>6, SerialSaves

\* A clean evacuation check has seen only what is committed.
LEMMA SerialInspect ==
    ASSUME OneAtATime, SerialInv, NEW p \in Commands, BackupInv', Inspect(p)
    PROVE  SerialInv'
<1> DEFINE f     == Min(job[p].left)
           entry == job[p].ledger.entries[f]
           clean == job[p].clean /\ entry.state = "committed_complete" /\ entry.sha = local[f]
           seen  == [job[p].seen EXCEPT ![f] = local[f]]
           j     == [job[p] EXCEPT !.left = job[p].left \ {f}, !.seen = seen, !.clean = clean]
<1>1. /\ job[p] \in Jobs /\ Prepared(job[p]) /\ Follows(job[p], ledger)
      /\ NotClaimed(ledger, condemned)
  BY DEF SerialInv, BackupInv
<1>2. /\ job[p].pc = "evacuate" /\ job[p].left # {} /\ Go(p, j) /\ UNCHANGED <<ledger, condemned>>
  BY <1>1 DEF Inspect, At, Jobs
<1>3. job[p].left \subseteq Objects /\ f \in Objects /\ f \in job[p].left
  BY <1>1, <1>2, MinIn DEF Prepared, Jobs
<1>4. /\ seen[f] = local[f]
      /\ \A g \in Objects \ {f} : seen[g] = job[p].seen[g]
  BY <1>1, <1>3 DEF Jobs, Seen
<1>5. clean => /\ job[p].clean /\ job[p].ledger.entries[f].state = "committed_complete"
               /\ job[p].ledger.entries[f].sha = local[f]
  OBVIOUS
<1>6. clean \in BOOLEAN
  OBVIOUS
<1> HIDE DEF f, clean, seen
<1>7. /\ j.pc = "evacuate" /\ j.ledger = job[p].ledger /\ j.left = job[p].left \ {f}
      /\ j.seen = seen /\ j.clean = clean
  BY <1>1, <1>2 DEF Jobs
<1> HIDE DEF j
<1>8. job[p].ledger = ledger
  BY <1>1, <1>2 DEF Follows
<1>9. ASSUME j.clean, NEW g \in Objects \ j.left
      PROVE  j.ledger.entries[g].state = "committed_complete" /\ j.ledger.entries[g].sha = j.seen[g]
  <2>1. CASE g = f
    BY <2>1, <1>4, <1>5, <1>7, <1>9
  <2>2. CASE g # f
    <3>1. g \in Objects \ job[p].left /\ job[p].clean /\ j.seen[g] = job[p].seen[g]
      BY <2>2, <1>4, <1>5, <1>7, <1>9
    <3> QED
      BY <3>1, <1>1, <1>2, <1>7 DEF Follows
  <2> QED
    BY <2>1, <2>2
<1>10. Follows(j, ledger')
  BY <1>2, <1>7, <1>8, <1>9 DEF Follows
<1> QED
  BY <1>1, <1>2, <1>10, SerialMoves

LEMMA SerialInvInductive ==
    ASSUME OneAtATime PROVE SerialInv /\ [Next]_vars => SerialInv'
<1> SUFFICES ASSUME SerialInv, [Next]_vars PROVE SerialInv'
    OBVIOUS
<1>1. BackupInv'
  BY BackupInvInductive DEF SerialInv
<1>2. ASSUME NEW p \in Commands, JobStep(p) PROVE SerialInv'
  <2>1. CASE Report(p)
    BY <1>1, <2>1, SerialQuiet DEF Report
  <2> QED
    BY <1>1, <1>2, <2>1, SerialReads, SerialCommit, SerialRegister, SerialEnrol, SerialRecheck,
       SerialSaveVerify, SerialInspect DEF JobStep, SyncStep
<1>3. ASSUME NEW p \in Commands, Kill(p) PROVE SerialInv'
  BY <1>1, <1>3, SerialQuiet DEF Kill
<1>4. ASSUME NEW p \in Commands,
             \/ \E inventory \in (SUBSET Objects) \ {{}} : StartSync(p, inventory)
             \/ \E bundles \in (SUBSET DOMAIN ledger.bundles) \ {{}} : StartVerify(p, bundles)
             \/ StartEvacuate(p)
      PROVE  SerialInv'
  BY <1>1, <1>4, SerialStarts
<1>5. CASE \/ \E f \in Objects : Edit(f)
           \/ \E asset \in DOMAIN remote : Damage(asset) \/ Lose(asset)
           \/ UNCHANGED vars
  <2>1. UNCHANGED <<ledger, job, condemned>>
    BY <1>5 DEF Edit, Damage, Lose, vars
  <2> QED
    BY <1>1, <2>1 DEF SerialInv
<1> QED
  BY <1>2, <1>3, <1>4, <1>5 DEF Next

LEMMA SerialInvHolds == ASSUME OneAtATime PROVE Spec => []SerialInv
<1>1. Init => SerialInv
  <2> SUFFICES ASSUME Init PROVE SerialInv
      OBVIOUS
  <2>1. BackupInv
    BY BackupInvInitially
  <2>2. NotClaimed(ledger, condemned)
    BY DEF Init, NotClaimed
  <2>3. \A p \in Commands : Follows(job[p], ledger)
    BY NoJobFollows DEF Init
  <2> QED
    BY <2>1, <2>2, <2>3 DEF SerialInv
<1>2. SerialInv /\ [Next]_vars => SerialInv'
  BY SerialInvInductive
<1> QED
  BY <1>1, <1>2, PTL DEF Spec

\* A revocation stands, when the commands run one at a time.
THEOREM RevocationsStand == OneAtATime => (Spec => []RevocationStands)
<1> SUFFICES ASSUME OneAtATime PROVE Spec => []RevocationStands
    OBVIOUS
<1>1. SerialInv => RevocationStands
  BY DEF SerialInv, NotClaimed, RevocationStands
<1> QED
  BY <1>1, SerialInvHolds, PTL

LEMMA ReportEarned ==
    ASSUME SerialInv, NEW p \in Commands, Report(p) PROVE ReadyEarned
<1> SUFFICES ASSUME report'.ready, NEW f \in Objects
             PROVE  \E i \in DOMAIN ledger.bundles :
                       LET asset == Asset(ledger.bundles[i]) IN
                       /\ f \in DOMAIN asset.contents /\ asset.contents[f] = report'.seen[f]
                       /\ asset \notin condemned
                       /\ asset \in spoiled \/ (asset \in DOMAIN remote /\ remote[asset] = "intact")
    BY DEF ReadyEarned
<1>1. /\ Follows(job[p], ledger) /\ NotClaimed(ledger, condemned)
      /\ Sane(ledger) /\ Backed(ledger)
  BY DEF SerialInv, BackupInv
<1>2. /\ job[p].pc = "evacuate" /\ job[p].left = {} /\ job[p].clean
      /\ report'.seen = job[p].seen
  BY DEF Report, At
<1>3. ledger.entries[f].state = "committed_complete" /\ ledger.entries[f].sha = report'.seen[f]
  BY <1>1, <1>2 DEF Follows
<1> DEFINE i == ledger.entries[f].bundle
<1>4. /\ i \in DOMAIN ledger.bundles
      /\ ledger.bundles[i].state = "committed_complete"
      /\ f \in DOMAIN ledger.bundles[i].contents
      /\ ledger.bundles[i].contents[f] = ledger.entries[f].sha
      /\ Held(Asset(ledger.bundles[i]))
  BY <1>1, <1>3, CommittedEntry
<1>5. Asset(ledger.bundles[i]) \notin condemned
  BY <1>1, <1>4 DEF NotClaimed
<1>6. /\ f \in DOMAIN Asset(ledger.bundles[i]).contents
      /\ Asset(ledger.bundles[i]).contents[f] = report'.seen[f]
  BY <1>3, <1>4 DEF Asset
<1> QED
  BY <1>4, <1>5, <1>6 DEF Held

\* A report that says ready is earned, when the commands run one at a time.
THEOREM ReadyIsEarned == OneAtATime => (Spec => EvacuationEarned)
<1> SUFFICES ASSUME OneAtATime PROVE Spec => EvacuationEarned
    OBVIOUS
<1>1. ASSUME SerialInv, [Next]_vars PROVE [ReadyEarned]_report
  <2>1. ASSUME NEW p \in Commands, JobStep(p) PROVE Report(p) \/ UNCHANGED report
    BY <2>1 DEF JobStep, SyncStep, Fetch, Commit, Register, Rehash, Pack, Upload, Enrol, Recheck,
       SaveVerify, Inspect
  <2>2. (\E p \in Commands : Report(p)) \/ UNCHANGED report
    BY <1>1, <2>1 DEF Next, StartSync, StartVerify, StartEvacuate, Kill, Edit, Damage, Lose, vars
  <2> QED
    BY <1>1, <2>2, ReportEarned
<1> QED
  BY <1>1, SerialInvHolds, PTL DEF Spec, EvacuationEarned

=============================================================================
