----------------------------- MODULE Allocation -----------------------------
(***************************************************************************)
(* ctsteg.digital_ad.allocation: how many coefficients of each band carry  *)
(* the body, and in which order. A band is its index, a slot the pair      *)
(* <<band, place>>. Weights and epsilon are integers in a common unit, so  *)
(* that the shares are compared exactly. One slot carries one symbol.      *)
(* Sequences are written f \o <<>> where TLC should compute f only once.   *)
(***************************************************************************)
EXTENDS Integers, Sequences, FiniteSets, FiniteSetsExt

LOCAL Seqs == INSTANCE SequencesExt

CONSTANT Epsilon    \* allocation_epsilon, in the unit of the weights

\* DigitalADConfig.validate
ASSUME EpsilonAssumption == Epsilon \in Nat \ {0}

Adaptive(method)       == method \in {"C1_A", "C3_A_D", "C3_NP"}
HighScoreFirst(method) == method \in {"C3_A_D", "C3_NP"}

\* f[1] + ... + f[Len(f)]
Total(f) ==
    LET sum[b \in 0 .. Len(f)] == IF b = 0 THEN 0 ELSE sum[b - 1] + f[b]
    IN  sum[Len(f)]

\* The bands that come before b when they are sorted by falling key, ties to
\* the earlier band.
Ahead(key, bands, b) == {c \in bands : key[c] > key[b] \/ (key[c] = key[b] /\ c < b)}

\* The share of band b when amount is split over the active bands, times Divisor.
Share(weights, amount, b)  == amount * (weights[b] + Epsilon)
Divisor(weights, active)   ==
    Total([b \in DOMAIN weights |-> IF b \in active THEN weights[b] + Epsilon ELSE 0] \o <<>>)
Open(allocation, caps)     == {b \in DOMAIN caps : allocation[b] < caps[b]}

\* Whole shares first, within the room a band has left.
Floors(allocation, caps, weights, amount) ==
    LET active == Open(allocation, caps)
        divisor == Divisor(weights, active)
    IN  [b \in DOMAIN caps |->
            IF b \in active
            THEN Min({Share(weights, amount, b) \div divisor, caps[b] - allocation[b]})
            ELSE 0] \o <<>>

\* The bands one more slot is offered to, by the fraction of the share of
\* what is left.
Favoured(allocation, caps, weights, left) ==
    LET active == Open(allocation, caps)
        divisor == Divisor(weights, active)
        fraction == [b \in DOMAIN caps |-> Share(weights, left, b) % divisor] \o <<>>
    IN  {b \in active : Cardinality(Ahead(fraction, active, b)) < left}

\* One round: whole shares first, then one slot to every favoured band.
Allocate(state, caps, weights) ==
    LET floors == Floors(state.allocation, caps, weights, state.remaining)
        given  == [b \in DOMAIN caps |-> state.allocation[b] + floors[b]] \o <<>>
        left   == state.remaining - Total(floors)
        extra  == IF left = 0 THEN {} ELSE Favoured(given, caps, weights, left)
    IN  IF state.remaining = 0 THEN state ELSE
        [allocation |-> [b \in DOMAIN caps |-> given[b] + (IF b \in extra THEN 1 ELSE 0)] \o <<>>,
         remaining  |-> left - Cardinality(extra)]

\* Every round places a slot, so amount rounds place them all.
CappedLargestRemainder(weights, caps, amount) ==
    LET round[n \in 0 .. amount] ==
            IF n = 0 THEN [allocation |-> [b \in DOMAIN caps |-> 0], remaining |-> amount]
            ELSE Allocate(round[n - 1], caps, weights)
    IN  round[amount].allocation

-----------------------------------------------------------------------------
\* Header places are taken from the bands in their order.
HeaderUsed(caps, headerSize) ==
    LET before[b \in 0 .. Len(caps)] == IF b = 0 THEN 0 ELSE before[b - 1] + caps[b]
    IN  [b \in DOMAIN caps |->
            Min({caps[b], headerSize - Min({headerSize, before[b - 1]})})] \o <<>>

\* Mutant: the body starts where the header does.
PlacesFromFirst(b, start, n) == [i \in 1 .. n |-> <<b, i>>]

Places(b, start, n) == [i \in 1 .. n |-> <<b, start + i>>]

\* The first place of every band, then the second of every band, ...
RoundRobin(slots) ==
    Seqs!FlattenSeq([offset \in 1 .. Max({Len(slots[b]) : b \in DOMAIN slots} \cup {0}) |->
            Seqs!FlattenSeq([b \in DOMAIN slots |->
                    IF offset <= Len(slots[b]) THEN <<slots[b][offset]>> ELSE <<>>] \o <<>>)]
          \o <<>>)

\* Bands by falling score; bands are numbered in the order of their ids.
Ranked(scores) ==
    [i \in DOMAIN scores |->
        CHOOSE b \in DOMAIN scores : Cardinality(Ahead(scores, DOMAIN scores, b)) = i - 1] \o <<>>

\* build_slot_plan: what the bands weigh, and the order of the body.
Weights(method, caps, scores) ==
    IF Adaptive(method) THEN scores ELSE [b \in DOMAIN caps |-> 1000]
Ordered(method, scores, slots) ==
    IF HighScoreFirst(method)
    THEN Seqs!FlattenSeq([i \in DOMAIN slots |-> slots[Ranked(scores)[i]]])
    ELSE RoundRobin(slots)

PlacesOf(caps, starts, counts) ==
    [b \in DOMAIN caps |-> Places(b, starts[b], counts[b]) \o <<>>] \o <<>>

Planned(method, caps, scores, used, quotas) ==
    [header |-> Seqs!FlattenSeq(PlacesOf(caps, [b \in DOMAIN caps |-> 0], used)),
     body   |-> Ordered(method, scores, PlacesOf(caps, used, quotas)),
     quotas |-> quotas]

\* What the header leaves of every band.
Room(caps, used) == [b \in DOMAIN caps |-> caps[b] - used[b]]

BuildSlotPlan(method, caps, scores, headerSize, required) ==
    LET beside(used) ==
            Planned(method, caps, scores, used,
                    CappedLargestRemainder(Weights(method, caps, scores), Room(caps, used),
                                           required - headerSize))
    IN  beside(HeaderUsed(caps, headerSize))
=============================================================================
