-------------------------------- MODULE Codec --------------------------------
(***************************************************************************)
(* One secret through ctsteg.digital_ad.pipeline: embed, whatever the      *)
(* channel does to the coefficients, extract, and what the study's workers *)
(* then record. A coefficient is the symbol its sign differences carry;    *)
(* the transform and the images are left out, their effect on symbols is   *)
(* the channel's.                                                          *)
(***************************************************************************)
EXTENDS Bitstream, Allocation

CONSTANTS
    Jobs,        \* what may be embedded: [pair, method, config, fraction, scores, pixels]
    Feasibility, \* PSNR verdicts of the strengths 0 .. High, each a function
    High,        \* lambda_high, a power of two in steps of the last halving
    Capacities,  \* coefficients of each band
    Bursts,      \* [first, length, value]: slots the channel changes
    Strangers,   \* identities an extraction may be tried with
    None

\* A profile takes a layer of a job's pixels exactly.
Fit(profiles, pixels, symbolBits) ==
    \A kind \in LayerKinds, bits \in {2, 4} :
        RawSymbols(profiles[kind][bits]) * symbolBits = pixels * bits

Identity(scores, pixels) ==
    [pair : Nat, method : Methods, config : [format : {1, 2}, seed : Nat],
     fraction : DOMAIN Layouts, scores : scores, pixels : pixels]
ASSUME CapacitiesAssumption == Capacities \in Seq(Nat)
ASSUME JobsAssumption ==
    /\ Jobs \subseteq Identity(Seq(Nat), Seq(0 .. 255))
    /\ \A j \in Jobs : /\ Fit(Profiles, Len(j.pixels), SymbolBits)
                       /\ Len(j.scores) = Len(Capacities)    \* band_features
ASSUME StrangersAssumption == Strangers \subseteq Identity({None}, {None})
ASSUME StrengthAssumption ==
    /\ High \in Nat \ {0}
    /\ Feasibility \subseteq [0 .. High -> BOOLEAN]

VARIABLES phase, job, encoded, strength, stego, reader, outcome, severity

vars == <<phase, job, encoded, strength, stego, reader, outcome, severity>>

NoDifference == Size - 1     \* an unmodified coefficient reads as all ones

-----------------------------------------------------------------------------
\* search_lambda: low stays feasible, high stays infeasible. One halving; the
\* last one leaves neighbours.
Halve(feasible, bracket) ==
    LET middle == (bracket.low + bracket.high) \div 2
    IN  IF bracket.high - bracket.low = 1 THEN bracket
        ELSE IF feasible[middle] THEN [bracket EXCEPT !.low = middle]
        ELSE [bracket EXCEPT !.high = middle]

Bisect(feasible) ==
    LET bracket[n \in 0 .. High] ==
            IF n = 0 THEN [low |-> 0, high |-> High] ELSE Halve(feasible, bracket[n - 1])
    IN  bracket[High].low

SearchLambda(feasible) == IF feasible[High] THEN High ELSE Bisect(feasible)

SlotPlan(method, fraction, scores) ==
    BuildSlotPlan(method, Capacities, scores, CodewordSymbols,
                  ProtectedSymbols(method, Layouts[fraction]))
\* build_slot_plan raises when the coefficients are too few.
Capable(method, fraction) ==
    ProtectedSymbols(method, Layouts[fraction]) <= Total(Capacities)
SlotOrder(plan) == plan.header \o plan.body

AllSlots == UNION {{<<b, i>> : i \in 1 .. Capacities[b]} : b \in DOMAIN Capacities}

\* build_unit_perturbation and apply_perturbation at one strength.
Embedded(plan, symbols, lambda) ==
    LET order == SlotOrder(plan)
        written == [i \in {order[j] : j \in DOMAIN order} |-> CHOOSE j \in DOMAIN order : order[j] = i]
    IN  [s \in AllSlots |->
            IF lambda > 0 /\ s \in DOMAIN written THEN symbols[written[s]] ELSE NoDifference]

\* extract_bits reads the slots of the reader's own plan.
ExtractSymbols(coefficients, plan) ==
    LET order == SlotOrder(plan) IN Tuple([i \in DOMAIN order |-> coefficients[order[i]]])

-----------------------------------------------------------------------------
Init ==
    /\ phase = "idle"
    /\ job = None /\ encoded = None /\ strength = None /\ stego = None
    /\ reader = None /\ outcome = None /\ severity = None

\* lambda_low = 0 must be feasible, or search_lambda raises.
Embed(j, feasible) ==
    /\ phase = "idle"
    /\ Encodable(j.method, j.config, Layouts[j.fraction])
    /\ Capable(j.method, j.fraction)
    /\ feasible[0]
    /\ job' = j
    /\ encoded' = EncodeBitstream(j.pixels, j.pair, j.method, j.config, Layouts[j.fraction])
    /\ strength' = SearchLambda(feasible)
    /\ stego' = Embedded(SlotPlan(j.method, j.fraction, j.scores),
                         encoded'.headerSymbols \o encoded'.body, strength')
    /\ phase' = "stego"
    /\ UNCHANGED <<reader, outcome, severity>>

\* Rounding of the stego image, or an attack: some coefficients change.
Struck(coefficients, order, burst) ==
    LET hit == {order[i] : i \in {j \in DOMAIN order :
                    j >= burst.first /\ j < burst.first + burst.length}}
    IN  [s \in AllSlots |-> IF s \in hit THEN Add(coefficients[s], burst.value)
                            ELSE coefficients[s]]

Channel(burst) ==
    /\ phase = "stego"
    /\ stego' = Struck(stego, SlotOrder(SlotPlan(job.method, job.fraction, job.scores)), burst)
    /\ phase' = "received"
    /\ UNCHANGED <<job, encoded, strength, reader, outcome, severity>>

Read(who) ==
    LET plan == SlotPlan(who.method, who.fraction, job.scores)
        symbols == ExtractSymbols(stego, plan)
    IN  /\ outcome' = DecodeBitstream(symbols, encoded.header, who.pair, who.method,
                                      who.config, Layouts[who.fraction])
        /\ reader' = who

\* The workers: the same identity, and the diagnosis of what was received.
Extract ==
    /\ phase \in {"stego", "received"}
    /\ Read([job EXCEPT !.pixels = None])
    /\ severity' = EvaluateSeverity(encoded,
          ExtractSymbols(stego, SlotPlan(job.method, job.fraction, job.scores)),
          job.pair, outcome')
    /\ phase' = "read"
    /\ UNCHANGED <<job, encoded, strength, stego>>

\* extract() called for another pair, method, configuration or payload.
ExtractAsStranger(who) ==
    /\ phase = "stego"
    /\ Encodable(who.method, who.config, Layouts[who.fraction])
    /\ Capable(who.method, who.fraction)
    /\ Read(who)
    /\ phase' = "read"
    /\ UNCHANGED <<job, encoded, strength, stego, severity>>

Next ==
    \/ \E j \in Jobs, feasible \in Feasibility : Embed(j, feasible)
    \/ \E burst \in Bursts : Channel(burst)
    \/ Extract
    \/ \E who \in Strangers : ExtractAsStranger(who)

Spec == Init /\ [][Next]_vars

-----------------------------------------------------------------------------
(* What the workers record                                                 *)

Own == phase = "read" /\ severity # None
SameIdentity == /\ reader.pair = job.pair /\ reader.method = job.method
                /\ reader.config = job.config /\ reader.fraction = job.fraction

\* _embedding_object: the failure a clean round trip leaves behind.
ScientificFailure ==
    [kind |-> "clean_decode_scientific_failure", stage |-> severity.stage,
     validity |-> outcome.validity]

\* _verify_embedding_acceptance: the stages the study goes on with.
AcceptedStages == {"S1_BASE_ONLY", "S2_HEADER_VALID_PARTIAL", "S3_PAYLOAD_ECC_FAILURE",
                   "S4_HEADER_FAILURE", "S5_EXTRACTION_TRANSFORM_FAILURE"}

\* _recognized_clean_scientific_failure: what an evaluation takes for one.
RecognizedValidity == {"valid_base_only_recovery", "header_valid_no_valid_layer",
                       "header_failure", "extraction_failure"}

-----------------------------------------------------------------------------
(* Properties                                                              *)

Records == {severity.header}
             \cup {severity.base[i] : i \in DOMAIN severity.base}
             \cup {severity.detail[i] : i \in DOMAIN severity.detail}

\* A codeword with at most its radius of wrong symbols always decodes to the
\* data that was sent, whichever symbols are wrong (decode_codeword).
WithinRadiusCorrected ==
    Own => \A r \in Records : r.overload = 0 =>
              r.status = "success" /\ r.unknown = 0 /\ r.correct = r.known

\* A reader is given an image only if it is the one that was embedded, cut to
\* the declared bitplanes, and only under the identity it was embedded with;
\* Base-only reconstructions are the secret's Base bitplanes.
RecoveredIsSent ==
    phase = "read" =>
        LET layout == Layouts[job.fraction]
        IN  /\ Success(outcome) =>
                 /\ SameIdentity
                 /\ outcome.recovered = ProgressiveReference(job.pixels,
                                            layout.base + layout.detail)
            /\ BaseOnlySuccess(outcome) =>
                 /\ SameIdentity
                 /\ outcome.baseReconstruction = ProgressiveReference(job.pixels, layout.base)
            /\ Success(outcome) <=> outcome.validity = "complete_valid_recovery"

\* Whatever happens to the Detail layer, a format-2 payload whose header and
\* Base codewords are within their radius still yields its Base image; with
\* the Detail codewords too it yields everything.
ProgressiveRecovery ==
    Own /\ strength > 0 /\ severity.header.overload = 0 =>
        LET spared(records) == \A i \in DOMAIN records : records[i].overload = 0
        IN  /\ job.config.format = 2 /\ spared(severity.base) => BaseOnlySuccess(outcome)
            /\ spared(severity.base) /\ spared(severity.detail) => Success(outcome)

\* Every round trip that is not a success is recorded with a stage and a
\* validity that acceptance and the evaluation workers take for a scientific
\* failure, so that no clean failure can stop the study; S3 names exactly the
\* cases in which a codeword failed without a valid layer.
FailuresAreClassified ==
    Own /\ ~Success(outcome) =>
        /\ ScientificFailure.stage \in AcceptedStages
        /\ ScientificFailure.validity \in RecognizedValidity
        /\ outcome.failures # {}
        /\ severity.stage = "S4_HEADER_FAILURE" <=> ~outcome.headerValid
        /\ severity.stage = "S3_PAYLOAD_ECC_FAILURE" =>
              \/ outcome.base = Failure \/ outcome.detail = Failure

\* The strength chosen keeps the PSNR target, and half a step more would not
\* (search_lambda).
StrengthSound ==
    phase # "idle" =>
        \E feasible \in Feasibility :
            /\ strength \in 0 .. High /\ feasible[strength]
            /\ strength = High \/ ~feasible[strength + 1]

\* Every symbol has a slot of its own and every band stays within its
\* capacity, however the caps bind; where no cap binds a band gets its share,
\* rounded down or up. C3 and C3_NP use the same slots, and the strength is
\* the one search_lambda promises.
EmbeddingSound ==
    phase = "stego" =>
        LET required == ProtectedSymbols(job.method, Layouts[job.fraction])
            weights == Weights(job.method, Capacities, job.scores)
            body == required - CodewordSymbols
            share(b) == Share(weights, body, b) \div Divisor(weights, DOMAIN Capacities)
            distinct(order) ==
                /\ Len(order) = required
                /\ Cardinality(Range(order)) = required
                /\ Range(order) \subseteq AllSlots
            fair(quotas, used) ==
                (\A b \in DOMAIN used : used[b] + share(b) < Capacities[b]) =>
                    \A b \in DOMAIN used : quotas[b] \in {share(b), share(b) + 1}
            sound(plan) ==
                /\ distinct(SlotOrder(plan))
                /\ fair(plan.quotas, HeaderUsed(Capacities, CodewordSymbols))
                /\ job.method = "C3_A_D" =>
                      plan = SlotPlan("C3_NP", job.fraction, job.scores)
        IN  sound(SlotPlan(job.method, job.fraction, job.scores)) /\ StrengthSound
=============================================================================
