------------------------------ MODULE Bitstream ------------------------------
(***************************************************************************)
(* The payload of ctsteg.digital_ad: bitplanes, layers, header, transport  *)
(* (bitplanes, bitstream, header, randomization, payload_profiles), the    *)
(* decoder's verdict (types) and its diagnosis (failure_severity).         *)
(*                                                                         *)
(* The unit is a symbol of the Reed-Solomon field; with SymbolBits = 4 a   *)
(* symbol holds one 4-bit or two 2-bit values. A CRC or digest is what it  *)
(* is computed from, so collisions do not occur here. A layer's random     *)
(* permutation and mask are a rotation and a mask fixed by its digest.     *)
(***************************************************************************)
EXTENDS ReedSolomon, FiniteSetsExt

LOCAL Seqs == INSTANCE SequencesExt

CONSTANTS
    Profiles,    \* [symmetric, base, detail -> [4, 2 -> a profile]]
    HeaderWord   \* the data symbols of the header that was sent

LayerKinds == {"symmetric", "base", "detail"}
ASSUME ProfilesAssumption ==
    \A kind \in LayerKinds, bits \in {2, 4} :
        Profiles[kind][bits] \in [data : Seq(1 .. CodewordSymbols - 1), padding : Nat]
ASSUME HeaderWordAssumption == HeaderWord \in Seq(Symbols)

Methods == {"C0_FIXED", "C1_A", "C2_D", "C3_A_D", "C3_NP"}
Unequal(method)        == method \in {"C2_D", "C3_A_D", "C3_NP"}
BaseThenDetail(method) == method = "C3_A_D"

\* Bits of a pixel in the Base and the Detail layer, by payload fraction (%).
Layouts == [f \in {25, 50, 75, 100} |->
              CASE f = 25 -> [base |-> 2, detail |-> 0]
                [] f = 50 -> [base |-> 4, detail |-> 0]
                [] f = 75 -> [base |-> 4, detail |-> 2]
                [] f = 100 -> [base |-> 4, detail |-> 4]]

ProfilesFor(method, layout) ==
    LET of(kind, bits) == IF bits = 0 THEN EmptyProfile ELSE Profiles[kind][bits]
    IN  [base   |-> of(IF Unequal(method) THEN "base" ELSE "symmetric", layout.base),
         detail |-> of(IF Unequal(method) THEN "detail" ELSE "symmetric", layout.detail)]

ProtectedSymbols(method, layout) ==
    LET p == ProfilesFor(method, layout)
    IN  CodewordSymbols * (1 + Len(p.base.data) + Len(p.detail.data))

-----------------------------------------------------------------------------
(* Bitplanes                                                               *)

\* 2 ^ n
PowersOfTwo == <<1, 2, 4, 8, 16, 32, 64, 128, 256>>
TwoTo(n)    == PowersOfTwo[n + 1]

SplitPixel(pixel, layout) ==
    [base   |-> pixel \div TwoTo(8 - layout.base),
     detail |-> (pixel \div TwoTo(4 - layout.detail)) % TwoTo(layout.detail)]

RecombinePixel(base, detail, layout) ==
    base * TwoTo(8 - layout.base) + detail * TwoTo(4 - layout.detail)

\* Pixels with the undeclared bitplanes set to zero.
ProgressiveReference(pixels, bits) ==
    [i \in DOMAIN pixels |-> (pixels[i] \div TwoTo(8 - bits)) * TwoTo(8 - bits)]

\* The first value of a symbol takes its highest bits; it holds at most four.
Pack(values, bits) ==
    LET per == SymbolBits \div bits
        value(s, i) == IF i <= per THEN values[(s - 1) * per + i] * TwoTo(bits * (per - i)) ELSE 0
    IN  Tuple([s \in 1 .. Len(values) \div per |->
            value(s, 1) + value(s, 2) + value(s, 3) + value(s, 4)])

Unpack(symbols, bits) ==
    LET per == SymbolBits \div bits
    IN  Tuple([v \in 1 .. Len(symbols) * per |->
            (symbols[((v - 1) \div per) + 1] \div TwoTo(bits * (per - 1 - ((v - 1) % per))))
                % TwoTo(bits)])

RawLayers(pixels, layout) ==
    [base   |-> Pack([i \in DOMAIN pixels |-> SplitPixel(pixels[i], layout).base],
                     layout.base),
     detail |-> IF layout.detail = 0 THEN <<>>
                ELSE Pack([i \in DOMAIN pixels |-> SplitPixel(pixels[i], layout).detail],
                          layout.detail)]

\* detailBits = 0 is the Base-only reconstruction.
Reconstruction(base, detail, layout, detailBits) ==
    LET b == Unpack(base, layout.base)
        d == IF detailBits = 0 THEN [i \in DOMAIN b |-> 0] ELSE Unpack(detail, detailBits)
    IN  [i \in DOMAIN b |-> RecombinePixel(b[i], d[i], [layout EXCEPT !.detail = detailBits])]

-----------------------------------------------------------------------------
(* Transport                                                               *)

\* master seed, pair, method, layer: as numbers, so that they can be mixed
LayerDigest(config, pair, method, layer) ==
    <<config.seed, pair, CHOOSE i \in 1 .. 5 :
        method = <<"C0_FIXED", "C1_A", "C2_D", "C3_A_D", "C3_NP">>[i],
      IF layer = "base" THEN 1 ELSE 2>>
Mix(digest) == digest[1] * 5 + digest[2] * 7 + digest[3] * 3 + digest[4]

Mask(symbols, digest) ==
    Tuple([i \in 1 .. Len(symbols) |-> Add(symbols[i], (Mix(digest) + 7 * i) % Size)])

Interleave(symbols, digest) ==
    LET n == Len(symbols)
    IN  Tuple([i \in 1 .. n |-> symbols[((7 * i + Mix(digest)) % n) + 1]])

Deinterleave(symbols, digest) ==
    LET n == Len(symbols)
    IN  Tuple([i \in 1 .. n |->
            symbols[CHOOSE j \in 1 .. n : ((7 * j + Mix(digest)) % n) + 1 = i]])

EncodeTransport(raw, profile, digest) ==
    Interleave(Mask(EncodeLayer(raw, profile), digest), digest)
Encoded(transport, digest) == Mask(Deinterleave(transport, digest), digest)
DecodeTransport(transport, digest, profile) ==
    DecodeLayer(Encoded(transport, digest), profile)

\* Codewords of the two layers in turn, the rest of the longer layer last.
Alternate(base, detail) ==
    LET rounds == Max({Len(base), Len(detail)}) \div CodewordSymbols
        turn(layer, i) == IF i * CodewordSymbols <= Len(layer) THEN Codeword(layer, i) ELSE <<>>
    IN  Seqs!FlattenSeq([i \in 1 .. rounds |-> turn(base, i) \o turn(detail, i)])

MergeBody(method, base, detail) ==
    IF BaseThenDetail(method) THEN base \o detail
    ELSE Alternate(base, detail)

\* split_body's loop, one block: what is left of each layer and whose turn it is.
Deal(block, hand) ==
    LET toBase == (hand.turn = "base" /\ hand.baseLeft > 0) \/ hand.detailLeft = 0
    IN  [base   |-> IF toBase THEN hand.base \o block ELSE hand.base,
         detail |-> IF toBase THEN hand.detail ELSE hand.detail \o block,
         baseLeft   |-> hand.baseLeft - (IF toBase THEN 1 ELSE 0),
         detailLeft |-> hand.detailLeft - (IF toBase THEN 0 ELSE 1),
         turn |-> IF hand.turn = "base" THEN "detail" ELSE "base"]

SplitBody(method, body, baseCodewords, detailCodewords) ==
    LET boundary == baseCodewords * CodewordSymbols
        dealt[n \in 0 .. baseCodewords + detailCodewords] ==
            IF n = 0 THEN [base |-> <<>>, detail |-> <<>>, baseLeft |-> baseCodewords,
                           detailLeft |-> detailCodewords, turn |-> "base"]
            ELSE Deal(Codeword(body, n), dealt[n - 1])
    IN  IF BaseThenDetail(method)
        THEN [base |-> SubSeq(body, 1, boundary), detail |-> SubSeq(body, boundary + 1, Len(body))]
        ELSE dealt[baseCodewords + detailCodewords]

-----------------------------------------------------------------------------
(* Encoding                                                                *)

\* DigitalHeader.validate: format 1 has one layout and no C3_NP.
Encodable(method, config, layout) ==
    config.format = 1 => layout = Layouts[100] /\ method # "C3_NP"

Header(method, config, pair, layout, raw) ==
    [format |-> config.format, method |-> method, layout |-> layout, config |-> config,
     symbols |-> ProtectedSymbols(method, layout),
     seeds   |-> {LayerDigest(config, pair, method, l) : l \in {"base", "detail"}},
     crc |-> raw.base \o raw.detail, baseCrc |-> raw.base, detailCrc |-> raw.detail]

EncodeBitstream(pixels, pair, method, config, layout) ==
    LET raw == RawLayers(pixels, layout)
        profile == ProfilesFor(method, layout)
        digest(l) == LayerDigest(config, pair, method, l)
    IN  [header |-> Header(method, config, pair, layout, raw), raw |-> raw,
         headerSymbols |-> EncodeCodeword(HeaderWord),
         body |-> MergeBody(method, EncodeTransport(raw.base, profile.base, digest("base")),
                            EncodeTransport(raw.detail, profile.detail, digest("detail")))]

\* Only the header that was sent has a matching CRC.
DecodeHeader(symbols) == DecodeCodeword(symbols, Len(HeaderWord)).data = HeaderWord

-----------------------------------------------------------------------------
(* The decoder's verdict                                                   *)

\* The outcome of a stream whose layers were never looked at.
Unread(headerValid, failures, validity) ==
    [base |-> Failure, detail |-> Failure, recovered |-> Failure,
     baseReconstruction |-> Failure, crcValid |-> FALSE, baseCrc |-> "none",
     detailCrc |-> "none", headerValid |-> headerValid, failures |-> failures,
     validity |-> validity]
HeaderFailure == Unread(FALSE, {"header"}, "header_failure")

Crc(data, expected) == IF data # Failure /\ data = expected THEN "valid" ELSE "invalid"

\* Mutant: the method a header names is taken on trust.
MismatchWithoutMethod(header, pair, method, config, layout) ==
    header.format # config.format \/ header.layout # layout \/ header.config # config

Mismatch(header, pair, method, config, layout) ==
    \/ header.format # config.format \/ header.method # method
    \/ header.layout # layout \/ header.config # config

\* Mutant: all or nothing.
ValidityCompleteOnly(headerValid, complete, base, baseCrc) ==
    CASE ~headerValid -> "header_failure"
      [] headerValid /\ complete -> "complete_valid_recovery"
      [] OTHER -> "header_valid_no_valid_layer"

\* baseCrc is "none" in format 1.
Validity(headerValid, complete, base, baseCrc) ==
    CASE ~headerValid -> "header_failure"
      [] headerValid /\ complete -> "complete_valid_recovery"
      [] headerValid /\ ~complete /\ baseCrc = "valid" -> "valid_base_only_recovery"
      [] OTHER -> "header_valid_no_valid_layer"

\* What is recovered from the layers, and what is said of it.
Recovery(header, pair, mismatch, base, detail) ==
    LET digest(l) == LayerDigest(header.config, pair, header.method, l)
        baseCrc   == IF header.format = 1 THEN "none" ELSE Crc(base.data, header.baseCrc)
        detailCrc == IF header.format = 1 \/ header.layout.detail = 0 THEN "none"
                     ELSE Crc(detail.data, header.detailCrc)
        both     == base.data # Failure /\ detail.data # Failure
        crcValid == both /\ base.data \o detail.data = header.crc
        headerValid == ~mismatch /\ header.seeds = {digest("base"), digest("detail")}
        complete == headerValid /\ crcValid /\ "invalid" \notin {baseCrc, detailCrc}
    IN  [headerValid |-> headerValid, crcValid |-> crcValid,
         base |-> base.data, detail |-> detail.data,
         baseCrc |-> baseCrc, detailCrc |-> detailCrc,
         recovered |-> IF complete THEN Reconstruction(base.data, detail.data, header.layout,
                                                       header.layout.detail)
                       ELSE Failure,
         baseReconstruction |-> IF headerValid /\ baseCrc = "valid"
                                THEN Reconstruction(base.data, <<>>, header.layout, 0)
                                ELSE Failure,
         failures |-> {f \in {"header"} : ~headerValid}
                        \cup {f \in {"reed_solomon"} : base.failures \cup detail.failures # {}}
                        \cup {f \in {"payload_integrity"} :
                                 \/ both /\ ~crcValid
                                 \/ base.data # Failure /\ baseCrc = "invalid"
                                 \/ detail.data # Failure /\ detailCrc = "invalid"},
         validity |-> Validity(headerValid, complete, base.data, baseCrc)]

DecodeBody(header, body, pair, mismatch) ==
    LET profile == ProfilesFor(header.method, header.layout)
        parts   == SplitBody(header.method, body, Len(profile.base.data),
                             Len(profile.detail.data))
        layer(l) == DecodeTransport(parts[l], LayerDigest(header.config, pair, header.method, l),
                                    profile[l])
    IN  Recovery(header, pair, mismatch, layer("base"), layer("detail"))

DecodeBitstream(symbols, sent, pair, method, config, layout) ==
    LET known(mismatch) ==
            IF Len(symbols) # sent.symbols
            THEN Unread(~mismatch, {"transport"} \cup {f \in {"header"} : mismatch},
                        IF mismatch THEN "header_failure" ELSE "header_valid_no_valid_layer")
            ELSE DecodeBody(sent, SubSeq(symbols, CodewordSymbols + 1, Len(symbols)),
                            pair, mismatch)
    IN  IF DecodeHeader(SubSeq(symbols, 1, CodewordSymbols))
        THEN known(Mismatch(sent, pair, method, config, layout))
        ELSE HeaderFailure

Success(o) ==
    /\ o.headerValid /\ o.crcValid
    /\ o.base # Failure /\ o.detail # Failure /\ o.recovered # Failure
    /\ o.validity = "complete_valid_recovery"
    /\ o.failures = {}

BaseOnlySuccess(o) ==
    /\ o.headerValid /\ o.baseCrc = "valid"
    /\ o.base # Failure /\ o.baseReconstruction # Failure
    /\ o.validity \in {"complete_valid_recovery", "valid_base_only_recovery"}

-----------------------------------------------------------------------------
(* The diagnosis against the ground truth (failure_severity)               *)

\* One codeword: how many symbols are wrong, and what the decoder made of it.
CodewordRecord(sent, received, raw, k) ==
    LET errors == Cardinality({p \in 1 .. CodewordSymbols : sent[p] # received[p]})
        radius == (CodewordSymbols - k) \div 2
        record(result) ==
            [errors |-> errors, radius |-> radius,
             overload |-> IF errors > radius THEN errors - radius ELSE 0,
             known |-> IF result.success THEN Len(raw) ELSE 0,
             unknown |-> IF result.success THEN 0 ELSE Len(raw),
             correct |-> IF result.success
                         THEN Cardinality({i \in 1 .. Len(raw) : raw[i] = result.data[i]}) ELSE 0,
             status |-> IF ~result.success THEN "decode_failure"
                        ELSE IF AllZero(SubSeq(result.data, Len(raw) + 1, k)) THEN "success"
                        ELSE "padding_failure"]
    IN  record(DecodeCodeword(received, k))

\* The raw symbols of codeword i; the last codewords hold padding.
RawOf(raw, profile, i) ==
    SubSeq(raw, Offset(profile, i) + 1,
           IF Offset(profile, i + 1) > Len(raw) THEN Len(raw) ELSE Offset(profile, i + 1))

CodewordDiagnostics(sent, received, raw, profile) ==
    Tuple([i \in 1 .. Len(profile.data) |->
        CodewordRecord(Codeword(sent, i), Codeword(received, i),
                       RawOf(raw, profile, i), profile.data[i])])

Failed(records) == \E i \in DOMAIN records : records[i].status # "success"

\* Mutant: the header is looked at after the codewords.
FailureStageHeaderLast(o, base, detail) ==
    CASE o.validity = "complete_valid_recovery"  -> "S0_COMPLETE"
      [] o.validity = "valid_base_only_recovery" -> "S1_BASE_ONLY"
      [] OTHER -> IF Failed(base) \/ Failed(detail) THEN "S3_PAYLOAD_ECC_FAILURE"
                  ELSE IF ~o.headerValid THEN "S4_HEADER_FAILURE"
                  ELSE "S2_HEADER_VALID_PARTIAL"

\* Only layers with codewords are passed; extraction itself does not fail.
FailureStage(o, base, detail) ==
    CASE o.validity = "complete_valid_recovery"  -> "S0_COMPLETE"
      [] o.validity = "valid_base_only_recovery" -> "S1_BASE_ONLY"
      [] ~o.headerValid -> "S4_HEADER_FAILURE"
      [] OTHER -> IF Failed(base) \/ Failed(detail) THEN "S3_PAYLOAD_ECC_FAILURE"
                  ELSE "S2_HEADER_VALID_PARTIAL"

EvaluateSeverity(encoded, symbols, pair, o) ==
    LET h == encoded.header
        profile == ProfilesFor(h.method, h.layout)
        layer(l, transport) == Encoded(transport, LayerDigest(h.config, pair, h.method, l))
        split(body) == SplitBody(h.method, body, Len(profile.base.data),
                                 Len(profile.detail.data))
        seen == split(SubSeq(symbols, CodewordSymbols + 1, Len(symbols)))
        diagnosed(l) ==
            CodewordDiagnostics(EncodeLayer(encoded.raw[l], profile[l]), layer(l, seen[l]),
                                encoded.raw[l], profile[l])
        staged(base, detail) ==
            [header |-> CodewordRecord(encoded.headerSymbols, SubSeq(symbols, 1, CodewordSymbols),
                                       HeaderWord, Len(HeaderWord)),
             base |-> base, detail |-> detail, stage |-> FailureStage(o, base, detail)]
    IN  staged(diagnosed("base"), diagnosed("detail"))
=============================================================================
