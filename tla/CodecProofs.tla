----------------------------- MODULE CodecProofs -----------------------------
(***************************************************************************)
(* What a reader is given by the codec, whatever the channel does: for any *)
(* field of 4 or 8 bits, any profiles, images, identities and bursts.      *)
(***************************************************************************)
EXTENDS Codec, FiniteSetTheorems, WellFoundedInduction, TLAPS

LOCAL Seqs == INSTANCE SequencesExt

-----------------------------------------------------------------------------
(* Bitplanes                                                               *)

LEMMA Powers ==
    /\ TwoTo(0) = 1 /\ TwoTo(2) = 4 /\ TwoTo(4) = 16 /\ TwoTo(6) = 64 /\ TwoTo(8) = 256
BY DEF TwoTo, PowersOfTwo

LEMMA Elements ==
    ASSUME NEW S, NEW s \in Seq(S)
    PROVE  /\ Len(s) \in Nat /\ DOMAIN s = 1 .. Len(s)
           /\ \A i \in 1 .. Len(s) : s[i] \in S
OBVIOUS

LEMMA WiderElements ==
    ASSUME NEW S, NEW R, S \subseteq R, NEW s \in Seq(S)
    PROVE  s \in Seq(R)
OBVIOUS

LEMMA TupleIs ==
    ASSUME NEW n \in Nat, NEW f, f = [i \in 1 .. n |-> f[i]]
    PROVE  Tuple(f) = f /\ Len(f) = n
<1>1. Len(f) = n
  OBVIOUS
<1>2. DOMAIN (f \o <<>>) = 1 .. n
  BY <1>1
<1>3. \A i \in 1 .. n : (f \o <<>>)[i] = f[i]
  BY <1>1
<1>. QED
  BY <1>1, <1>2, <1>3 DEF Tuple

\* What a symbol holds of the values packed into it.
LEMMA Packed ==
    ASSUME NEW bits \in {2, 4}, NEW n \in Nat,
           NEW values \in [1 .. n * (SymbolBits \div bits) -> 0 .. TwoTo(bits) - 1]
    PROVE  LET at(s) == Pack(values, bits)[s]
               per   == SymbolBits \div bits
           IN  /\ Pack(values, bits) = [s \in 1 .. n |-> at(s)]
               /\ per = 1 => \A s \in 1 .. n : at(s) = values[s]
               /\ per = 2 => \A s \in 1 .. n :
                     at(s) = values[2 * s - 1] * TwoTo(bits) + values[2 * s]
               /\ per = 4 => \A s \in 1 .. n :
                     at(s) = values[4 * s - 3] * 64 + values[4 * s - 2] * 16
                               + values[4 * s - 1] * 4 + values[4 * s]
<1> DEFINE per == SymbolBits \div bits
           value(s, i) == IF i <= per THEN values[(s - 1) * per + i] * TwoTo(bits * (per - i)) ELSE 0
           f == [s \in 1 .. n |-> value(s, 1) + value(s, 2) + value(s, 3) + value(s, 4)]
<1>0. per \in {1, 2, 4} /\ (per = 4 => bits = 2) /\ TwoTo(bits) \in {4, 16}
  BY SymbolBitsAssumption, Powers
<1>1. Len(values) \div per = n
  BY <1>0
<1>2. Pack(values, bits) = Tuple(f)
  BY <1>1 DEF Pack
<1>3. Pack(values, bits) = f
  <2> HIDE DEF value
  <2>1. f = [s \in 1 .. n |-> f[s]]
    OBVIOUS
  <2>. QED
    BY <2>1, <1>2, TupleIs
<1>4. \A s \in 1 .. n : Pack(values, bits)[s] = value(s, 1) + value(s, 2) + value(s, 3) + value(s, 4)
  <2> HIDE DEF value
  <2>. QED
    BY <1>3
<1>5. ASSUME per = 1, NEW s \in 1 .. n
      PROVE  Pack(values, bits)[s] = values[s]
  <2>1. (s - 1) * per + 1 = s /\ bits * (per - 1) = 0
    BY <1>5
  <2>2. value(s, 1) = values[s] * TwoTo(0) /\ value(s, 2) = 0 /\ value(s, 3) = 0 /\ value(s, 4) = 0
    BY <2>1, <1>5
  <2>3. s \in 1 .. n * per
    BY <1>5
  <2>. QED
    BY <2>2, <2>3, <1>0, <1>4, Powers, SMTT(30)
<1>6. ASSUME per = 2, NEW s \in 1 .. n
      PROVE  Pack(values, bits)[s] = values[2 * s - 1] * TwoTo(bits) + values[2 * s]
  <2>1. /\ (s - 1) * per + 1 = 2 * s - 1 /\ (s - 1) * per + 2 = 2 * s
        /\ bits * (per - 1) = bits /\ bits * (per - 2) = 0
    BY <1>6
  <2>2. /\ value(s, 1) = values[2 * s - 1] * TwoTo(bits) /\ value(s, 2) = values[2 * s] * TwoTo(0)
        /\ value(s, 3) = 0 /\ value(s, 4) = 0
    BY <2>1, <1>6
  <2>3. {2 * s - 1, 2 * s} \subseteq 1 .. n * per
    BY <1>6
  <2>4. values[2 * s - 1] \in Int /\ values[2 * s] \in Int
    BY <2>3, <1>0
  <2>5. Pack(values, bits)[s] = value(s, 1) + value(s, 2) + value(s, 3) + value(s, 4)
    BY <1>4
  <2> HIDE DEF value, per
  <2>6. CASE TwoTo(bits) = 4
    BY <2>2, <2>4, <2>5, <2>6, Powers, SMTT(30)
  <2>7. CASE TwoTo(bits) = 16
    BY <2>2, <2>4, <2>5, <2>7, Powers, SMTT(30)
  <2>. QED
    BY <1>0, <2>6, <2>7
<1>7. ASSUME per = 4, NEW s \in 1 .. n
      PROVE  Pack(values, bits)[s] = values[4 * s - 3] * 64 + values[4 * s - 2] * 16
                                       + values[4 * s - 1] * 4 + values[4 * s]
  <2>1. /\ (s - 1) * per + 1 = 4 * s - 3 /\ (s - 1) * per + 2 = 4 * s - 2
        /\ (s - 1) * per + 3 = 4 * s - 1 /\ (s - 1) * per + 4 = 4 * s
    BY <1>7
  <2>2. /\ bits * (per - 1) = 6 /\ bits * (per - 2) = 4
        /\ bits * (per - 3) = 2 /\ bits * (per - 4) = 0
    <3>1. bits = 2 /\ per = 4
      BY <1>0, <1>7
    <3> HIDE DEF per
    <3>. QED
      BY <3>1
  <2>3. /\ value(s, 1) = values[4 * s - 3] * 64 /\ value(s, 2) = values[4 * s - 2] * 16
        /\ value(s, 3) = values[4 * s - 1] * 4 /\ value(s, 4) = values[4 * s] * 1
    <3>1. /\ value(s, 1) = values[(s - 1) * per + 1] * TwoTo(bits * (per - 1))
          /\ value(s, 2) = values[(s - 1) * per + 2] * TwoTo(bits * (per - 2))
          /\ value(s, 3) = values[(s - 1) * per + 3] * TwoTo(bits * (per - 3))
          /\ value(s, 4) = values[(s - 1) * per + 4] * TwoTo(bits * (per - 4))
      <4>1. \A i \in 1 .. 4 :
               i <= per => value(s, i) = values[(s - 1) * per + i] * TwoTo(bits * (per - i))
        OBVIOUS
      <4>2. 1 <= per /\ 2 <= per /\ 3 <= per /\ 4 <= per
        BY <1>7
      <4> HIDE DEF value, per
      <4>. QED
        BY <4>1, <4>2
    <3> HIDE DEF value, per
    <3>. QED
      BY <2>1, <2>2, <3>1, Powers, ZenonT(30)
  <2>4. {4 * s - 3, 4 * s - 2, 4 * s - 1, 4 * s} \subseteq 1 .. n * per
    BY <1>7
  <2>5. /\ values[4 * s - 3] \in Int /\ values[4 * s - 2] \in Int
        /\ values[4 * s - 1] \in Int /\ values[4 * s] \in Int
    BY <2>4, <1>0
  <2>6. Pack(values, bits)[s] = value(s, 1) + value(s, 2) + value(s, 3) + value(s, 4)
    BY <1>4
  <2> DEFINE a == values[4 * s - 3]
             b == values[4 * s - 2]
             c == values[4 * s - 1]
             d == values[4 * s]
  <2>7. /\ Pack(values, bits)[s] = a * 64 + b * 16 + c * 4 + d * 1
        /\ a \in Int /\ b \in Int /\ c \in Int /\ d \in Int
    <3> HIDE DEF value, per
    <3>. QED
      BY <2>3, <2>5, <2>6
  <2>8. Pack(values, bits)[s] = a * 64 + b * 16 + c * 4 + d
    <3> HIDE DEF a, b, c, d
    <3>. QED
      BY <2>7
  <2>. QED
    BY <2>8
<1>. QED
  BY <1>3, <1>5, <1>6, <1>7

\* Values of 2 or 4 bits, packed into symbols and unpacked, are the values.
LEMMA UnpackPack ==
    ASSUME NEW bits \in {2, 4}, NEW n \in Nat,
           NEW values \in [1 .. n * (SymbolBits \div bits) -> 0 .. TwoTo(bits) - 1]
    PROVE  /\ Pack(values, bits) = [s \in 1 .. n |-> Pack(values, bits)[s]]
           /\ Unpack(Pack(values, bits), bits) = values
<1> DEFINE per == SymbolBits \div bits
           packed == Pack(values, bits)
           back(v) == (packed[((v - 1) \div per) + 1] \div TwoTo(bits * (per - 1 - ((v - 1) % per))))
                         % TwoTo(bits)
           f == [v \in 1 .. n * per |-> back(v)]
<1>0. per \in {1, 2, 4} /\ (per = 4 => bits = 2) /\ TwoTo(bits) \in {4, 16} /\ n * per \in Nat
  BY SymbolBitsAssumption, Powers
<1>1. packed = [s \in 1 .. n |-> packed[s]] /\ Len(packed) = n
  <2>1. packed = [s \in 1 .. n |-> packed[s]]
    BY Packed
  <2>. QED
    BY <2>1
<1>2. Unpack(packed, bits) = f
  <2>1. Unpack(packed, bits) = Tuple(f)
    BY <1>1 DEF Unpack
  <2> HIDE DEF back, per
  <2>2. f = [v \in 1 .. n * per |-> f[v]]
    OBVIOUS
  <2>. QED
    BY <2>1, <2>2, <1>0, TupleIs
<1>3. ASSUME NEW v \in 1 .. n * per
      PROVE  back(v) = values[v]
  <2>1. CASE per = 1
    <3>1. (v - 1) \div per + 1 = v /\ bits * (per - 1 - ((v - 1) % per)) = 0 /\ v \in 1 .. n
      BY <2>1
    <3>2. packed[v] = values[v]
      BY <2>1, <3>1, Packed
    <3>3. values[v] \in 0 .. TwoTo(bits) - 1
      OBVIOUS
    <3>4. back(v) = (packed[v] \div 1) % TwoTo(bits)
      BY <3>1, Powers
    <3> HIDE DEF back
    <3>. QED
      BY <3>2, <3>3, <3>4, <1>0, SMTT(30)
  <2>2. CASE per = 2
    <3>1. PICK s \in 1 .. n : v = 2 * s - 1 \/ v = 2 * s
      <4>1. (v + 1) \div 2 \in 1 .. n /\ (v = 2 * ((v + 1) \div 2) - 1 \/ v = 2 * ((v + 1) \div 2))
        BY <2>2
      <4>. QED
        BY <4>1
    <3>2. packed[s] = values[2 * s - 1] * TwoTo(bits) + values[2 * s]
      BY <2>2, Packed, ZenonT(30)
    <3>3. {2 * s - 1, 2 * s} \subseteq 1 .. n * per
      BY <2>2
    <3>4. values[2 * s - 1] \in 0 .. TwoTo(bits) - 1 /\ values[2 * s] \in 0 .. TwoTo(bits) - 1
      BY <3>3
    <3> DEFINE a == values[2 * s - 1]
               b == values[2 * s]
               n2 == packed[s]
    <3>9. (n2 \div TwoTo(bits)) % TwoTo(bits) = a /\ (n2 \div 1) % TwoTo(bits) = b
      <4>1. /\ n2 = a * TwoTo(bits) + b
            /\ a \in 0 .. TwoTo(bits) - 1 /\ b \in 0 .. TwoTo(bits) - 1
        BY <3>2, <3>4
      <4> HIDE DEF a, b, n2
      <4>2. CASE TwoTo(bits) = 4
        BY <4>1, <4>2
      <4>3. CASE TwoTo(bits) = 16
        BY <4>1, <4>3
      <4>. QED
        BY <1>0, <4>2, <4>3
    <3>5. CASE v = 2 * s - 1
      <4>1. (v - 1) \div per + 1 = s /\ bits * (per - 1 - ((v - 1) % per)) = bits
        BY <2>2, <3>5
      <4>2. back(v) = (packed[s] \div TwoTo(bits)) % TwoTo(bits)
        BY <4>1
      <4> HIDE DEF back, packed, per
      <4>. QED
        BY <4>2, <3>5, <3>9
    <3>6. CASE v = 2 * s
      <4>1. (v - 1) \div per + 1 = s /\ bits * (per - 1 - ((v - 1) % per)) = 0
        BY <2>2, <3>6, SMTT(30)
      <4>2. back(v) = (packed[s] \div 1) % TwoTo(bits)
        BY <4>1, Powers
      <4> HIDE DEF back, packed, per
      <4>. QED
        BY <4>2, <3>6, <3>9
    <3>. QED
      BY <3>1, <3>5, <3>6
  <2>3. CASE per = 4
    <3>1. PICK s \in 1 .. n : v \in {4 * s - 3, 4 * s - 2, 4 * s - 1, 4 * s}
      <4>1. (v + 3) \div 4 \in 1 .. n
        BY <2>3
      <4>2. v \in {4 * ((v + 3) \div 4) - 3, 4 * ((v + 3) \div 4) - 2, 4 * ((v + 3) \div 4) - 1,
                   4 * ((v + 3) \div 4)}
        BY <2>3
      <4>. QED
        BY <4>1, <4>2
    <3>2. packed[s] = values[4 * s - 3] * 64 + values[4 * s - 2] * 16
                        + values[4 * s - 1] * 4 + values[4 * s]
      BY <2>3, Packed, ZenonT(30)
    <3>3. {4 * s - 3, 4 * s - 2, 4 * s - 1, 4 * s} \subseteq 1 .. n * per
      BY <2>3
    <3>4. /\ values[4 * s - 3] \in 0 .. 3 /\ values[4 * s - 2] \in 0 .. 3
          /\ values[4 * s - 1] \in 0 .. 3 /\ values[4 * s] \in 0 .. 3
      <4>1. TwoTo(bits) - 1 = 3
        BY <2>3, <1>0, Powers
      <4>2. 0 .. TwoTo(bits) - 1 = 0 .. 3
        BY <4>1
      <4> HIDE DEF per
      <4>. QED
        BY <3>3, <4>2 DEF per
    <3>5. (v - 1) \div per + 1 = s /\ TwoTo(bits) = 4 /\ bits = 2
      BY <3>1, <2>3, <1>0, Powers, SMTT(30)
    <3>6. back(v) = (packed[s] \div TwoTo(2 * (4 - 1 - ((v - 1) % 4)))) % 4
      BY <2>3, <3>5
    <3> DEFINE a == values[4 * s - 3]
               b == values[4 * s - 2]
               c == values[4 * s - 1]
               d == values[4 * s]
               n4 == packed[s]
    <3>7. /\ (n4 \div 64) % 4 = a /\ (n4 \div 16) % 4 = b
          /\ (n4 \div 4) % 4 = c /\ (n4 \div 1) % 4 = d
      <4>1. /\ n4 = a * 64 + b * 16 + c * 4 + d
            /\ a \in 0 .. 3 /\ b \in 0 .. 3 /\ c \in 0 .. 3 /\ d \in 0 .. 3
        BY <3>2, <3>4
      <4> HIDE DEF a, b, c, d, n4
      <4>. QED
        BY <4>1, SMTT(30)
    <3> HIDE DEF packed, per
    <3>8. /\ v = 4 * s - 3 => 2 * (4 - 1 - ((v - 1) % 4)) = 6
          /\ v = 4 * s - 2 => 2 * (4 - 1 - ((v - 1) % 4)) = 4
          /\ v = 4 * s - 1 => 2 * (4 - 1 - ((v - 1) % 4)) = 2
          /\ v = 4 * s => 2 * (4 - 1 - ((v - 1) % 4)) = 0
      OBVIOUS
    <3> HIDE DEF back
    <3>9. CASE v = 4 * s - 3
      BY <3>6, <3>7, <3>8, <3>9, Powers
    <3>10. CASE v = 4 * s - 2
      BY <3>6, <3>7, <3>8, <3>10, Powers
    <3>11. CASE v = 4 * s - 1
      BY <3>6, <3>7, <3>8, <3>11, Powers
    <3>12. CASE v = 4 * s
      BY <3>6, <3>7, <3>8, <3>12, Powers
    <3>. QED
      BY <3>1, <3>9, <3>10, <3>11, <3>12
  <2>. QED
    BY <1>0, <2>1, <2>2, <2>3
<1>4. f = values
  <2> HIDE DEF back, per
  <2>. QED
    BY <1>3 DEF per
<1>. QED
  BY <1>1, <1>2, <1>4

LEMMA LayoutsAre ==
    /\ DOMAIN Layouts = {25, 50, 75, 100}
    /\ Layouts[25] = [base |-> 2, detail |-> 0]
    /\ Layouts[50] = [base |-> 4, detail |-> 0]
    /\ Layouts[75] = [base |-> 4, detail |-> 2]
    /\ Layouts[100] = [base |-> 4, detail |-> 4]
BY DEF Layouts

\* A pixel put together again from its two layers has its declared bitplanes.
LEMMA PixelRecombined ==
    ASSUME NEW f \in DOMAIN Layouts, NEW pixel \in 0 .. 255
    PROVE  LET layout == Layouts[f]
               split  == SplitPixel(pixel, layout)
               planes(bits) == (pixel \div TwoTo(8 - bits)) * TwoTo(8 - bits)
           IN  /\ split.base \in 0 .. TwoTo(layout.base) - 1
               /\ layout.detail # 0 => split.detail \in 0 .. TwoTo(layout.detail) - 1
               /\ layout.detail # 0 => RecombinePixel(split.base, split.detail, layout)
                                         = planes(layout.base + layout.detail)
               /\ RecombinePixel(split.base, 0, [layout EXCEPT !.detail = 0])
                    = planes(layout.base)
<1> DEFINE layout == Layouts[f]
           split  == SplitPixel(pixel, layout)
           planes(bits) == (pixel \div TwoTo(8 - bits)) * TwoTo(8 - bits)
           plain  == [layout EXCEPT !.detail = 0]
           Goal   == /\ split.base \in 0 .. TwoTo(layout.base) - 1
                     /\ layout.detail # 0 => split.detail \in 0 .. TwoTo(layout.detail) - 1
                     /\ layout.detail # 0 => RecombinePixel(split.base, split.detail, layout)
                                               = planes(layout.base + layout.detail)
                     /\ RecombinePixel(split.base, 0, plain) = planes(layout.base)
<1>1. /\ split.base = pixel \div TwoTo(8 - layout.base)
      /\ split.detail = (pixel \div TwoTo(4 - layout.detail)) % TwoTo(layout.detail)
      /\ RecombinePixel(split.base, split.detail, layout)
           = split.base * TwoTo(8 - layout.base) + split.detail * TwoTo(4 - layout.detail)
  BY DEF SplitPixel, RecombinePixel
<1>2. layout \in [base : {2, 4}, detail : {0, 2, 4}]
  BY LayoutsAre
<1>3. plain.base = layout.base /\ plain.detail = 0
  BY <1>2
<1>4. RecombinePixel(split.base, 0, plain) = split.base * TwoTo(8 - layout.base) + 0 * TwoTo(4)
  BY <1>3 DEF RecombinePixel
<1>5. split.base * TwoTo(8 - layout.base) + 0 * TwoTo(4) = planes(layout.base)
  <2> HIDE DEF layout
  <2>1. CASE layout.base = 2
    BY <1>1, <2>1, Powers
  <2>2. CASE layout.base = 4
    BY <1>1, <2>2, Powers
  <2>. QED
    BY <1>2, <2>1, <2>2
<1>6. split.base \in 0 .. TwoTo(layout.base) - 1
  <2> HIDE DEF layout
  <2>1. CASE layout.base = 2
    BY <1>1, <2>1, Powers
  <2>2. CASE layout.base = 4
    BY <1>1, <2>2, Powers
  <2>. QED
    BY <1>2, <2>1, <2>2
<1>7. ASSUME layout.detail # 0
      PROVE  /\ split.detail \in 0 .. TwoTo(layout.detail) - 1
             /\ split.base * TwoTo(8 - layout.base) + split.detail * TwoTo(4 - layout.detail)
                  = planes(layout.base + layout.detail)
  <2>1. layout.base = 4 /\ layout.detail \in {2, 4}
    BY <1>7, LayoutsAre
  <2> HIDE DEF layout
  <2>2. CASE layout.detail = 2
    <3>1. /\ TwoTo(8 - layout.base) = 16 /\ TwoTo(4 - layout.detail) = 4
          /\ TwoTo(layout.detail) = 4 /\ TwoTo(8 - (layout.base + layout.detail)) = 4
      BY <2>1, <2>2, Powers
    <3>2. split.base = pixel \div 16 /\ split.detail = (pixel \div 4) % 4
      BY <1>1, <3>1
    <3>3. (pixel \div 16) * 16 + ((pixel \div 4) % 4) * 4 = (pixel \div 4) * 4
      OBVIOUS
    <3>4. (pixel \div 4) % 4 \in 0 .. 3
      OBVIOUS
    <3>. QED
      BY <3>1, <3>2, <3>3, <3>4
  <2>3. CASE layout.detail = 4
    <3>1. /\ TwoTo(8 - layout.base) = 16 /\ TwoTo(4 - layout.detail) = 1
          /\ TwoTo(layout.detail) = 16 /\ TwoTo(8 - (layout.base + layout.detail)) = 1
      BY <2>1, <2>3, Powers
    <3>2. split.base = pixel \div 16 /\ split.detail = (pixel \div 1) % 16
      BY <1>1, <3>1
    <3>3. (pixel \div 16) * 16 + ((pixel \div 1) % 16) * 1 = (pixel \div 1) * 1
      OBVIOUS
    <3>4. (pixel \div 1) % 16 \in 0 .. 15
      OBVIOUS
    <3>. QED
      BY <3>1, <3>2, <3>3, <3>4
  <2>. QED
    BY <2>1, <2>2, <2>3
<1>8. Goal
  <2> HIDE DEF split, layout, planes, plain
  <2>. QED
    BY <1>1, <1>4, <1>5, <1>6, <1>7
<1>. QED
  BY <1>8

\* The layers of an image, as long as the symbols they fill, give back its
\* declared bitplanes, and the Base layer alone gives back its own.
ImageLayers(pixels, layout, nb, nd) ==
    LET raw == RawLayers(pixels, layout)
    IN  /\ raw.base = [i \in 1 .. nb |-> raw.base[i]]
        /\ layout.detail # 0 => raw.detail = [i \in 1 .. nd |-> raw.detail[i]]
        /\ layout.detail = 0 => raw.detail = <<>>
        /\ Reconstruction(raw.base, raw.detail, layout, layout.detail)
             = ProgressiveReference(pixels, layout.base + layout.detail)
        /\ \A other : Reconstruction(raw.base, other, layout, 0)
                        = ProgressiveReference(pixels, layout.base)

LEMMA LayersOfAnImage ==
    ASSUME NEW f \in DOMAIN Layouts, NEW pixels \in Seq(0 .. 255),
           NEW nb \in Nat, nb * SymbolBits = Len(pixels) * Layouts[f].base,
           NEW nd \in Nat, Layouts[f].detail # 0 => nd * SymbolBits = Len(pixels) * Layouts[f].detail
    PROVE  ImageLayers(pixels, Layouts[f], nb, nd)
<1> USE DEF ImageLayers
<1> DEFINE layout == Layouts[f]
           raw == RawLayers(pixels, layout)
           base == [i \in DOMAIN pixels |-> SplitPixel(pixels[i], layout).base]
           detail == [i \in DOMAIN pixels |-> SplitPixel(pixels[i], layout).detail]
           plain == [layout EXCEPT !.detail = 0]
           planes(pixel, bits) == (pixel \div TwoTo(8 - bits)) * TwoTo(8 - bits)
<1>0. /\ layout.base \in {2, 4} /\ layout.detail \in {0, 2, 4}
      /\ layout = [layout EXCEPT !.detail = layout.detail]
  BY LayoutsAre
<1>1. /\ nb * (SymbolBits \div layout.base) = Len(pixels)
      /\ layout.detail # 0 => nd * (SymbolBits \div layout.detail) = Len(pixels)
  <2>. Len(pixels) \in Nat
    OBVIOUS
  <2> HIDE DEF layout
  <2>1. ASSUME NEW n \in Nat, NEW bits \in {2, 4}, n * SymbolBits = Len(pixels) * bits
        PROVE  n * (SymbolBits \div bits) = Len(pixels)
    <3>1. CASE SymbolBits = 4 /\ bits = 2
      BY <2>1, <3>1
    <3>2. CASE SymbolBits = 4 /\ bits = 4
      BY <2>1, <3>2
    <3>3. CASE SymbolBits = 8 /\ bits = 2
      BY <2>1, <3>3
    <3>4. CASE SymbolBits = 8 /\ bits = 4
      BY <2>1, <3>4
    <3>. QED
      BY <3>1, <3>2, <3>3, <3>4, SymbolBitsAssumption
  <2>. QED
    BY <1>0, <2>1 DEF layout
<1>2. DOMAIN pixels = 1 .. Len(pixels) /\ \A i \in DOMAIN pixels : pixels[i] \in 0 .. 255
  <2>1. DOMAIN pixels = 1 .. Len(pixels)
    OBVIOUS
  <2> DEFINE bytes == 0 .. 255
  <2>2. pixels \in Seq(bytes)
    OBVIOUS
  <2> HIDE DEF bytes
  <2>3. \A i \in 1 .. Len(pixels) : pixels[i] \in bytes
    BY <2>2, Elements
  <2>. QED
    BY <2>1, <2>3 DEF bytes
<1>3. /\ base \in [1 .. Len(pixels) -> 0 .. TwoTo(layout.base) - 1]
      /\ layout.detail # 0 => detail \in [1 .. Len(pixels) -> 0 .. TwoTo(layout.detail) - 1]
  <2>1. \A i \in DOMAIN pixels :
           /\ SplitPixel(pixels[i], layout).base \in 0 .. TwoTo(layout.base) - 1
           /\ layout.detail # 0 =>
                 SplitPixel(pixels[i], layout).detail \in 0 .. TwoTo(layout.detail) - 1
    BY <1>2, PixelRecombined, ZenonT(30)
  <2> HIDE DEF layout
  <2>. QED
    BY <1>2, <2>1
<1>4. raw.base = Pack(base, layout.base) /\ (layout.detail # 0 => raw.detail = Pack(detail, layout.detail))
      /\ (layout.detail = 0 => raw.detail = <<>>)
  BY DEF RawLayers
<1> HIDE DEF base, detail, raw
<1>5. /\ raw.base = [i \in 1 .. nb |-> raw.base[i]]
      /\ Unpack(raw.base, layout.base) = base
  <2>1. base \in [1 .. nb * (SymbolBits \div layout.base) -> 0 .. TwoTo(layout.base) - 1]
    BY <1>1, <1>3
  <2>2. layout.base \in {2, 4} /\ nb \in Nat
    BY <1>0
  <2> HIDE DEF layout
  <2>3. Unpack(Pack(base, layout.base), layout.base) = base
    BY <2>1, <2>2, UnpackPack
  <2>4. Pack(base, layout.base) = [i \in 1 .. nb |-> Pack(base, layout.base)[i]]
    BY <2>1, <2>2, UnpackPack
  <2>. QED
    BY <2>3, <2>4, <1>4
<1>6. ASSUME layout.detail # 0
      PROVE  /\ raw.detail = [i \in 1 .. nd |-> raw.detail[i]]
             /\ Unpack(raw.detail, layout.detail) = detail
  <2>1. layout.detail \in {2, 4} /\ raw.detail = Pack(detail, layout.detail)
    BY <1>0, <1>4, <1>6
  <2>2. detail \in [1 .. nd * (SymbolBits \div layout.detail) -> 0 .. TwoTo(layout.detail) - 1]
    BY <1>1, <1>3, <1>6
  <2> HIDE DEF layout
  <2>3. Unpack(Pack(detail, layout.detail), layout.detail) = detail
    BY <2>1, <2>2, UnpackPack
  <2>4. Pack(detail, layout.detail) = [i \in 1 .. nd |-> Pack(detail, layout.detail)[i]]
    BY <2>1, <2>2, UnpackPack
  <2>. QED
    BY <2>1, <2>3, <2>4
<1>7. DOMAIN base = DOMAIN pixels
  BY DEF base
<1>8. ASSUME NEW other
      PROVE  Reconstruction(raw.base, other, layout, 0) = ProgressiveReference(pixels, layout.base)
  <2>1. Reconstruction(raw.base, other, layout, 0)
          = [i \in DOMAIN pixels |-> RecombinePixel(base[i], 0, plain)]
    BY <1>5, <1>7 DEF Reconstruction
  <2>2. \A i \in DOMAIN pixels : RecombinePixel(base[i], 0, plain) = planes(pixels[i], layout.base)
    BY <1>2, PixelRecombined DEF base
  <2>3. ProgressiveReference(pixels, layout.base) = [i \in DOMAIN pixels |-> planes(pixels[i], layout.base)]
    BY DEF ProgressiveReference
  <2> HIDE DEF plain, planes, layout
  <2>. QED
    BY <2>1, <2>2, <2>3
<1>9. Reconstruction(raw.base, raw.detail, layout, layout.detail)
        = ProgressiveReference(pixels, layout.base + layout.detail)
  <2>1. CASE layout.detail = 0
    BY <1>0, <1>8, <2>1
  <2>2. CASE layout.detail # 0
    <3>1. Reconstruction(raw.base, raw.detail, layout, layout.detail)
            = [i \in DOMAIN pixels |->
                 RecombinePixel(base[i], detail[i], [layout EXCEPT !.detail = layout.detail])]
      BY <1>5, <1>6, <1>7, <2>2 DEF Reconstruction
    <3>2. \A i \in DOMAIN pixels : RecombinePixel(base[i], detail[i], layout)
                                     = planes(pixels[i], layout.base + layout.detail)
      BY <1>2, <2>2, PixelRecombined DEF base, detail
    <3>3. ProgressiveReference(pixels, layout.base + layout.detail)
            = [i \in DOMAIN pixels |-> planes(pixels[i], layout.base + layout.detail)]
      BY DEF ProgressiveReference
    <3> HIDE DEF planes, layout
    <3>. QED
      BY <1>0, <3>1, <3>2, <3>3
  <2>. QED
    BY <2>1, <2>2
<1>. QED
  BY <1>4, <1>5, <1>6, <1>8, <1>9 DEF raw

-----------------------------------------------------------------------------
(* Layers                                                                  *)

\* Induction, for a set of numbers.
LEMMA AllNumbers ==
    ASSUME NEW T, 0 \in T, \A n \in Nat : n \in T => n + 1 \in T
    PROVE  \A n \in Nat : n \in T
<1> DEFINE Missing == {n \in Nat : n \notin T}
<1>1. CASE Missing = {}
  BY <1>1
<1>2. CASE Missing # {}
  <2>1. \E m \in Missing : \A n \in Missing : ~ (<<n, m>> \in OpToRel(<, Nat))
    <3>1. IsWellFoundedOn(OpToRel(<, Nat), Nat)
      BY NatLessThanWellFounded
    <3>2. Missing \subseteq Nat
      OBVIOUS
    <3> HIDE DEF Missing
    <3>. QED
      BY <1>2, <3>1, <3>2, WFMin
  <2>2. PICK m \in Missing : \A n \in Missing : ~ (<<n, m>> \in OpToRel(<, Nat))
    BY <2>1
  <2>3. m \in Nat /\ m \notin T /\ m - 1 \in Nat
    OBVIOUS
  <2>4. m - 1 \in Missing
    BY <2>3
  <2>5. ~ (<<m - 1, m>> \in OpToRel(<, Nat))
    BY <2>2, <2>4
  <2>. QED
    BY <2>3, <2>5 DEF OpToRel
<1>. QED
  BY <1>1, <1>2

\* The sums a profile's codewords start at.
Sums(data) ==
    CHOOSE sum : sum = [j \in 0 .. Len(data) |-> IF j = 0 THEN 0 ELSE sum[j - 1] + data[j]]

LEMMA SumsExist ==
    ASSUME NEW data
    PROVE  \A n \in Nat : \E sum : sum = [j \in 0 .. n |-> IF j = 0 THEN 0 ELSE sum[j - 1] + data[j]]
<1> DEFINE Sum(sum, n) == sum = [j \in 0 .. n |-> IF j = 0 THEN 0 ELSE sum[j - 1] + data[j]]
           T == {n \in Nat : \E sum : Sum(sum, n)}
<1>1. 0 \in T
  <2>1. Sum([j \in 0 .. 0 |-> 0], 0)
    OBVIOUS
  <2>. QED
    BY <2>1
<1>2. ASSUME NEW n \in Nat, n \in T
      PROVE  n + 1 \in T
  <2>1. PICK sum : Sum(sum, n)
    BY <1>2
  <2> DEFINE longer == [j \in 0 .. n + 1 |-> IF j = n + 1 THEN sum[n] + data[n + 1] ELSE sum[j]]
  <2>2. longer = [j \in 0 .. n + 1 |-> IF j = 0 THEN 0 ELSE longer[j - 1] + data[j]]
    <3>1. ASSUME NEW j \in 0 .. n + 1
          PROVE  longer[j] = IF j = 0 THEN 0 ELSE longer[j - 1] + data[j]
      <4>1. CASE j = n + 1
        BY <4>1
      <4>2. CASE j # n + 1
        BY <2>1, <4>2
      <4>. QED
        BY <4>1, <4>2
    <3>. QED
      BY <3>1
  <2>3. Sum(longer, n + 1)
    BY <2>2
  <2> HIDE DEF Sum, longer
  <2>. QED
    BY <2>3
<1>3. \A n \in Nat : n \in T
  <2> HIDE DEF T
  <2>. QED
    BY <1>1, <1>2, AllNumbers
<1>. QED
  BY <1>3

LEMMA OffsetSteps ==
    ASSUME NEW profile, profile.data \in Seq(Nat)
    PROVE  /\ Offset(profile, 1) = 0
           /\ \A i \in 1 .. Len(profile.data) :
                 Offset(profile, i + 1) = Offset(profile, i) + profile.data[i]
           /\ \A i \in 1 .. Len(profile.data) + 1 : Offset(profile, i) \in Nat
<1> DEFINE n == Len(profile.data)
           sum == Sums(profile.data)
<1>0. n \in Nat /\ \A i \in 1 .. n : profile.data[i] \in Nat
  BY Elements
<1>1. sum = [j \in 0 .. n |-> IF j = 0 THEN 0 ELSE sum[j - 1] + profile.data[j]]
  BY <1>0, SumsExist DEF Sums
<1>2. \A i : Offset(profile, i) = sum[i - 1]
  BY DEF Offset, Sums
<1> HIDE DEF sum
<1>3. \A j \in 1 .. n : sum[j] = sum[j - 1] + profile.data[j]
  <2>1. \A j \in 0 .. n : sum[j] = IF j = 0 THEN 0 ELSE sum[j - 1] + profile.data[j]
    BY <1>1, Zenon
  <2>. QED
    BY <2>1
<1>4. sum[0] = 0
  BY <1>0, <1>1
<1> DEFINE T == {j \in Nat : j <= n => sum[j] \in Nat}
<1>5. \A j \in Nat : j \in T
  <2>1. 0 \in T
    BY <1>4
  <2>2. ASSUME NEW j \in Nat, j \in T PROVE j + 1 \in T
    <3>1. CASE j + 1 <= n
      <4>1. sum[j] \in Nat /\ profile.data[j + 1] \in Nat
        BY <2>2, <3>1, <1>0
      <4>2. sum[j + 1] = sum[j] + profile.data[j + 1]
        BY <3>1, <1>3
      <4>. QED
        BY <4>1, <4>2
    <3>2. CASE ~ (j + 1 <= n)
      BY <3>2
    <3>. QED
      BY <3>1, <3>2
  <2> HIDE DEF T
  <2>. QED
    BY <2>1, <2>2, AllNumbers
<1>6. \A i \in 1 .. n + 1 : Offset(profile, i) \in Nat
  BY <1>0, <1>2, <1>5
<1>7. \A i \in 1 .. n : Offset(profile, i + 1) = Offset(profile, i) + profile.data[i]
  BY <1>0, <1>2, <1>3
<1>. QED
  BY <1>2, <1>4, <1>6, <1>7

LEMMA NoSequence ==
    ASSUME NEW n \in Nat, NEW s, DOMAIN s = 1 .. n
    PROVE  s # Failure
BY FailureAssumption

\* A layer is given up exactly if something of it failed; what is decoded of
\* it is as long as what was encoded.
LEMMA LayerDecoded ==
    ASSUME NEW received, NEW profile, Len(profile.data) \in Nat, RawSymbols(profile) \in Nat
    PROVE  LET layer == DecodeLayer(received, profile)
           IN  /\ layer.data = Failure <=> layer.failures # {}
               /\ layer.data # Failure =>
                     layer.data = [i \in 1 .. RawSymbols(profile) |-> layer.data[i]]
<1> DEFINE n == Len(profile.data)
           results == Tuple([i \in 1 .. n |->
                         DecodeCodeword(Codeword(received, i), profile.data[i])])
           padded == Seqs!FlattenSeq([i \in 1 .. n |-> results[i].data])
           blank == AllZero(SubSeq(padded, RawSymbols(profile) + 1, InputSymbols(profile)))
           failed == {i \in 0 .. n - 1 : ~ results[i + 1].success}
           layer == DecodeLayer(received, profile)
<1>1. layer = IF \A i \in 1 .. n : results[i].success
              THEN IF blank THEN [data |-> SubSeq(padded, 1, RawSymbols(profile)), failures |-> {}]
                   ELSE [data |-> Failure, failures |-> {n}]
              ELSE [data |-> Failure, failures |-> failed]
  BY DEF DecodeLayer
<1> HIDE DEF results, blank, layer
<1>2. CASE ~ \A i \in 1 .. n : results[i].success
  <2>1. PICK i \in 1 .. n : ~ results[i].success
    BY <1>2
  <2>2. i - 1 \in failed
    BY <2>1
  <2> HIDE DEF failed
  <2>. QED
    BY <1>1, <1>2, <2>2 DEF layer
<1>3. CASE (\A i \in 1 .. n : results[i].success) /\ blank
  <2> DEFINE data == SubSeq(padded, 1, RawSymbols(profile))
  <2>1. layer = [data |-> data, failures |-> {}]
    BY <1>1, <1>3
  <2>2. data = [i \in 1 .. RawSymbols(profile) |-> data[i]]
    <3> HIDE DEF padded
    <3>. QED
      OBVIOUS
  <2> HIDE DEF data
  <2>3. data # Failure
    BY <2>2, NoSequence
  <2>. QED
    BY <2>1, <2>2, <2>3 DEF layer
<1>4. CASE (\A i \in 1 .. n : results[i].success) /\ ~ blank
  BY <1>1, <1>4 DEF layer
<1>. QED
  BY <1>2, <1>3, <1>4

\* The profiles of a job's layers: what they take is what the layers have.
LEMMA ProfilesFit ==
    ASSUME NEW j \in Jobs
    PROVE  LET layout == Layouts[j.fraction]
               profile == ProfilesFor(j.method, layout)
           IN  /\ \A l \in {"base", "detail"} :
                     /\ profile[l].data \in Seq(1 .. CodewordSymbols - 1) /\ profile[l].padding \in Nat
                     /\ InputSymbols(profile[l]) = RawSymbols(profile[l]) + profile[l].padding
                     /\ RawSymbols(profile[l]) \in Nat
                     /\ RawSymbols(profile[l]) * SymbolBits = Len(j.pixels) * layout[l]
<1> DEFINE layout == Layouts[j.fraction]
           profile == ProfilesFor(j.method, layout)
<1>0. /\ layout.base \in {2, 4} /\ layout.detail \in {0, 2, 4}
      /\ j.pixels \in Seq(0 .. 255)
  BY JobsAssumption, LayoutsAre DEF Identity
<1>1. /\ profile.base \in {Profiles[kind][layout.base] : kind \in LayerKinds}
      /\ layout.detail # 0 => profile.detail \in {Profiles[kind][layout.detail] : kind \in LayerKinds}
      /\ layout.detail = 0 => profile.detail = EmptyProfile
  <2>1. profile = [base   |-> IF layout.base = 0 THEN EmptyProfile
                              ELSE Profiles[IF Unequal(j.method) THEN "base" ELSE "symmetric"]
                                           [layout.base],
                   detail |-> IF layout.detail = 0 THEN EmptyProfile
                              ELSE Profiles[IF Unequal(j.method) THEN "detail" ELSE "symmetric"]
                                           [layout.detail]]
    BY DEF ProfilesFor
  <2>2. layout.base # 0 /\ (IF Unequal(j.method) THEN "base" ELSE "symmetric") \in LayerKinds
        /\ (IF Unequal(j.method) THEN "detail" ELSE "symmetric") \in LayerKinds
    BY <1>0 DEF LayerKinds
  <2> HIDE DEF layout, profile
  <2>. QED
    BY <2>1, <2>2
<1>2. Len(j.pixels) \in Nat
  BY <1>0, Elements
<1>3. ASSUME NEW kind \in LayerKinds, NEW bits \in {2, 4}, NEW p, p = Profiles[kind][bits]
      PROVE  /\ p.data \in Seq(1 .. CodewordSymbols - 1) /\ p.padding \in Nat
             /\ InputSymbols(p) = RawSymbols(p) + p.padding
             /\ RawSymbols(p) \in Nat
             /\ RawSymbols(p) * SymbolBits = Len(j.pixels) * bits
  <2>1. p.data \in Seq(1 .. CodewordSymbols - 1) /\ p.padding \in Nat
    BY <1>3, ProfilesAssumption
  <2>2. RawSymbols(p) * SymbolBits = Len(j.pixels) * bits
    BY <1>3, JobsAssumption DEF Fit
  <2>3. p.data \in Seq(Nat) /\ Len(p.data) \in Nat
    <3>1. 1 .. CodewordSymbols - 1 \subseteq Nat
      OBVIOUS
    <3>2. p.data \in Seq(Nat)
      BY <2>1, <3>1, WiderElements
    <3>. QED
      BY <3>2
  <2>4. InputSymbols(p) \in Nat
    BY <2>3, OffsetSteps DEF InputSymbols
  <2>5. RawSymbols(p) \in Int /\ InputSymbols(p) = RawSymbols(p) + p.padding
    BY <2>1, <2>4 DEF RawSymbols
  <2>6. RawSymbols(p) >= 0
    <3>1. CASE SymbolBits = 4
      BY <3>1, <2>2, <2>5, <1>2
    <3>2. CASE SymbolBits = 8
      BY <3>2, <2>2, <2>5, <1>2
    <3>. QED
      BY <3>1, <3>2, SymbolBitsAssumption
  <2>. QED
    BY <2>1, <2>2, <2>5, <2>6
<1>4. ASSUME NEW p, p = EmptyProfile
      PROVE  /\ p.data \in Seq(1 .. CodewordSymbols - 1) /\ p.padding = 0
             /\ InputSymbols(p) = 0 /\ RawSymbols(p) = 0
  <2>1. p.data = <<>> /\ p.padding = 0
    BY <1>4 DEF EmptyProfile
  <2>2. p.data \in Seq(Nat) /\ Len(p.data) = 0 /\ p.data \in Seq(1 .. CodewordSymbols - 1)
    BY <2>1
  <2>3. Offset(p, 1) = 0
    BY <2>2, OffsetSteps
  <2>. QED
    BY <2>1, <2>2, <2>3 DEF InputSymbols, RawSymbols
<1>5. ASSUME NEW l \in {"base", "detail"}
      PROVE  /\ profile[l].data \in Seq(1 .. CodewordSymbols - 1) /\ profile[l].padding \in Nat
             /\ InputSymbols(profile[l]) = RawSymbols(profile[l]) + profile[l].padding
             /\ RawSymbols(profile[l]) \in Nat
             /\ RawSymbols(profile[l]) * SymbolBits = Len(j.pixels) * layout[l]
  <2> HIDE DEF layout, profile
  <2>1. CASE l = "base"
    <3>1. PICK kind \in LayerKinds : profile.base = Profiles[kind][layout.base]
      BY <1>1
    <3>. QED
      BY <2>1, <3>1, <1>0, <1>3, ZenonT(30)
  <2>2. CASE l = "detail" /\ layout.detail # 0
    <3>1. PICK kind \in LayerKinds : profile.detail = Profiles[kind][layout.detail]
      BY <1>1, <2>2
    <3>2. layout.detail \in {2, 4}
      BY <1>0, <2>2
    <3>. QED
      BY <2>2, <3>1, <3>2, <1>3
  <2>3. CASE l = "detail" /\ layout.detail = 0
    <3>1. 0 * SymbolBits = 0 /\ Len(j.pixels) * 0 = 0
      BY <1>2, SymbolBitsAssumption
    <3>. QED
      BY <2>3, <3>1, <1>1, <1>4
  <2>. QED
    BY <2>1, <2>2, <2>3
<1>. QED
  BY <1>5

-----------------------------------------------------------------------------
(* The verdict                                                             *)

\* A digest names its pair: two layers of different pairs never share one.
LEMMA DigestNamesThePair ==
    \A config, pair, method, l : LayerDigest(config, pair, method, l)[2] = pair
BY DEF LayerDigest

\* What is concluded from two decoded layers.
Conclusions(r, header, pair, mismatch, base, detail) ==
    /\ r.base = base.data /\ r.detail = detail.data
    /\ r.headerValid => ~ mismatch
    /\ r.headerValid =>
          header.seeds = {LayerDigest(header.config, pair, header.method, "base"),
                          LayerDigest(header.config, pair, header.method, "detail")}
    /\ r.baseCrc = "valid" => base.data # Failure /\ base.data = header.baseCrc
    /\ r.validity = "complete_valid_recovery" =>
          /\ r.headerValid /\ r.crcValid /\ r.failures = {}
          /\ base.data # Failure /\ detail.data # Failure
          /\ base.data \o detail.data = header.crc
          /\ header.format = 2 => base.data = header.baseCrc
          /\ header.format = 2 /\ header.layout.detail # 0 => detail.data = header.detailCrc
          /\ r.recovered = Reconstruction(base.data, detail.data, header.layout,
                                          header.layout.detail)
    /\ r.validity # "complete_valid_recovery" => r.failures # {}
    /\ r.validity = "valid_base_only_recovery" => r.headerValid
    /\ r.validity = "header_failure" <=> ~ r.headerValid
    /\ r.headerValid /\ r.baseCrc = "valid" =>
          r.baseReconstruction = Reconstruction(base.data, <<>>, header.layout, 0)

LEMMA Concluded ==
    ASSUME NEW header, NEW pair, NEW mismatch \in BOOLEAN, NEW base, NEW detail,
           base.data = Failure <=> base.failures # {},
           detail.data = Failure <=> detail.failures # {},
           header.format \in {1, 2}
    PROVE  Conclusions(Recovery(header, pair, mismatch, base, detail),
                       header, pair, mismatch, base, detail)
<1> USE DEF Conclusions
<1> DEFINE r == Recovery(header, pair, mismatch, base, detail)
           seeds == {LayerDigest(header.config, pair, header.method, "base"),
                     LayerDigest(header.config, pair, header.method, "detail")}
           baseCrc   == IF header.format = 1 THEN "none" ELSE Crc(base.data, header.baseCrc)
           detailCrc == IF header.format = 1 \/ header.layout.detail = 0 THEN "none"
                        ELSE Crc(detail.data, header.detailCrc)
           both == base.data # Failure /\ detail.data # Failure
           crcValid == both /\ base.data \o detail.data = header.crc
           headerValid == ~mismatch /\ header.seeds = seeds
           complete == headerValid /\ crcValid /\ "invalid" \notin {baseCrc, detailCrc}
           failures == {f \in {"header"} : ~headerValid}
                        \cup {f \in {"reed_solomon"} : base.failures \cup detail.failures # {}}
                        \cup {f \in {"payload_integrity"} :
                                 \/ both /\ ~crcValid
                                 \/ base.data # Failure /\ baseCrc = "invalid"
                                 \/ detail.data # Failure /\ detailCrc = "invalid"}
<1>1. /\ r.base = base.data /\ r.detail = detail.data
      /\ r.headerValid = headerValid /\ r.crcValid = crcValid
      /\ r.baseCrc = baseCrc /\ r.failures = failures
      /\ r.validity = Validity(headerValid, complete, base.data, baseCrc)
      /\ complete => r.recovered = Reconstruction(base.data, detail.data, header.layout,
                                                  header.layout.detail)
      /\ headerValid /\ baseCrc = "valid" =>
            r.baseReconstruction = Reconstruction(base.data, <<>>, header.layout, 0)
  BY DEF Recovery
<1>2. /\ r.validity = "complete_valid_recovery" <=> complete
      /\ r.validity = "header_failure" <=> ~ headerValid
      /\ r.validity = "valid_base_only_recovery" => headerValid
  <2> HIDE DEF headerValid, complete, baseCrc, r
  <2>1. complete => headerValid
    BY DEF complete
  <2>. QED
    BY <1>1, <2>1 DEF Validity
<1>3. /\ baseCrc \in {"none", "valid", "invalid"} /\ detailCrc \in {"none", "valid", "invalid"}
      /\ baseCrc = "valid" => base.data # Failure /\ base.data = header.baseCrc
      /\ header.format = 2 /\ baseCrc # "invalid" => base.data = header.baseCrc
      /\ header.format = 2 /\ header.layout.detail # 0 /\ detailCrc # "invalid" =>
            detail.data = header.detailCrc
  BY DEF Crc
<1> HIDE DEF r, seeds, baseCrc, detailCrc
<1>4. complete => failures = {}
  BY <1>3
<1>5. ~ complete => failures # {}
  <2>1. CASE ~ headerValid
    <3>1. "header" \in failures
      BY <2>1
    <3>. QED
      BY <3>1
  <2>2. CASE ~ both
    <3>1. "reed_solomon" \in failures
      BY <2>2
    <3>. QED
      BY <3>1
  <2>3. CASE both /\ (~ crcValid \/ "invalid" \in {baseCrc, detailCrc})
    <3>1. "payload_integrity" \in failures
      BY <2>3
    <3>. QED
      BY <3>1
  <2>. QED
    BY <2>1, <2>2, <2>3
<1>6. complete => /\ both /\ base.data \o detail.data = header.crc /\ headerValid /\ crcValid
                  /\ header.format = 2 => base.data = header.baseCrc
                  /\ header.format = 2 /\ header.layout.detail # 0 => detail.data = header.detailCrc
  BY <1>3
<1> HIDE DEF complete, failures
<1>. QED
  BY <1>1, <1>2, <1>3, <1>4, <1>5, <1>6 DEF r, seeds

\* A sequence of n elements, whatever they are.
Word(s, n) == s = [i \in 1 .. n |-> s[i]]

LEMMA SplitConcatenation ==
    ASSUME NEW n \in Nat, NEW m \in Nat, NEW a, NEW b, NEW c, NEW d,
           Word(a, n), Word(b, n), Word(c, m), Word(d, m), a \o c = b \o d
    PROVE  a = b /\ c = d
<1> USE DEF Word
<1>1. Len(a) = n /\ Len(b) = n /\ Len(c) = m /\ Len(d) = m
  OBVIOUS
<1>2. ASSUME NEW i \in 1 .. n
      PROVE  a[i] = b[i]
  <2>1. (a \o c)[i] = a[i] /\ (b \o d)[i] = b[i]
    BY <1>1
  <2>. QED
    BY <2>1
<1>3. ASSUME NEW i \in 1 .. m
      PROVE  c[i] = d[i]
  <2>1. (a \o c)[i + n] = c[i] /\ (b \o d)[i + n] = d[i]
    BY <1>1
  <2>. QED
    BY <2>1
<1>4. [i \in 1 .. n |-> a[i]] = [i \in 1 .. n |-> b[i]]
  BY <1>2
<1>5. [i \in 1 .. m |-> c[i]] = [i \in 1 .. m |-> d[i]]
  BY <1>3
<1>. QED
  BY <1>4, <1>5, Zenon

SameReader(who, j) ==
    /\ who.pair = j.pair /\ who.method = j.method
    /\ who.config = j.config /\ who.fraction = j.fraction

\* What an outcome may say to who of the job's stream.
Honest(o, who, j) ==
    LET layout == Layouts[j.fraction]
    IN  /\ Success(o) <=> o.validity = "complete_valid_recovery"
        /\ o.validity \in {"complete_valid_recovery", "valid_base_only_recovery",
                           "header_valid_no_valid_layer", "header_failure"}
        /\ o.validity = "header_failure" <=> ~ o.headerValid
        /\ o.failures = {} <=> Success(o)
        /\ Success(o) => SameReader(who, j)
        /\ Success(o) =>
              o.recovered = ProgressiveReference(j.pixels, layout.base + layout.detail)
        /\ BaseOnlySuccess(o) => SameReader(who, j)
        /\ BaseOnlySuccess(o) =>
              o.baseReconstruction = ProgressiveReference(j.pixels, layout.base)

SentHeader(j) ==
    EncodeBitstream(j.pixels, j.pair, j.method, j.config, Layouts[j.fraction]).header

\* A header sent for the job, and layers as long as the job's.
HeaderOf(h, j) ==
    LET layout == Layouts[j.fraction]
        raw == RawLayers(j.pixels, layout)
    IN  /\ h.format = j.config.format /\ h.method = j.method /\ h.layout = layout
        /\ h.config = j.config /\ h.crc = raw.base \o raw.detail
        /\ h.baseCrc = raw.base /\ h.detailCrc = raw.detail
        /\ h.seeds = {LayerDigest(j.config, j.pair, j.method, l) : l \in {"base", "detail"}}

Decoded(layer, n) ==
    /\ layer.data = Failure <=> layer.failures # {}
    /\ layer.data # Failure => layer.data = [i \in 1 .. n |-> layer.data[i]]

LEMMA RecoveryIsHonest ==
    ASSUME NEW j \in Jobs, Encodable(j.method, j.config, Layouts[j.fraction]),
           NEW who, who.fraction \in DOMAIN Layouts,
           NEW h, HeaderOf(h, j),
           NEW mismatch,
           mismatch = Mismatch(h, who.pair, who.method, who.config, Layouts[who.fraction]),
           NEW nb \in Nat, nb * SymbolBits = Len(j.pixels) * Layouts[j.fraction].base,
           NEW nd \in Nat, nd * SymbolBits = Len(j.pixels) * Layouts[j.fraction].detail,
           NEW base, Decoded(base, nb), NEW detail, Decoded(detail, nd)
    PROVE  Honest(Recovery(h, who.pair, mismatch, base, detail), who, j)
<1> DEFINE layout == Layouts[j.fraction]
           raw == RawLayers(j.pixels, layout)
           o == Recovery(h, who.pair, mismatch, base, detail)
           complete == o.validity = "complete_valid_recovery"
           reference(bits) == ProgressiveReference(j.pixels, bits)
<1>1. /\ h.format = j.config.format /\ h.method = j.method /\ h.layout = layout
      /\ h.config = j.config /\ h.crc = raw.base \o raw.detail
      /\ h.baseCrc = raw.base /\ h.detailCrc = raw.detail
      /\ h.seeds = {LayerDigest(j.config, j.pair, j.method, l) : l \in {"base", "detail"}}
  BY DEF HeaderOf
<1>2. /\ j.fraction \in DOMAIN Layouts /\ j.pixels \in Seq(0 .. 255) /\ j.config.format \in {1, 2}
  BY JobsAssumption DEF Identity
<1>3. /\ raw.base = [i \in 1 .. nb |-> raw.base[i]]
      /\ layout.detail # 0 => raw.detail = [i \in 1 .. nd |-> raw.detail[i]]
      /\ Reconstruction(raw.base, raw.detail, layout, layout.detail)
           = reference(layout.base + layout.detail)
      /\ \A other : Reconstruction(raw.base, other, layout, 0) = reference(layout.base)
  <2>1. ImageLayers(j.pixels, layout, nb, nd)
    BY <1>2, LayersOfAnImage
  <2> HIDE DEF layout
  <2>. QED
    BY <2>1 DEF ImageLayers
<1>4. mismatch \in BOOLEAN /\ (~ mismatch => who.method = j.method /\ who.config = j.config
                                             /\ who.fraction = j.fraction)
  <2>1. /\ mismatch \in BOOLEAN
        /\ ~ mismatch => /\ h.method = who.method /\ h.config = who.config
                         /\ h.layout = Layouts[who.fraction]
    BY DEF Mismatch
  <2>2. Layouts[who.fraction] = layout => who.fraction = j.fraction
    BY <1>2, LayoutsAre
  <2> HIDE DEF layout
  <2>. QED
    BY <1>1, <2>1, <2>2
<1>5. /\ o.base = base.data /\ o.detail = detail.data
      /\ o.headerValid => ~ mismatch
      /\ o.headerValid =>
            h.seeds = {LayerDigest(h.config, who.pair, h.method, "base"),
                       LayerDigest(h.config, who.pair, h.method, "detail")}
      /\ o.baseCrc = "valid" => base.data # Failure /\ base.data = h.baseCrc
      /\ complete =>
            /\ o.headerValid /\ o.crcValid /\ o.failures = {}
            /\ base.data # Failure /\ detail.data # Failure
            /\ base.data \o detail.data = h.crc
            /\ h.format = 2 => base.data = h.baseCrc
            /\ h.format = 2 /\ h.layout.detail # 0 => detail.data = h.detailCrc
            /\ o.recovered = Reconstruction(base.data, detail.data, h.layout, h.layout.detail)
      /\ ~ complete => o.failures # {}
      /\ o.validity = "header_failure" <=> ~ o.headerValid
      /\ o.headerValid /\ o.baseCrc = "valid" =>
            o.baseReconstruction = Reconstruction(base.data, <<>>, h.layout, 0)
  <2>1. h.format \in {1, 2}
    BY <1>1, <1>2
  <2>2. Conclusions(o, h, who.pair, mismatch, base, detail)
    BY <2>1, <1>4, Concluded DEF Decoded
  <2> HIDE DEF o
  <2>. QED
    BY <2>2 DEF Conclusions
<1>6. o.validity \in {"complete_valid_recovery", "valid_base_only_recovery",
                      "header_valid_no_valid_layer", "header_failure"}
  BY DEF Recovery, Validity
<1> HIDE DEF o, raw, layout, reference
<1>7. o.headerValid => SameReader(who, j)
  <2>1. SUFFICES ASSUME o.headerValid
                 PROVE  who.pair = j.pair
    BY <1>4, <1>5 DEF SameReader
  <2>2. {LayerDigest(j.config, j.pair, j.method, l) : l \in {"base", "detail"}}
          = {LayerDigest(j.config, who.pair, j.method, "base"),
             LayerDigest(j.config, who.pair, j.method, "detail")}
    BY <2>1, <1>1, <1>5
  <2>3. LayerDigest(j.config, j.pair, j.method, "base")
          \in {LayerDigest(j.config, who.pair, j.method, "base"),
               LayerDigest(j.config, who.pair, j.method, "detail")}
    BY <2>2
  <2>. QED
    BY <2>3, DigestNamesThePair
<1>8. complete => /\ base.data = raw.base
                  /\ layout.detail # 0 => detail.data = raw.detail
  <2>1. CASE j.config.format = 2
    BY <2>1, <1>1, <1>5
  <2>2. CASE j.config.format = 1
    <3>1. layout.detail # 0
      BY <2>2, LayoutsAre DEF Encodable, layout
    <3>2. SUFFICES ASSUME complete
                   PROVE  base.data = raw.base /\ detail.data = raw.detail
      OBVIOUS
    <3>3. base.data \o detail.data = raw.base \o raw.detail
      BY <3>2, <1>1, <1>5
    <3>4. Word(base.data, nb) /\ Word(detail.data, nd)
      BY <3>2, <1>5 DEF Decoded, Word
    <3>5. Word(raw.base, nb) /\ Word(raw.detail, nd)
      BY <3>1, <1>3 DEF Word
    <3>. QED
      BY <3>3, <3>4, <3>5, SplitConcatenation
  <2>. QED
    BY <1>2, <2>1, <2>2
<1>9. complete => o.recovered = reference(layout.base + layout.detail)
  <2>1. CASE layout.detail = 0
    <3>1. layout.base + 0 = layout.base
      BY <1>2, LayoutsAre DEF layout
    <3>2. Reconstruction(raw.base, detail.data, layout, 0) = reference(layout.base)
      BY <1>3, Zenon
    <3>3. complete => o.recovered = Reconstruction(raw.base, detail.data, layout, 0)
      BY <2>1, <1>1, <1>5, <1>8
    <3>. QED
      BY <2>1, <3>1, <3>2, <3>3
  <2>2. CASE layout.detail # 0
    BY <2>2, <1>1, <1>3, <1>5, <1>8
  <2>. QED
    BY <2>1, <2>2
<1>10. complete => o.recovered # Failure
  <2>1. Len(j.pixels) \in Nat /\ DOMAIN j.pixels = 1 .. Len(j.pixels)
    BY <1>2, Elements
  <2>2. DOMAIN reference(layout.base + layout.detail) = 1 .. Len(j.pixels)
    BY <2>1 DEF ProgressiveReference, reference
  <2>. QED
    BY <2>1, <2>2, <1>9, NoSequence
<1>11. Success(o) <=> complete
  BY <1>5, <1>10 DEF Success
<1>12. BaseOnlySuccess(o) => /\ SameReader(who, j)
                             /\ o.baseReconstruction = reference(layout.base)
  BY <1>1, <1>3, <1>5, <1>7 DEF BaseOnlySuccess
<1>. QED
  BY <1>5, <1>6, <1>7, <1>9, <1>11, <1>12 DEF Honest, o, layout, reference

LEMMA HeaderSent ==
    ASSUME NEW j
    PROVE  HeaderOf(SentHeader(j), j)
BY DEF HeaderOf, SentHeader, EncodeBitstream, Header

LEMMA BodyIsHonest ==
    ASSUME NEW j \in Jobs, Encodable(j.method, j.config, Layouts[j.fraction]),
           NEW who, who.fraction \in DOMAIN Layouts, NEW body, NEW mismatch,
           mismatch = Mismatch(SentHeader(j), who.pair, who.method, who.config,
                               Layouts[who.fraction])
    PROVE  Honest(DecodeBody(SentHeader(j), body, who.pair, mismatch), who, j)
<1> DEFINE layout == Layouts[j.fraction]
           profile == ProfilesFor(j.method, layout)
           h == SentHeader(j)
           parts == SplitBody(j.method, body, Len(profile.base.data), Len(profile.detail.data))
           layer(l) == DecodeLayer(Encoded(parts[l], LayerDigest(j.config, who.pair, j.method, l)),
                                   profile[l])
           nb == RawSymbols(profile.base)
           nd == RawSymbols(profile.detail)
<1>1. HeaderOf(h, j)
  BY HeaderSent
<1>2. h.method = j.method /\ h.layout = layout /\ h.config = j.config
  BY <1>1 DEF HeaderOf
<1>3. DecodeBody(h, body, who.pair, mismatch)
        = Recovery(h, who.pair, mismatch, layer("base"), layer("detail"))
  <2> HIDE DEF h, layout
  <2>. QED
    BY <1>2 DEF DecodeBody, DecodeTransport
<1>4. /\ nb \in Nat /\ nd \in Nat
      /\ nb * SymbolBits = Len(j.pixels) * layout.base
      /\ nd * SymbolBits = Len(j.pixels) * layout.detail
      /\ Len(profile.base.data) \in Nat /\ Len(profile.detail.data) \in Nat
  BY ProfilesFit
<1> HIDE DEF parts, profile
<1>5. Decoded(layer("base"), nb) /\ Decoded(layer("detail"), nd)
  BY <1>4, LayerDecoded DEF Decoded
<1> HIDE DEF h, layer, nb, nd
<1>. QED
  BY <1>1, <1>3, <1>4, <1>5, RecoveryIsHonest DEF h

\* Whatever symbols are extracted, the outcome is honest to whoever reads it.
LEMMA StreamIsHonest ==
    ASSUME NEW j \in Jobs, Encodable(j.method, j.config, Layouts[j.fraction]),
           NEW who, who.fraction \in DOMAIN Layouts, NEW symbols
    PROVE  Honest(DecodeBitstream(symbols, SentHeader(j), who.pair, who.method, who.config,
                                  Layouts[who.fraction]), who, j)
<1> DEFINE h == SentHeader(j)
           mismatch == Mismatch(h, who.pair, who.method, who.config, Layouts[who.fraction])
           body == SubSeq(symbols, CodewordSymbols + 1, Len(symbols))
           o == DecodeBitstream(symbols, h, who.pair, who.method, who.config,
                                Layouts[who.fraction])
<1>0. mismatch \in BOOLEAN
  BY DEF Mismatch
<1>1. CASE ~ DecodeHeader(SubSeq(symbols, 1, CodewordSymbols))
  <2>1. o = Unread(FALSE, {"header"}, "header_failure")
    BY <1>1 DEF DecodeBitstream, HeaderFailure
  <2>. QED
    BY <2>1 DEF Honest, Success, BaseOnlySuccess, Unread
<1>2. CASE DecodeHeader(SubSeq(symbols, 1, CodewordSymbols)) /\ Len(symbols) # h.symbols
  <2>1. o = Unread(~mismatch, {"transport"} \cup {f \in {"header"} : mismatch},
                   IF mismatch THEN "header_failure" ELSE "header_valid_no_valid_layer")
    BY <1>2 DEF DecodeBitstream
  <2> HIDE DEF mismatch, o
  <2>2. CASE mismatch
    <3>1. o.failures # {} /\ o.headerValid = FALSE /\ o.validity = "header_failure"
          /\ o.crcValid = FALSE
      BY <2>1, <2>2 DEF Unread
    <3>2. Honest(o, who, j)
      BY <3>1 DEF Honest, Success, BaseOnlySuccess
    <3>. QED
      BY <3>2 DEF o
  <2>3. CASE ~ mismatch
    <3>1. /\ o.failures # {} /\ o.headerValid = TRUE
          /\ o.validity = "header_valid_no_valid_layer" /\ o.crcValid = FALSE
      BY <2>1, <2>3 DEF Unread
    <3>2. Honest(o, who, j)
      BY <3>1 DEF Honest, Success, BaseOnlySuccess
    <3>. QED
      BY <3>2 DEF o
  <2>. QED
    BY <2>2, <2>3
<1>3. CASE DecodeHeader(SubSeq(symbols, 1, CodewordSymbols)) /\ Len(symbols) = h.symbols
  <2>1. o = DecodeBody(h, body, who.pair, mismatch)
    BY <1>3 DEF DecodeBitstream
  <2> HIDE DEF o, body
  <2>2. Honest(o, who, j)
    BY <2>1, BodyIsHonest
  <2>. QED
    BY <2>2 DEF o
<1>. QED
  BY <1>1, <1>2, <1>3

-----------------------------------------------------------------------------
(* What every state of a round trip keeps                                  *)

Stranger(who) == who.fraction \in DOMAIN Layouts

Started ==
    /\ phase \in {"idle", "stego", "received", "read"}
    /\ phase # "idle" =>
          /\ job \in Jobs /\ Encodable(job.method, job.config, Layouts[job.fraction])
          /\ Capable(job.method, job.fraction)
          /\ encoded = EncodeBitstream(job.pixels, job.pair, job.method, job.config,
                                       Layouts[job.fraction])
    /\ phase # "read" => severity = None

ReadHonestly == phase = "read" => Honest(outcome, reader, job)

Diagnosed ==
    Own => LET symbols == ExtractSymbols(stego, SlotPlan(job.method, job.fraction, job.scores))
           IN  /\ outcome = DecodeBitstream(symbols, encoded.header, job.pair, job.method,
                                            job.config, Layouts[job.fraction])
               /\ severity = EvaluateSeverity(encoded, symbols, job.pair, outcome)

CodecInv == Started /\ ReadHonestly /\ Diagnosed

LEMMA EmbedKeeps ==
    ASSUME CodecInv, NEW j \in Jobs, NEW feasible, Embed(j, feasible)
    PROVE  CodecInv'
BY DEF CodecInv, Started, ReadHonestly, Diagnosed, Own, Embed

LEMMA ChannelKeeps ==
    ASSUME CodecInv, NEW burst, Channel(burst)
    PROVE  CodecInv'
BY DEF CodecInv, Started, ReadHonestly, Diagnosed, Own, Channel

LEMMA ExtractKeeps ==
    ASSUME CodecInv, Extract
    PROVE  CodecInv'
<1> DEFINE who == [job EXCEPT !.pixels = None]
           symbols == ExtractSymbols(stego, SlotPlan(job.method, job.fraction, job.scores))
<1>1. /\ job \in Jobs /\ Encodable(job.method, job.config, Layouts[job.fraction])
      /\ Capable(job.method, job.fraction)
      /\ encoded = EncodeBitstream(job.pixels, job.pair, job.method, job.config,
                                   Layouts[job.fraction])
  BY DEF CodecInv, Started, Extract
<1>2. /\ job.fraction \in DOMAIN Layouts
      /\ who.pair = job.pair /\ who.method = job.method /\ who.config = job.config
      /\ who.fraction = job.fraction
  BY <1>1, JobsAssumption DEF Identity
<1>3. encoded.header = SentHeader(job)
  BY <1>1 DEF SentHeader
<1> HIDE DEF who
<1>4. /\ outcome' = DecodeBitstream(symbols, encoded.header, job.pair, job.method,
                                    job.config, Layouts[job.fraction])
      /\ severity' = EvaluateSeverity(encoded, symbols, job.pair, outcome')
      /\ reader' = who /\ phase' = "read"
      /\ UNCHANGED <<job, encoded, strength, stego>>
  BY <1>2 DEF Extract, Read, who
<1>5. Honest(outcome', reader', job')
  <2>1. outcome' = DecodeBitstream(symbols, SentHeader(job), who.pair, who.method,
                                   who.config, Layouts[who.fraction])
    BY <1>2, <1>3, <1>4
  <2> HIDE DEF symbols
  <2>2. Honest(outcome', who, job)
    BY <1>1, <1>2, <2>1, StreamIsHonest
  <2>. QED
    BY <1>4, <2>2
<1>6. Started'
  BY <1>1, <1>4 DEF Started
<1>7. Diagnosed'
  BY <1>4 DEF Diagnosed, Own
<1>. QED
  BY <1>5, <1>6, <1>7 DEF CodecInv, ReadHonestly

LEMMA StrangerKeeps ==
    ASSUME CodecInv, NEW who \in Strangers, ExtractAsStranger(who)
    PROVE  CodecInv'
<1> DEFINE symbols == ExtractSymbols(stego, SlotPlan(who.method, who.fraction, job.scores))
<1>1. /\ job \in Jobs /\ Encodable(job.method, job.config, Layouts[job.fraction])
      /\ Capable(job.method, job.fraction)
      /\ encoded = EncodeBitstream(job.pixels, job.pair, job.method, job.config,
                                   Layouts[job.fraction])
      /\ severity = None
  BY DEF CodecInv, Started, ExtractAsStranger
<1>2. who.fraction \in DOMAIN Layouts
  BY StrangersAssumption DEF Identity
<1>3. encoded.header = SentHeader(job)
  BY <1>1 DEF SentHeader
<1>4. /\ outcome' = DecodeBitstream(symbols, encoded.header, who.pair, who.method,
                                    who.config, Layouts[who.fraction])
      /\ reader' = who /\ phase' = "read"
      /\ UNCHANGED <<job, encoded, strength, stego, severity>>
  BY DEF ExtractAsStranger, Read
<1> HIDE DEF symbols
<1>5. Honest(outcome', who, job)
  BY <1>1, <1>2, <1>3, <1>4, StreamIsHonest
<1>. QED
  BY <1>1, <1>4, <1>5 DEF CodecInv, Started, ReadHonestly, Diagnosed, Own

\* Whatever is embedded, whatever the channel does to it and whoever reads it.
THEOREM CodecInvariant == Spec => []CodecInv
<1>1. Init => CodecInv
  BY DEF Init, CodecInv, Started, ReadHonestly, Diagnosed, Own
<1>2. CodecInv /\ [Next]_vars => CodecInv'
  <2>1. ASSUME CodecInv, UNCHANGED vars
        PROVE  CodecInv'
    BY <2>1 DEF CodecInv, Started, ReadHonestly, Diagnosed, Own, vars
  <2>. QED
    BY <2>1, EmbedKeeps, ChannelKeeps, ExtractKeeps, StrangerKeeps DEF Next
<1>. QED
  BY <1>1, <1>2, PTL DEF Spec

\* RecoveredIsSent (pipeline.extract, decode_bitstream): a reader is given an
\* image only if it is the one that was embedded, cut to its declared
\* bitplanes, and only under the identity it was embedded with.
THEOREM NothingElseIsRecovered == Spec => []RecoveredIsSent
<1>1. CodecInv => RecoveredIsSent
  <2>1. CASE phase = "read"
    BY <2>1 DEF CodecInv, ReadHonestly, Honest, SameReader, SameIdentity, RecoveredIsSent
  <2>. QED
    BY <2>1 DEF RecoveredIsSent
<1>. QED
  BY <1>1, CodecInvariant, PTL

-----------------------------------------------------------------------------
(* Codewords joined to a layer                                             *)

\* The joins FlattenSeq is made of.
Joins(words) ==
    CHOOSE join : join = [i \in 1 .. Len(words) |->
                             IF i = 1 THEN words[i] ELSE join[i - 1] \o words[i]]

LEMMA JoinsExist ==
    ASSUME NEW words
    PROVE  \A n \in Nat : \E join : join = [i \in 1 .. n |->
                             IF i = 1 THEN words[i] ELSE join[i - 1] \o words[i]]
<1> DEFINE Join(join, n) == join = [i \in 1 .. n |->
                               IF i = 1 THEN words[i] ELSE join[i - 1] \o words[i]]
           T == {n \in Nat : \E join : Join(join, n)}
<1>1. 0 \in T
  <2>1. Join([i \in 1 .. 0 |-> 0], 0)
    OBVIOUS
  <2>. QED
    BY <2>1
<1>2. ASSUME NEW n \in Nat, n \in T
      PROVE  n + 1 \in T
  <2>1. PICK join : Join(join, n)
    BY <1>2
  <2> DEFINE longer == [i \in 1 .. n + 1 |->
                          IF i = n + 1 THEN IF n = 0 THEN words[1] ELSE join[n] \o words[n + 1]
                          ELSE join[i]]
  <2>2. \A i \in 1 .. n : join[i] = IF i = 1 THEN words[i] ELSE join[i - 1] \o words[i]
    BY <2>1, Zenon
  <2>3. ASSUME NEW i \in 1 .. n + 1
        PROVE  longer[i] = IF i = 1 THEN words[i] ELSE longer[i - 1] \o words[i]
    <3>1. CASE i = n + 1
      BY <3>1
    <3>2. CASE i # n + 1
      <4>1. i \in 1 .. n /\ (i # 1 => i - 1 \in 1 .. n /\ i - 1 # n + 1)
        BY <3>2
      <4>2. longer[i] = join[i] /\ (i # 1 => longer[i - 1] = join[i - 1])
        BY <4>1
      <4> HIDE DEF longer
      <4>. QED
        BY <4>1, <4>2, <2>2
    <3>. QED
      BY <3>1, <3>2
  <2>4. longer = [i \in 1 .. n + 1 |-> longer[i]]
    OBVIOUS
  <2> HIDE DEF longer
  <2>5. Join(longer, n + 1)
    BY <2>3, <2>4, Zenon
  <2> HIDE DEF Join
  <2>. QED
    BY <2>5
<1>3. \A n \in Nat : n \in T
  <2> HIDE DEF T
  <2>. QED
    BY <1>1, <1>2, AllNumbers
<1>. QED
  BY <1>3

LEMMA WordIs ==
    ASSUME NEW n \in Nat, NEW s, Word(s, n)
    PROVE  Len(s) = n /\ DOMAIN s = 1 .. n
<1>1. DOMAIN s = 1 .. n
  BY DEF Word
<1>2. Len([i \in 1 .. n |-> s[i]]) = n
  OBVIOUS
<1>. QED
  BY <1>1, <1>2 DEF Word

\* all is n symbols of one word, then m of the other.
Appends(all, one, n, other, m) ==
    /\ Word(all, n + m)
    /\ \A k \in 1 .. n : all[k] = one[k]
    /\ \A k \in 1 .. m : all[n + k] = other[k]

LEMMA Appended ==
    ASSUME NEW n \in Nat, NEW m \in Nat, NEW a, NEW b, Word(a, n), Word(b, m)
    PROVE  Appends(a \o b, a, n, b, m)
<1>1. Len(a) = n /\ Len(b) = m
  BY WordIs
<1>2. DOMAIN (a \o b) = 1 .. n + m
  BY <1>1
<1>3. \A k \in 1 .. n : (a \o b)[k] = a[k]
  BY <1>1
<1>4. \A k \in 1 .. m : (a \o b)[n + k] = b[k]
  BY <1>1
<1>5. a \o b = [k \in 1 .. n + m |-> (a \o b)[k]]
  <2> DEFINE S == {a[k] : k \in 1 .. n} \cup {b[k] : k \in 1 .. m}
  <2>1. a \in [1 .. n -> S] /\ b \in [1 .. m -> S]
    BY DEF Word
  <2> HIDE DEF S
  <2>2. a \in Seq(S) /\ b \in Seq(S)
    BY <2>1
  <2>3. a \o b \in Seq(S) /\ Len(a \o b) = n + m
    BY <2>2, <1>1
  <2> DEFINE c == a \o b
  <2>4. c \in Seq(S) /\ Len(c) = n + m
    BY <2>3
  <2> HIDE DEF c
  <2>5. c = [k \in 1 .. n + m |-> c[k]]
    BY <2>4
  <2>. QED
    BY <2>5 DEF c
<1>6. Word(a \o b, n + m)
  BY <1>5 DEF Word
<1>. QED
  BY <1>3, <1>4, <1>6 DEF Appends

\* Where the symbols of a profile's codewords are when they are joined.
InPlace(flat, profile, words) ==
    \A i \in 1 .. Len(profile.data) : \A k \in 1 .. profile.data[i] :
        /\ Offset(profile, i) + k <= InputSymbols(profile)
        /\ flat[Offset(profile, i) + k] = words[i][k]

LEMMA Flattened ==
    ASSUME NEW profile, profile.data \in Seq(Nat), Len(profile.data) # 0,
           NEW words, Word(words, Len(profile.data)),
           \A i \in 1 .. Len(profile.data) : Word(words[i], profile.data[i])
    PROVE  InPlace(Seqs!FlattenSeq(words), profile, words)
<1> DEFINE n == Len(profile.data)
           join == Joins(words)
           at(i) == Offset(profile, i)
           Kept(m) == /\ Word(join[m], at(m + 1))
                      /\ \A i \in 1 .. m : \A k \in 1 .. profile.data[i] :
                            at(i) + k <= at(m + 1) /\ join[m][at(i) + k] = words[i][k]
           T == {d \in Nat : d + 1 <= n => Kept(d + 1)}
<1>0. n \in Nat /\ n >= 1 /\ \A i \in 1 .. n : profile.data[i] \in Nat
  BY Elements
<1>1. Len(words) = n
  BY <1>0, WordIs
<1>2. join = [i \in 1 .. n |-> IF i = 1 THEN words[i] ELSE join[i - 1] \o words[i]]
  <2>1. \E f : f = [i \in 1 .. Len(words) |-> IF i = 1 THEN words[i] ELSE f[i - 1] \o words[i]]
    <3>1. Len(words) \in Nat
      BY <1>0, <1>1
    <3>. QED
      BY <3>1, JoinsExist, Zenon
  <2>. QED
    BY <2>1, <1>1 DEF Joins
<1>3. Seqs!FlattenSeq(words) = join[n]
  BY <1>0, <1>1 DEF Seqs!FlattenSeq, Joins
<1>4. /\ at(1) = 0
      /\ \A i \in 1 .. n : at(i + 1) = at(i) + profile.data[i]
      /\ \A i \in 1 .. n + 1 : at(i) \in Nat
  BY OffsetSteps
<1> HIDE DEF join, n, at
<1>5. \A i \in 1 .. n : join[i] = IF i = 1 THEN words[i] ELSE join[i - 1] \o words[i]
  BY <1>2, Zenon
<1>6. 0 \in T
  <2>1. at(2) = profile.data[1] /\ profile.data[1] \in Nat /\ 1 \in 1 .. n
    BY <1>0, <1>4
  <2>2. join[1] = words[1]
    BY <2>1, <1>5
  <2>3. Word(join[1], at(2))
    BY <2>1, <2>2 DEF n
  <2>4. \A k \in 1 .. profile.data[1] : at(1) + k = k /\ k <= at(2)
    BY <2>1, <1>4
  <2>5. Kept(1)
    BY <2>1, <2>2, <2>3, <2>4
  <2> HIDE DEF Kept
  <2>. QED
    BY <2>5
<1>7. ASSUME NEW d \in Nat, d \in T
      PROVE  d + 1 \in T
  <2>1. SUFFICES ASSUME d + 2 <= n
                 PROVE  Kept(d + 2)
    <3> HIDE DEF Kept
    <3>. QED
      BY <2>1
  <2> DEFINE m == d + 1
  <2>2. m \in 1 .. n /\ m + 1 \in 1 .. n /\ m + 1 # 1 /\ m + 1 = d + 2 /\ (m + 1) - 1 = m
    BY <2>1, <1>0
  <2>3. Kept(m)
    <3> HIDE DEF Kept
    <3>. QED
      BY <1>7, <2>2
  <2> HIDE DEF m
  <2>4. join[m + 1] = join[m] \o words[m + 1]
    BY <2>2, <1>5
  <2>5. /\ at(m + 1) \in Nat /\ profile.data[m + 1] \in Nat
        /\ at(m + 2) = at(m + 1) + profile.data[m + 1]
    <3>1. (m + 1) + 1 = m + 2
      BY <2>2
    <3>. QED
      BY <2>2, <3>1, <1>0, <1>4
  <2>6. Word(words[m + 1], profile.data[m + 1])
    BY <2>2 DEF n
  <2>7. /\ Word(join[m + 1], at(m + 2))
        /\ \A k \in 1 .. at(m + 1) : join[m + 1][k] = join[m][k]
        /\ \A k \in 1 .. profile.data[m + 1] : join[m + 1][at(m + 1) + k] = words[m + 1][k]
    <3> DEFINE u == join[m]
               v == words[m + 1]
               p == at(m + 1)
               q == profile.data[m + 1]
    <3>1. p \in Nat /\ q \in Nat /\ Word(u, p) /\ Word(v, q)
      BY <2>3, <2>5, <2>6
    <3>2. join[m + 1] = u \o v /\ at(m + 2) = p + q
      BY <2>4, <2>5
    <3> HIDE DEF u, v, p, q
    <3>3. Appends(u \o v, u, p, v, q)
      BY <3>1, Appended, Zenon
    <3>4. Appends(join[m + 1], join[m], at(m + 1), words[m + 1], profile.data[m + 1])
      BY <3>2, <3>3 DEF u, v, p, q
    <3>. QED
      BY <3>4, <2>5 DEF Appends
  <2>8. ASSUME NEW i \in 1 .. m + 1, NEW k \in 1 .. profile.data[i]
        PROVE  at(i) + k <= at(m + 2) /\ join[m + 1][at(i) + k] = words[i][k]
    <3>1. CASE i = m + 1
      BY <3>1, <2>5, <2>7
    <3>2. CASE i # m + 1
      <4>1. i \in 1 .. m /\ i \in 1 .. n /\ i \in 1 .. n + 1
        BY <3>2, <2>2, <1>0
      <4>2. at(i) + k <= at(m + 1) /\ join[m][at(i) + k] = words[i][k]
        BY <4>1, <2>3
      <4>3. at(i) \in Nat /\ profile.data[i] \in Nat
        BY <4>1, <1>0, <1>4
      <4>4. at(i) + k \in 1 .. at(m + 1)
        BY <4>2, <4>3, <2>5, SMTT(30)
      <4> HIDE DEF T, Kept, join, at
      <4>5. at(m + 2) \in Nat /\ at(m + 1) <= at(m + 2)
        BY <2>5
      <4>6. at(i) + k <= at(m + 2)
        BY <4>2, <4>3, <4>5, <2>5
      <4>7. join[m + 1][at(i) + k] = join[m][at(i) + k]
        BY <4>4, <2>7
      <4>. QED
        BY <4>2, <4>6, <4>7
    <3>. QED
      BY <3>1, <3>2
  <2>. QED
    BY <2>2, <2>7, <2>8
<1>8. \A d \in Nat : d \in T
  <2> HIDE DEF T
  <2>. QED
    BY <1>6, <1>7, AllNumbers
<1>9. Kept(n)
  <2>1. n - 1 \in Nat /\ (n - 1) + 1 = n
    BY <1>0
  <2> HIDE DEF Kept
  <2>. QED
    BY <2>1, <1>8
<1>10. at(n + 1) = InputSymbols(profile)
  BY DEF at, n, InputSymbols
<1>. QED
  BY <1>3, <1>9, <1>10 DEF n, at, InPlace

-----------------------------------------------------------------------------
(* The diagnosis and the decoder agree on what failed                      *)

\* A decoded codeword has its data symbols.
LEMMA CodewordDecoded ==
    ASSUME NEW word, NEW k \in Nat
    PROVE  LET result == DecodeCodeword(word, k)
           IN  result.success => Word(result.data, k)
<1> DEFINE result == DecodeCodeword(word, k)
<1>1. ASSUME NEW w
      PROVE  Word(SubSeq(w, 1, k), k)
  BY DEF Word
<1>2. result.success => \E w : result.data = SubSeq(w, 1, k)
  <2> DEFINE parity == CodewordSymbols - k
             s == Syndromes(word, parity)
             m == ErrorLocator(s)
             positions == FindErrorPositions(m)
             fixed == Corrected(word, s, positions)
  <2>1. result =
          IF AllZero(s) THEN [success |-> TRUE, data |-> SubSeq(word, 1, k), corrected |-> 0]
          ELSE IF m.degree \notin 1 .. parity \div 2 \/ Cardinality(positions) # m.degree
          THEN Undecodable
          ELSE IF fixed = Failure \/ ~ AllZero(Syndromes(fixed, parity)) THEN Undecodable
          ELSE [success |-> TRUE, data |-> SubSeq(fixed, 1, k), corrected |-> m.degree]
    BY DEF DecodeCodeword
  <2>2. ~ Undecodable.success
    BY DEF Undecodable
  <2> HIDE DEF result, s, m, positions, fixed, parity
  <2>. QED
    BY <2>1, <2>2
<1> HIDE DEF result
<1>3. result.success => Word(result.data, k)
  BY <1>1, <1>2
<1>. QED
  BY <1>3 DEF result

\* The symbols of codeword i that are padding follow those of the raw layer.
LEMMA PaddingOf ==
    ASSUME NEW profile, profile.data \in Seq(Nat), RawSymbols(profile) \in Nat,
           NEW raw, Word(raw, RawSymbols(profile)),
           NEW i \in 1 .. Len(profile.data)
    PROVE  /\ Len(RawOf(raw, profile, i)) \in Nat
           /\ \A q \in 1 .. profile.data[i] : q > Len(RawOf(raw, profile, i)) =>
                 Offset(profile, i) + q > RawSymbols(profile)
<1> DEFINE r == RawSymbols(profile)
           from == Offset(profile, i)
           to == Offset(profile, i + 1)
           k == profile.data[i]
           last == IF to > r THEN r ELSE to
<1>1. Len(raw) = r
  BY WordIs
<1>2. from \in Nat /\ to = from + k /\ k \in Nat
  <2>1. Len(profile.data) \in Nat /\ i \in 1 .. Len(profile.data) + 1 /\ profile.data[i] \in Nat
    BY Elements
  <2>. QED
    BY <2>1, OffsetSteps
<1>3. RawOf(raw, profile, i) = SubSeq(raw, from + 1, last)
  BY <1>1 DEF RawOf
<1> HIDE DEF from, to, r, k
<1>4. last \in Nat /\ r \in Nat
  BY <1>2 DEF r
<1>5. Len(SubSeq(raw, from + 1, last)) = IF from + 1 <= last THEN last - from ELSE 0
  <2> HIDE DEF last
  <2>. QED
    BY <1>2, <1>4
<1> HIDE DEF last
<1>6. Len(RawOf(raw, profile, i)) \in Nat
  BY <1>2, <1>3, <1>4, <1>5
<1>7. ASSUME NEW q \in 1 .. k, q > Len(RawOf(raw, profile, i))
      PROVE  from + q > r
  BY <1>2, <1>3, <1>4, <1>5, <1>7 DEF last
<1>. QED
  BY <1>6, <1>7 DEF from, r, k

LEMMA InsideSubSeq ==
    ASSUME NEW s, NEW from \in Nat, NEW to \in Nat, NEW at \in Nat, from < at, at <= to
    PROVE  /\ at - from \in DOMAIN SubSeq(s, from + 1, to)
           /\ SubSeq(s, from + 1, to)[at - from] = s[at]
OBVIOUS

\* A codeword the diagnosis does not call a success is one for which the
\* decoder has given its layer up.
LEMMA DiagnosedLayerFailed ==
    ASSUME NEW profile, profile.data \in Seq(Nat), RawSymbols(profile) \in Nat,
           NEW raw, Word(raw, RawSymbols(profile)), NEW sent, NEW received,
           Failed(CodewordDiagnostics(sent, received, raw, profile))
    PROVE  DecodeLayer(received, profile).data = Failure
<1> DEFINE n == Len(profile.data)
           record(i) == CodewordRecord(Codeword(sent, i), Codeword(received, i),
                                       RawOf(raw, profile, i), profile.data[i])
           result(i) == DecodeCodeword(Codeword(received, i), profile.data[i])
           results == [i \in 1 .. n |-> result(i)]
           words == [i \in 1 .. n |-> result(i).data]
           padded == Seqs!FlattenSeq(words)
           zeroes == AllZero(SubSeq(padded, RawSymbols(profile) + 1, InputSymbols(profile)))
           layer == DecodeLayer(received, profile)
<1>1. n \in Nat /\ \A i \in 1 .. n : profile.data[i] \in Nat
  BY Elements
<1>2. Tuple(results) = results
  <2>1. results = [i \in 1 .. n |-> results[i]]
    BY Zenon
  <2> HIDE DEF results
  <2>. QED
    BY <1>1, <2>1, TupleIs
<1>3. layer = IF \A i \in 1 .. n : results[i].success
              THEN IF zeroes
                   THEN [data |-> SubSeq(padded, 1, RawSymbols(profile)), failures |-> {}]
                   ELSE [data |-> Failure, failures |-> {n}]
              ELSE [data |-> Failure, failures |-> {i \in 0 .. n - 1 : ~ results[i + 1].success}]
  <2>1. [i \in 1 .. n |-> results[i].data] = words
    BY Zenon
  <2> HIDE DEF words
  <2>2. layer = IF \A i \in 1 .. n : Tuple(results)[i].success
              THEN IF AllZero(SubSeq(Seqs!FlattenSeq([i \in 1 .. n |-> Tuple(results)[i].data]),
                                     RawSymbols(profile) + 1, InputSymbols(profile)))
                   THEN [data |-> SubSeq(Seqs!FlattenSeq([i \in 1 .. n |-> Tuple(results)[i].data]),
                                         1, RawSymbols(profile)), failures |-> {}]
                   ELSE [data |-> Failure, failures |-> {n}]
              ELSE [data |-> Failure, failures |-> {i \in 0 .. n - 1 : ~ Tuple(results)[i + 1].success}]
    BY DEF DecodeLayer
  <2> HIDE DEF results, layer
  <2>. QED
    BY <1>2, <2>1, <2>2
<1>4. PICK i \in 1 .. n : record(i).status # "success"
  <2> DEFINE records == [i \in 1 .. n |-> record(i)]
  <2>1. records = [i \in 1 .. n |-> records[i]]
    BY Zenon
  <2>2. CodewordDiagnostics(sent, received, raw, profile) = Tuple(records)
    BY DEF CodewordDiagnostics
  <2> HIDE DEF records, n
  <2>3. Tuple(records) = records
    BY <1>1, <2>1, TupleIs
  <2>4. PICK i \in DOMAIN records : records[i].status # "success"
    BY <2>2, <2>3 DEF Failed
  <2>5. i \in 1 .. n /\ records[i] = record(i)
    BY <2>4 DEF records
  <2> HIDE DEF record
  <2>. QED
    BY <2>4, <2>5
<1> DEFINE k == profile.data[i]
           known == Len(RawOf(raw, profile, i))
           part == SubSeq(result(i).data, known + 1, k)
<1>5. /\ result(i).success /\ AllZero(part) => record(i).status = "success"
  BY DEF CodewordRecord
<1> HIDE DEF record, result, results, zeroes, layer, padded
<1>6. results[i] = result(i) /\ words[i] = result(i).data
  BY DEF results
<1>7. CASE ~ \A j \in 1 .. n : results[j].success
  BY <1>3, <1>7 DEF layer
<1>8. CASE \A j \in 1 .. n : results[j].success
  <2>1. result(i).success /\ ~ AllZero(part)
    BY <1>4, <1>5, <1>6, <1>8
  <2>2. Word(result(i).data, k) /\ k \in Nat
    BY <2>1, <1>1, CodewordDecoded DEF result
  <2>3. PICK p \in DOMAIN part : part[p] # 0
    BY <2>1 DEF AllZero
  <2>4. known \in Nat
    BY PaddingOf
  <2> DEFINE q == known + p
  <2>5. q \in 1 .. k /\ q > known /\ part[p] = result(i).data[q]
    <3> HIDE DEF known, k
    <3>. QED
      BY <2>2, <2>3, <2>4, SMTT(30)
  <2> HIDE DEF q, part, known
  <2>6. ASSUME NEW j \in 1 .. n
        PROVE  Word(words[j], profile.data[j])
    <3>1. result(j).success
      BY <1>8 DEF results
    <3>2. Word(result(j).data, profile.data[j])
      BY <3>1, <1>1, CodewordDecoded DEF result
    <3>. QED
      BY <3>2
  <2>7. Word(words, n)
    BY DEF Word
  <2> HIDE DEF words
  <2>8. /\ Offset(profile, i) + q <= InputSymbols(profile)
        /\ padded[Offset(profile, i) + q] = words[i][q]
    <3>1. Len(profile.data) # 0
      BY <1>1
    <3>2. InPlace(Seqs!FlattenSeq(words), profile, words)
      BY <3>1, <2>6, <2>7, Flattened
    <3>. QED
      BY <3>2, <2>5 DEF padded, InPlace
  <2>9. Offset(profile, i) + q > RawSymbols(profile)
    BY <2>5, PaddingOf DEF known
  <2> DEFINE at == Offset(profile, i) + q
             rest == SubSeq(padded, RawSymbols(profile) + 1, InputSymbols(profile))
  <2>10. at \in Nat /\ InputSymbols(profile) \in Nat
    <3>1. Offset(profile, i) \in Nat /\ Offset(profile, n + 1) \in Nat
      BY <1>1, OffsetSteps
    <3>. QED
      BY <3>1, <2>5, <1>1 DEF InputSymbols
  <2>11. padded[at] # 0
    BY <2>3, <2>5, <2>8, <1>6
  <2> HIDE DEF at
  <2>12. at <= InputSymbols(profile) /\ at > RawSymbols(profile)
    BY <2>8, <2>9 DEF at
  <2>13. /\ at - RawSymbols(profile) \in DOMAIN rest
         /\ rest[at - RawSymbols(profile)] = padded[at]
    <3> HIDE DEF padded
    <3>. QED
      BY <2>10, <2>12, InsideSubSeq
  <2>14. ~ zeroes
    BY <2>11, <2>13 DEF AllZero, zeroes
  <2>. QED
    BY <2>14, <1>3, <1>8 DEF layer
<1>. QED
  BY <1>7, <1>8

\* The raw layers of a job are as long as its profiles take.
LEMMA RawWords ==
    ASSUME NEW j \in Jobs
    PROVE  LET layout == Layouts[j.fraction]
               profile == ProfilesFor(j.method, layout)
               raw == RawLayers(j.pixels, layout)
           IN  \A l \in {"base", "detail"} :
                  /\ profile[l].data \in Seq(Nat) /\ RawSymbols(profile[l]) \in Nat
                  /\ Word(raw[l], RawSymbols(profile[l]))
<1> DEFINE layout == Layouts[j.fraction]
           profile == ProfilesFor(j.method, layout)
           raw == RawLayers(j.pixels, layout)
           nb == RawSymbols(profile["base"])
           nd == RawSymbols(profile["detail"])
<1>1. j.fraction \in DOMAIN Layouts /\ j.pixels \in Seq(0 .. 255)
  BY JobsAssumption DEF Identity
<1>2. ASSUME NEW l \in {"base", "detail"}
      PROVE  /\ profile[l].data \in Seq(1 .. CodewordSymbols - 1)
             /\ RawSymbols(profile[l]) \in Nat
             /\ RawSymbols(profile[l]) * SymbolBits = Len(j.pixels) * layout[l]
  BY ProfilesFit
<1>3. 1 .. CodewordSymbols - 1 \subseteq Nat
  OBVIOUS
<1>4. ASSUME NEW l \in {"base", "detail"}
      PROVE  profile[l].data \in Seq(Nat)
  <2> DEFINE data == profile[l].data
             Counts == 1 .. CodewordSymbols - 1
  <2>1. data \in Seq(Counts) /\ Counts \subseteq Nat
    BY <1>2, <1>3
  <2> HIDE DEF data, Counts
  <2>2. data \in Seq(Nat)
    BY <2>1, WiderElements, Zenon
  <2>. QED
    BY <2>2 DEF data
<1>5. /\ nb \in Nat /\ nb * SymbolBits = Len(j.pixels) * layout.base
      /\ nd \in Nat /\ nd * SymbolBits = Len(j.pixels) * layout.detail
  BY <1>2
<1> HIDE DEF profile
<1>6. ImageLayers(j.pixels, layout, nb, nd)
  BY <1>1, <1>5, LayersOfAnImage
<1>7. Word(raw["base"], nb)
  BY <1>6 DEF ImageLayers, Word
<1>8. Word(raw["detail"], nd)
  <2>1. CASE layout.detail # 0
    BY <2>1, <1>6 DEF ImageLayers, Word
  <2>2. CASE layout.detail = 0
    <3>1. Len(j.pixels) \in Nat
      BY <1>1, Elements
    <3> HIDE DEF nd, layout
    <3>2. nd * SymbolBits = 0
      BY <2>2, <3>1, <1>5
    <3>3. nd = 0
      BY <3>2, <1>5, SymbolBitsAssumption
    <3>4. raw.detail = <<>>
      BY <2>2, <1>6 DEF ImageLayers
    <3>5. <<>> = [x \in 1 .. 0 |-> <<>>[x]]
      OBVIOUS
    <3>. QED
      BY <3>3, <3>4, <3>5 DEF Word
  <2>. QED
    BY <2>1, <2>2
<1> HIDE DEF raw
<1>9. ASSUME NEW l \in {"base", "detail"}
      PROVE  Word(raw[l], RawSymbols(profile[l]))
  BY <1>7, <1>8
<1>. QED
  BY <1>2, <1>4, <1>9 DEF raw, profile

\* S3 is said only of a stream of which a layer was given up.
LEMMA StageThree ==
    ASSUME NEW j \in Jobs, NEW stream, NEW symbols, NEW o, NEW sev,
           stream = EncodeBitstream(j.pixels, j.pair, j.method, j.config, Layouts[j.fraction]),
           o = DecodeBitstream(symbols, stream.header, j.pair, j.method, j.config,
                               Layouts[j.fraction]),
           sev = EvaluateSeverity(stream, symbols, j.pair, o),
           sev.stage = "S3_PAYLOAD_ECC_FAILURE"
    PROVE  o.base = Failure \/ o.detail = Failure
<1> DEFINE layout == Layouts[j.fraction]
           raw == RawLayers(j.pixels, layout)
           profile == ProfilesFor(j.method, layout)
           h == stream.header
           body == SubSeq(symbols, CodewordSymbols + 1, Len(symbols))
           parts == SplitBody(j.method, body, Len(profile.base.data), Len(profile.detail.data))
           received(l) == Encoded(parts[l], LayerDigest(j.config, j.pair, j.method, l))
           records(l) == CodewordDiagnostics(EncodeLayer(raw[l], profile[l]), received(l),
                                             raw[l], profile[l])
           layer(l) == DecodeLayer(received(l), profile[l])
           mismatch == Mismatch(h, j.pair, j.method, j.config, layout)
<1>1. /\ h.method = j.method /\ h.layout = layout /\ h.config = j.config
      /\ stream.raw = raw
  BY DEF EncodeBitstream, Header
<1>2. sev.base = records("base") /\ sev.detail = records("detail")
      /\ sev.stage = FailureStage(o, sev.base, sev.detail)
  <2> HIDE DEF h, raw, layout
  <2>. QED
    BY <1>1, SMTT(30) DEF EvaluateSeverity, h
<1>3. o.headerValid /\ (Failed(sev.base) \/ Failed(sev.detail))
  <2>1. FailureStage(o, sev.base, sev.detail) = "S3_PAYLOAD_ECC_FAILURE"
    BY <1>2
  <2>. QED
    BY <2>1 DEF FailureStage
<1>4. ASSUME NEW l \in {"base", "detail"}, Failed(records(l))
      PROVE  layer(l).data = Failure
  <2>1. /\ profile[l].data \in Seq(Nat) /\ RawSymbols(profile[l]) \in Nat
        /\ Word(raw[l], RawSymbols(profile[l]))
    BY RawWords
  <2> HIDE DEF raw, profile, received
  <2>. QED
    BY <2>1, <1>4, DiagnosedLayerFailed
<1>5. CASE ~ DecodeHeader(SubSeq(symbols, 1, CodewordSymbols))
  <2>1. o = HeaderFailure
    BY <1>5 DEF DecodeBitstream
  <2>. QED
    BY <2>1 DEF HeaderFailure, Unread
<1>6. CASE DecodeHeader(SubSeq(symbols, 1, CodewordSymbols)) /\ Len(symbols) # h.symbols
  <2>1. o.base = Failure
    BY <1>6 DEF DecodeBitstream, Unread
  <2>. QED
    BY <2>1
<1>7. CASE DecodeHeader(SubSeq(symbols, 1, CodewordSymbols)) /\ Len(symbols) = h.symbols
  <2>1. o = DecodeBody(h, body, j.pair, mismatch)
    BY <1>7 DEF DecodeBitstream
  <2> HIDE DEF h, layout, body, mismatch
  <2>2. o = Recovery(h, j.pair, mismatch, layer("base"), layer("detail"))
    BY <2>1, <1>1 DEF DecodeBody, DecodeTransport
  <2> HIDE DEF layer, records
  <2>3. o.base = layer("base").data /\ o.detail = layer("detail").data
    <3>1. \A base, detail : /\ Recovery(h, j.pair, mismatch, base, detail).base = base.data
                            /\ Recovery(h, j.pair, mismatch, base, detail).detail = detail.data
      BY DEF Recovery
    <3>. QED
      BY <2>2, <3>1
  <2>. QED
    BY <2>3, <1>2, <1>3, <1>4
<1>. QED
  BY <1>5, <1>6, <1>7

\* FailuresAreClassified (evaluate_severity, _embedding_object,
\* _verify_embedding_acceptance): a round trip that did not succeed has a
\* stage and a validity the study goes on with, and the stage says what failed.
THEOREM EveryFailureIsClassified == Spec => []FailuresAreClassified
<1>1. CodecInv => FailuresAreClassified
  <2>1. SUFFICES ASSUME CodecInv, Own, ~ Success(outcome)
                 PROVE  /\ ScientificFailure.stage \in AcceptedStages
                        /\ ScientificFailure.validity \in RecognizedValidity
                        /\ outcome.failures # {}
                        /\ severity.stage = "S4_HEADER_FAILURE" <=> ~outcome.headerValid
                        /\ severity.stage = "S3_PAYLOAD_ECC_FAILURE" =>
                              \/ outcome.base = Failure \/ outcome.detail = Failure
    BY DEF FailuresAreClassified
  <2>2. Honest(outcome, reader, job)
    BY <2>1 DEF CodecInv, ReadHonestly, Own
  <2>3. /\ outcome.validity \in {"valid_base_only_recovery", "header_valid_no_valid_layer",
                                 "header_failure"}
        /\ outcome.validity = "header_failure" <=> ~ outcome.headerValid
        /\ outcome.failures # {}
    BY <2>1, <2>2 DEF Honest
  <2> DEFINE symbols == ExtractSymbols(stego, SlotPlan(job.method, job.fraction, job.scores))
  <2>4. /\ job \in Jobs
        /\ encoded = EncodeBitstream(job.pixels, job.pair, job.method, job.config,
                                     Layouts[job.fraction])
        /\ outcome = DecodeBitstream(symbols, encoded.header, job.pair, job.method,
                                     job.config, Layouts[job.fraction])
        /\ severity = EvaluateSeverity(encoded, symbols, job.pair, outcome)
    BY <2>1 DEF CodecInv, Started, Diagnosed, Own
  <2> HIDE DEF symbols
  <2>5. severity.stage = FailureStage(outcome, severity.base, severity.detail)
    BY <2>4, ZenonT(30) DEF EvaluateSeverity
  <2>6. /\ severity.stage \in {"S1_BASE_ONLY", "S2_HEADER_VALID_PARTIAL",
                               "S3_PAYLOAD_ECC_FAILURE", "S4_HEADER_FAILURE"}
        /\ severity.stage = "S4_HEADER_FAILURE" <=> ~ outcome.headerValid
    BY <2>3, <2>5 DEF FailureStage
  <2>7. severity.stage = "S3_PAYLOAD_ECC_FAILURE" => outcome.base = Failure \/ outcome.detail = Failure
    BY <2>4, StageThree
  <2>. QED
    BY <2>3, <2>6, <2>7 DEF ScientificFailure, AcceptedStages, RecognizedValidity
<1>. QED
  BY <1>1, CodecInvariant, PTL

-----------------------------------------------------------------------------
(* The strength                                                            *)

Brackets(feasible) ==
    CHOOSE bracket : bracket = [n \in 0 .. High |->
        IF n = 0 THEN [low |-> 0, high |-> High] ELSE Halve(feasible, bracket[n - 1])]

LEMMA BracketsExist ==
    ASSUME NEW feasible
    PROVE  \A d \in Nat : \E bracket : bracket = [n \in 0 .. d |->
               IF n = 0 THEN [low |-> 0, high |-> High] ELSE Halve(feasible, bracket[n - 1])]
<1> DEFINE start == [low |-> 0, high |-> High]
           Bracket(b, d) == b = [n \in 0 .. d |-> IF n = 0 THEN start ELSE Halve(feasible, b[n - 1])]
           T == {d \in Nat : \E b : Bracket(b, d)}
<1> HIDE DEF start
<1>1. 0 \in T
  <2>1. Bracket([n \in 0 .. 0 |-> start], 0)
    OBVIOUS
  <2>. QED
    BY <2>1
<1>2. ASSUME NEW d \in Nat, d \in T
      PROVE  d + 1 \in T
  <2>1. PICK b : Bracket(b, d)
    BY <1>2
  <2> DEFINE longer == [n \in 0 .. d + 1 |-> IF n = d + 1 THEN Halve(feasible, b[d]) ELSE b[n]]
  <2>2. \A n \in 0 .. d : b[n] = IF n = 0 THEN start ELSE Halve(feasible, b[n - 1])
    BY <2>1, Zenon
  <2>3. ASSUME NEW n \in 0 .. d + 1
        PROVE  longer[n] = IF n = 0 THEN start ELSE Halve(feasible, longer[n - 1])
    <3>1. CASE n = d + 1
      <4>1. n # 0 /\ n - 1 = d /\ n - 1 \in 0 .. d + 1 /\ n - 1 # d + 1
        BY <3>1
      <4>. QED
        BY <3>1, <4>1
    <3>2. CASE n # d + 1
      <4>1. n \in 0 .. d /\ (n # 0 => n - 1 \in 0 .. d /\ n - 1 # d + 1)
        BY <3>2
      <4>2. longer[n] = b[n] /\ (n # 0 => longer[n - 1] = b[n - 1])
        BY <4>1
      <4> HIDE DEF longer
      <4>. QED
        BY <4>1, <4>2, <2>2
    <3>. QED
      BY <3>1, <3>2
  <2>4. longer = [n \in 0 .. d + 1 |-> longer[n]]
    OBVIOUS
  <2> HIDE DEF longer
  <2>5. Bracket(longer, d + 1)
    BY <2>3, <2>4, Zenon
  <2> HIDE DEF Bracket
  <2>. QED
    BY <2>5
<1>3. \A d \in Nat : d \in T
  <2> HIDE DEF T
  <2>. QED
    BY <1>1, <1>2, AllNumbers
<1>. QED
  BY <1>3 DEF start

\* The bracket keeps a feasible and an infeasible strength and gets narrower.
LEMMA BisectSound ==
    ASSUME NEW feasible, feasible[0], ~ feasible[High]
    PROVE  LET best == Bisect(feasible)
           IN  best \in 0 .. High /\ feasible[best] /\ ~ feasible[best + 1]
<1> DEFINE b == Brackets(feasible)
           Kept(n) == /\ b[n].low \in Nat /\ b[n].high \in Nat
                      /\ b[n].low < b[n].high /\ b[n].high <= High
                      /\ b[n] = [low |-> b[n].low, high |-> b[n].high]
                      /\ feasible[b[n].low] /\ ~ feasible[b[n].high]
                      /\ b[n].high - b[n].low = 1 \/ b[n].high - b[n].low <= High - n
           T == {n \in Nat : n <= High => Kept(n)}
<1>0. High \in Nat /\ High >= 1
  BY StrengthAssumption
<1>1. b = [n \in 0 .. High |-> IF n = 0 THEN [low |-> 0, high |-> High]
                               ELSE Halve(feasible, b[n - 1])]
  BY <1>0, BracketsExist DEF Brackets
<1>2. Bisect(feasible) = b[High].low
  BY DEF Bisect, Brackets
<1> HIDE DEF b
<1>3. \A n \in 0 .. High : b[n] = IF n = 0 THEN [low |-> 0, high |-> High]
                                  ELSE Halve(feasible, b[n - 1])
  BY <1>1, Zenon
<1>4. 0 \in T
  BY <1>0, <1>3
<1>5. ASSUME NEW n \in Nat, n \in T
      PROVE  n + 1 \in T
  <2>1. SUFFICES ASSUME n + 1 <= High
                 PROVE  Kept(n + 1)
    OBVIOUS
  <2>2. Kept(n)
    BY <1>5, <2>1, <1>0
  <2>3. b[n + 1] = Halve(feasible, b[n])
    <3>1. n + 1 \in 0 .. High /\ n + 1 # 0 /\ (n + 1) - 1 = n
      BY <2>1, <1>0
    <3>. QED
      BY <3>1, <1>3
  <2> DEFINE low == b[n].low
             high == b[n].high
             middle == (low + high) \div 2
  <2>4. CASE high - low = 1
    <3>1. b[n + 1] = b[n]
      BY <2>3, <2>4 DEF Halve
    <3>. QED
      BY <3>1, <2>2, <2>4
  <2>5. CASE high - low # 1
    <3>1. /\ low \in Nat /\ high \in Nat /\ low < high /\ high <= High
          /\ b[n] = [low |-> low, high |-> high] /\ feasible[low] /\ ~ feasible[high]
          /\ high - low <= High - n
      BY <2>2, <2>5
    <3>2. b[n + 1] = IF feasible[middle] THEN [b[n] EXCEPT !.low = middle]
                     ELSE [b[n] EXCEPT !.high = middle]
      BY <2>3, <2>5 DEF Halve
    <3> HIDE DEF low, high
    <3>3. middle \in Nat /\ low < middle /\ middle < high
      BY <3>1, <2>5
    <3> HIDE DEF middle
    <3>4. CASE feasible[middle]
      <4>1. b[n + 1] = [low |-> middle, high |-> high]
        BY <3>1, <3>2, <3>4
      <4>. QED
        BY <4>1, <3>1, <3>3, <3>4, <1>0
    <3>5. CASE ~ feasible[middle]
      <4>1. b[n + 1] = [low |-> low, high |-> middle]
        BY <3>1, <3>2, <3>5
      <4>. QED
        BY <4>1, <3>1, <3>3, <3>5, <1>0
    <3>. QED
      BY <3>4, <3>5
  <2>. QED
    BY <2>4, <2>5
<1>6. Kept(High)
  <2>1. \A n \in Nat : n \in T
    <3> HIDE DEF T
    <3>. QED
      BY <1>4, <1>5, AllNumbers
  <2> HIDE DEF Kept
  <2>. QED
    BY <2>1, <1>0
<1>7. b[High].high = b[High].low + 1
  BY <1>6, <1>0
<1>. QED
  BY <1>2, <1>6, <1>7, <1>0

\* StrengthSound (search_lambda): the strength a cover is embedded with keeps
\* the PSNR target and the next half step does not, however the verdicts lie.
THEOREM StrengthKeepsTheTarget == Spec => []StrengthSound
<1>1. ASSUME NEW j \in Jobs, NEW feasible \in Feasibility, Embed(j, feasible)
      PROVE  StrengthSound'
  <2>1. feasible[0] /\ strength' = SearchLambda(feasible)
    BY <1>1 DEF Embed
  <2>2. High \in Nat
    BY StrengthAssumption
  <2>3. CASE feasible[High]
    <3>1. strength' = High
      BY <2>1, <2>3 DEF SearchLambda
    <3>. QED
      BY <3>1, <2>2, <2>3 DEF StrengthSound
  <2>4. CASE ~ feasible[High]
    <3>1. strength' = Bisect(feasible)
      BY <2>1, <2>4 DEF SearchLambda
    <3>2. strength' \in 0 .. High /\ feasible[strength'] /\ ~ feasible[strength' + 1]
      BY <3>1, <2>1, <2>4, BisectSound
    <3>. QED
      BY <3>2 DEF StrengthSound
  <2>. QED
    BY <2>3, <2>4
<1>2. Init => StrengthSound
  BY DEF Init, StrengthSound
<1>3. StrengthSound /\ [Next]_vars => StrengthSound'
  <2> SUFFICES ASSUME StrengthSound, [Next]_vars
               PROVE  StrengthSound'
    OBVIOUS
  <2>1. ASSUME phase # "idle", UNCHANGED strength
        PROVE  StrengthSound'
    BY <2>1 DEF StrengthSound
  <2>2. ASSUME NEW burst, Channel(burst)
        PROVE  StrengthSound'
    BY <2>2, <2>1 DEF Channel
  <2>3. CASE Extract
    BY <2>3, <2>1 DEF Extract
  <2>4. ASSUME NEW who, ExtractAsStranger(who)
        PROVE  StrengthSound'
    BY <2>4, <2>1 DEF ExtractAsStranger
  <2>5. CASE UNCHANGED vars
    BY <2>5 DEF StrengthSound, vars
  <2>. QED
    BY <1>1, <2>2, <2>3, <2>4, <2>5 DEF Next
<1>. QED
  BY <1>2, <1>3, PTL DEF Spec
\* Induction up to a bound.
LEMMA UpTo ==
    ASSUME NEW n \in Nat, NEW T, 0 \in T, \A i \in 0 .. n - 1 : i \in T => i + 1 \in T
    PROVE  \A i \in 0 .. n : i \in T
<1> DEFINE R == {i \in Nat : i <= n => i \in T}
<1>1. 0 \in R
  OBVIOUS
<1>2. \A i \in Nat : i \in R => i + 1 \in R
  OBVIOUS
<1>3. \A i \in Nat : i \in R
  <2> HIDE DEF R
  <2>. QED
    BY <1>1, <1>2, AllNumbers
<1>. QED
  BY <1>3

LEMMA OnceIs ==
    ASSUME NEW n \in Nat, NEW f, f = [i \in 1 .. n |-> f[i]]
    PROVE  f \o <<>> = f /\ Len(f) = n /\ DOMAIN f = 1 .. n
<1> DEFINE S == {f[i] : i \in 1 .. n}
<1>1. f \in [1 .. n -> S]
  OBVIOUS
<1> HIDE DEF S
<1>2. f \in Seq(S) /\ Len(f) = n
  BY <1>1
<1>. QED
  BY <1>1, <1>2

\* The partial sums of a sequence of numbers, and their last.
Summed(f, n) ==
    /\ Sums(f)[0] = 0
    /\ \A i \in 0 .. n - 1 : Sums(f)[i + 1] = Sums(f)[i] + f[i + 1]
    /\ \A i \in 0 .. n : Sums(f)[i] \in Int
    /\ Total(f) = Sums(f)[n]

LEMMA SumSteps ==
    ASSUME NEW n \in Nat, NEW f \in [1 .. n -> Int]
    PROVE  Summed(f, n)
<1> DEFINE sum == Sums(f)
<1>1. Len(f) = n
  BY OnceIs
<1>2. sum = [j \in 0 .. n |-> IF j = 0 THEN 0 ELSE sum[j - 1] + f[j]]
  BY <1>1, SumsExist DEF Sums
<1>3. Total(f) = sum[n]
  BY <1>1 DEF Total, Sums
<1> HIDE DEF sum
<1>4. \A j \in 0 .. n : sum[j] = IF j = 0 THEN 0 ELSE sum[j - 1] + f[j]
  BY <1>2, Zenon
<1>5. sum[0] = 0 /\ \A i \in 0 .. n - 1 : sum[i + 1] = sum[i] + f[i + 1]
  BY <1>4
<1> DEFINE T == {i \in 0 .. n : sum[i] \in Int}
<1>6. 0 \in T
  BY <1>5
<1>7. ASSUME NEW i \in 0 .. n - 1, i \in T PROVE i + 1 \in T
  <2>1. sum[i + 1] = sum[i] + f[i + 1] /\ f[i + 1] \in Int /\ i + 1 \in 0 .. n
    BY <1>5
  <2>. QED
    BY <1>7, <2>1
<1>8. \A i \in 0 .. n : i \in T
  <2> HIDE DEF T
  <2>. QED
    BY <1>6, <1>7, UpTo
<1>. QED
  BY <1>3, <1>5, <1>8 DEF sum, Summed

LEMMA TotalAdds ==
    ASSUME NEW n \in Nat, NEW f \in [1 .. n -> Int], NEW g \in [1 .. n -> Int],
           NEW h \in [1 .. n -> Int], \A i \in 1 .. n : h[i] = f[i] + g[i]
    PROVE  Total(h) = Total(f) + Total(g)
<1> DEFINE T == {i \in 0 .. n : Sums(h)[i] = Sums(f)[i] + Sums(g)[i]}
<1>0. Summed(f, n) /\ Summed(g, n) /\ Summed(h, n)
  BY SumSteps
<1>1. 0 \in T
  BY <1>0 DEF Summed
<1>2. ASSUME NEW i \in 0 .. n - 1, i \in T PROVE i + 1 \in T
  <2>1. i + 1 \in 1 .. n /\ (i + 1) - 1 = i /\ i \in 0 .. n /\ i + 1 \in 0 .. n
    OBVIOUS
  <2>2. /\ Sums(h)[i + 1] = Sums(h)[i] + h[i + 1]
        /\ Sums(f)[i + 1] = Sums(f)[i] + f[i + 1]
        /\ Sums(g)[i + 1] = Sums(g)[i] + g[i + 1]
    BY <2>1, <1>0 DEF Summed
  <2>3. Sums(f)[i] \in Int /\ Sums(g)[i] \in Int /\ f[i + 1] \in Int /\ g[i + 1] \in Int
    BY <2>1, <1>0 DEF Summed
  <2>4. h[i + 1] = f[i + 1] + g[i + 1] /\ Sums(h)[i] = Sums(f)[i] + Sums(g)[i]
    BY <1>2, <2>1
  <2>5. Sums(h)[i + 1] = Sums(f)[i + 1] + Sums(g)[i + 1]
    BY <2>2, <2>3, <2>4
  <2>. QED
    BY <2>1, <2>5
<1>3. n \in T
  <2> HIDE DEF T
  <2>1. n \in 0 .. n
    OBVIOUS
  <2>. QED
    BY <1>1, <1>2, <2>1, UpTo
<1>. QED
  BY <1>0, <1>3 DEF Summed

LEMMA TotalScales ==
    ASSUME NEW n \in Nat, NEW c \in Int, NEW f \in [1 .. n -> Int],
           NEW h \in [1 .. n -> Int], \A i \in 1 .. n : h[i] = c * f[i]
    PROVE  Total(h) = c * Total(f)
<1> DEFINE T == {i \in 0 .. n : Sums(h)[i] = c * Sums(f)[i]}
<1>0. Summed(f, n) /\ Summed(h, n)
  BY SumSteps
<1>1. 0 \in T
  <2>1. Sums(h)[0] = 0 /\ Sums(f)[0] = 0
    BY <1>0 DEF Summed
  <2>. QED
    BY <2>1
<1>2. ASSUME NEW i \in 0 .. n - 1, i \in T PROVE i + 1 \in T
  <2>1. i + 1 \in 1 .. n /\ (i + 1) - 1 = i /\ i \in 0 .. n /\ i + 1 \in 0 .. n
    OBVIOUS
  <2>2. /\ Sums(h)[i + 1] = Sums(h)[i] + h[i + 1]
        /\ Sums(f)[i + 1] = Sums(f)[i] + f[i + 1]
    BY <2>1, <1>0 DEF Summed
  <2>3. Sums(f)[i] \in Int /\ f[i + 1] \in Int
    BY <2>1, <1>0 DEF Summed
  <2>4. h[i + 1] = c * f[i + 1] /\ Sums(h)[i] = c * Sums(f)[i]
    BY <1>2, <2>1
  <2>5. \A x, y \in Int : c * (x + y) = c * x + c * y
    OBVIOUS
  <2>6. Sums(h)[i + 1] = c * Sums(f)[i + 1]
    BY <2>2, <2>3, <2>4, <2>5
  <2>. QED
    BY <2>1, <2>6
<1>3. n \in T
  <2> HIDE DEF T
  <2>1. n \in 0 .. n
    OBVIOUS
  <2>. QED
    BY <1>1, <1>2, <2>1, UpTo
<1>. QED
  BY <1>0, <1>3 DEF Summed

LEMMA TotalMonotone ==
    ASSUME NEW n \in Nat, NEW f \in [1 .. n -> Int], NEW g \in [1 .. n -> Int],
           \A i \in 1 .. n : f[i] <= g[i]
    PROVE  Total(f) <= Total(g) /\ Total(f) \in Int /\ Total(g) \in Int
<1> DEFINE T == {i \in 0 .. n : Sums(f)[i] <= Sums(g)[i]}
<1>0. Summed(f, n) /\ Summed(g, n)
  BY SumSteps
<1>1. 0 \in T
  BY <1>0 DEF Summed
<1>2. ASSUME NEW i \in 0 .. n - 1, i \in T PROVE i + 1 \in T
  <2>1. i + 1 \in 1 .. n /\ (i + 1) - 1 = i /\ i \in 0 .. n /\ i + 1 \in 0 .. n
    OBVIOUS
  <2>2. /\ Sums(f)[i + 1] = Sums(f)[i] + f[i + 1]
        /\ Sums(g)[i + 1] = Sums(g)[i] + g[i + 1]
    BY <2>1, <1>0 DEF Summed
  <2>3. /\ Sums(f)[i] \in Int /\ Sums(g)[i] \in Int /\ f[i + 1] \in Int /\ g[i + 1] \in Int
        /\ f[i + 1] <= g[i + 1]
    BY <2>1, <1>0 DEF Summed
  <2>. QED
    BY <1>2, <2>1, <2>2, <2>3
<1>3. n \in T
  <2> HIDE DEF T
  <2>1. n \in 0 .. n
    OBVIOUS
  <2>. QED
    BY <1>1, <1>2, <2>1, UpTo
<1>. QED
  BY <1>0, <1>3 DEF Summed

\* How many bands of a set there are, as a sum over all bands.
LEMMA TotalCounts ==
    ASSUME NEW n \in Nat, NEW S \in SUBSET (1 .. n), NEW f \in [1 .. n -> Int],
           \A i \in 1 .. n : f[i] = IF i \in S THEN 1 ELSE 0
    PROVE  Total(f) = Cardinality(S) /\ IsFiniteSet(S) /\ Cardinality(S) \in Nat
<1> DEFINE T == {i \in 0 .. n : /\ Sums(f)[i] = Cardinality(S \cap (1 .. i))
                                /\ IsFiniteSet(S \cap (1 .. i))}
<1>0. Summed(f, n)
  BY SumSteps
<1>1. 0 \in T
  <2>1. S \cap (1 .. 0) = {}
    OBVIOUS
  <2>. QED
    BY <2>1, <1>0, FS_EmptySet DEF Summed
<1>2. ASSUME NEW i \in 0 .. n - 1, i \in T PROVE i + 1 \in T
  <2>1. i + 1 \in 1 .. n /\ (i + 1) - 1 = i /\ i \in 0 .. n /\ i + 1 \in 0 .. n
    OBVIOUS
  <2>2. Sums(f)[i + 1] = Sums(f)[i] + f[i + 1]
    BY <2>1, <1>0 DEF Summed
  <2> DEFINE before == S \cap (1 .. i)
             after == S \cap (1 .. i + 1)
  <2>3. Sums(f)[i] = Cardinality(before) /\ IsFiniteSet(before)
    BY <1>2
  <2>4. Cardinality(before) \in Nat
    BY <2>3, FS_CardinalityType
  <2>5. after = IF i + 1 \in S THEN before \cup {i + 1} ELSE before
    BY <2>1
  <2>6. i + 1 \notin before
    BY <2>1
  <2> HIDE DEF before, after
  <2>7. CASE i + 1 \in S
    <3>1. IsFiniteSet(after) /\ Cardinality(after) = Cardinality(before) + 1
      BY <2>3, <2>5, <2>6, <2>7, FS_AddElement
    <3>. QED
      BY <2>1, <2>2, <2>3, <2>7, <3>1 DEF after
  <2>8. CASE i + 1 \notin S
    <3>1. after = before
      BY <2>5, <2>8
    <3>2. Sums(f)[i + 1] = Sums(f)[i]
      BY <2>1, <2>2, <2>3, <2>4, <2>8
    <3>. QED
      BY <2>1, <2>3, <3>1, <3>2 DEF after
  <2>. QED
    BY <2>7, <2>8
<1>3. n \in T
  <2> HIDE DEF T
  <2>1. n \in 0 .. n
    OBVIOUS
  <2>. QED
    BY <1>1, <1>2, <2>1, UpTo
<1>4. S \cap (1 .. n) = S
  OBVIOUS
<1>. QED
  BY <1>0, <1>3, <1>4, FS_CardinalityType DEF Summed

LEMMA TotalNat ==
    ASSUME NEW n \in Nat, NEW f \in [1 .. n -> Nat]
    PROVE  Total(f) \in Nat /\ \A b \in 1 .. n : f[b] > 0 => Total(f) > 0
<1> DEFINE S == {i \in 1 .. n : f[i] > 0}
           one == [i \in 1 .. n |-> IF i \in S THEN 1 ELSE 0]
<1>1. Total(one) = Cardinality(S) /\ IsFiniteSet(S) /\ Cardinality(S) \in Nat
  <2> HIDE DEF S
  <2>1. S \in SUBSET (1 .. n) /\ one \in [1 .. n -> Int]
    BY DEF S
  <2>2. \A i \in 1 .. n : one[i] = IF i \in S THEN 1 ELSE 0
    OBVIOUS
  <2> HIDE DEF one
  <2>. QED
    BY <2>1, <2>2, TotalCounts
<1>2. one \in [1 .. n -> Int] /\ f \in [1 .. n -> Int] /\ \A i \in 1 .. n : one[i] <= f[i]
  OBVIOUS
<1> HIDE DEF one
<1>3. Total(one) <= Total(f) /\ Total(f) \in Int
  BY <1>2, TotalMonotone
<1>4. ASSUME NEW b \in 1 .. n, f[b] > 0
      PROVE  Cardinality(S) # 0
  <2>1. b \in S
    BY <1>4
  <2>. QED
    BY <1>1, <2>1, FS_EmptySet
<1>. QED
  BY <1>1, <1>3, <1>4

-----------------------------------------------------------------------------
(* Sorting                                                                 *)

Rank(key, bands, b) == Cardinality(Ahead(key, bands, b))

\* Sorting by a key, ties by the band, puts every band at a place of its own,
\* the first of them in front.
LEMMA Ranks ==
    ASSUME NEW n \in Nat, NEW A \in SUBSET (1 .. n), NEW key \in [1 .. n -> Int]
    PROVE  /\ IsFiniteSet(A) /\ Cardinality(A) \in Nat /\ Cardinality(A) <= n
           /\ \A b \in A : Rank(key, A, b) \in 0 .. Cardinality(A) - 1
           /\ \A b, c \in A : Rank(key, A, b) = Rank(key, A, c) => b = c
           /\ \A b, c \in A : Rank(key, A, b) < Rank(key, A, c) => b \in Ahead(key, A, c)
<1> DEFINE ahead(b) == Ahead(key, A, b)
           rank(b) == Cardinality(ahead(b))
<1>1. IsFiniteSet(A) /\ Cardinality(A) \in Nat /\ Cardinality(A) <= n
  <2>1. IsFiniteSet(1 .. n) /\ Cardinality(1 .. n) <= n
    BY FS_Interval
  <2>2. IsFiniteSet(A) /\ Cardinality(A) <= Cardinality(1 .. n)
    BY <2>1, FS_Subset
  <2>. QED
    BY <2>1, <2>2, FS_CardinalityType
<1>2. ASSUME NEW S \in SUBSET A
      PROVE  IsFiniteSet(S) /\ Cardinality(S) \in Nat
  <2>1. IsFiniteSet(S)
    BY <1>1, FS_Subset
  <2>. QED
    BY <2>1, FS_CardinalityType
<1>3. \A b \in A : ahead(b) \in SUBSET A /\ b \notin ahead(b)
  BY DEF Ahead
<1>4. ASSUME NEW S \in SUBSET A, NEW R \in SUBSET A, S \subseteq R, S # R
      PROVE  Cardinality(S) < Cardinality(R)
  <2>1. Cardinality(S) <= Cardinality(R) /\ (Cardinality(S) = Cardinality(R) => S = R)
    <3>1. S \in SUBSET R /\ IsFiniteSet(R)
      BY <1>2, <1>4
    <3>2. Cardinality(R) = Cardinality(S) => R = S
      BY <3>1, FS_Subset
    <3>3. Cardinality(S) <= Cardinality(R)
      BY <3>1, FS_Subset
    <3>. QED
      BY <3>2, <3>3
  <2>. QED
    BY <1>2, <1>4, <2>1
<1>5. ASSUME NEW b \in A, NEW c \in A, b \in ahead(c)
      PROVE  rank(b) < rank(c)
  <2>1. key[b] \in Int /\ key[c] \in Int /\ \A d \in A : key[d] \in Int /\ d \in Int
    OBVIOUS
  <2>2. ahead(b) \subseteq ahead(c)
    <3>1. SUFFICES ASSUME NEW d \in ahead(b) PROVE d \in ahead(c)
      OBVIOUS
    <3>2. /\ d \in A /\ b \in A /\ c \in A
          /\ key[d] > key[b] \/ (key[d] = key[b] /\ d < b)
          /\ key[b] > key[c] \/ (key[b] = key[c] /\ b < c)
      BY <1>5 DEF Ahead
    <3>3. /\ key[b] \in Int /\ key[c] \in Int /\ key[d] \in Int
          /\ b \in Int /\ c \in Int /\ d \in Int
      BY <2>1, <3>2
    <3>4. key[d] > key[c] \/ (key[d] = key[c] /\ d < c)
      BY <3>2, <3>3
    <3>. QED
      BY <3>2, <3>4 DEF Ahead
  <2>3. ahead(b) # ahead(c)
    BY <1>3, <1>5
  <2> HIDE DEF ahead
  <2>. QED
    BY <1>3, <1>4, <2>2, <2>3
<1>6. \A b, c \in A : b # c => b \in ahead(c) \/ c \in ahead(b)
  <2>1. \A d \in A : key[d] \in Int /\ d \in Int
    OBVIOUS
  <2>. QED
    BY <2>1 DEF Ahead
<1>7. ASSUME NEW b \in A
      PROVE  rank(b) \in 0 .. Cardinality(A) - 1
  <2>1. ahead(b) # A
    BY <1>3
  <2>2. rank(b) \in Nat /\ rank(b) < Cardinality(A)
    <3> HIDE DEF ahead
    <3>. QED
      BY <2>1, <1>2, <1>3, <1>4
  <2>. QED
    BY <1>1, <2>2
<1>8. \A b \in A : rank(b) = Rank(key, A, b) /\ rank(b) \in Int
  <2>1. \A b \in A : rank(b) \in Int
    <3> HIDE DEF rank
    <3>. QED
      BY <1>7
  <2>. QED
    BY <2>1 DEF Rank
<1>9. \A b, c \in A : rank(b) = rank(c) => b = c
  <2> HIDE DEF rank, ahead
  <2>. QED
    BY <1>5, <1>6, <1>8
<1>10. \A b, c \in A : rank(b) < rank(c) => b \in ahead(c)
  <2>1. \A b \in A : ~ (rank(b) < rank(b))
    <3> HIDE DEF rank
    <3>. QED
      BY <1>8
  <2> HIDE DEF rank, ahead
  <2>. QED
    BY <1>5, <1>6, <1>8, <2>1
<1> HIDE DEF rank
<1>11. \A b \in A : Rank(key, A, b) \in 0 .. Cardinality(A) - 1
  BY <1>7, <1>8
<1>12. \A b, c \in A : Rank(key, A, b) = Rank(key, A, c) => b = c
  BY <1>8, <1>9
<1>13. \A b, c \in A : Rank(key, A, b) < Rank(key, A, c) => b \in Ahead(key, A, c)
  BY <1>8, <1>10
<1>. QED
  BY <1>1, <1>11, <1>12, <1>13

\* k bands are before place k, as long as there are so many.
LEMMA FirstRanks ==
    ASSUME NEW n \in Nat, NEW A \in SUBSET (1 .. n), NEW key \in [1 .. n -> Int],
           NEW k \in Nat, k <= Cardinality(A)
    PROVE  Cardinality({b \in A : Rank(key, A, b) < k}) = k
<1> DEFINE m == Cardinality(A)
           X == {b \in A : Rank(key, A, b) < k}
           Y == A \ X
           first == [b \in X |-> Rank(key, A, b)]
           last == [b \in Y |-> Rank(key, A, b)]
<1>1. /\ IsFiniteSet(A) /\ m \in Nat
      /\ \A b \in A : Rank(key, A, b) \in 0 .. m - 1
      /\ \A b, c \in A : Rank(key, A, b) = Rank(key, A, c) => b = c
  BY Ranks
<1>2. first \in Injection(X, 0 .. k - 1)
  <2>1. first \in [X -> 0 .. k - 1]
    <3>1. ASSUME NEW b \in X PROVE Rank(key, A, b) \in 0 .. k - 1
      <4>1. Rank(key, A, b) \in 0 .. m - 1
        BY <1>1
      <4> HIDE DEF m
      <4>. QED
        BY <1>1, <4>1
    <3> HIDE DEF m, X
    <3>. QED
      BY <3>1
  <2>2. \A b, c \in X : first[b] = first[c] => b = c
    BY <1>1
  <2>3. DOMAIN first = X
    OBVIOUS
  <2> HIDE DEF first, X
  <2>. QED
    BY <2>1, <2>2, <2>3 DEF Injection, IsInjective
<1>3. last \in Injection(Y, k .. m - 1)
  <2>1. last \in [Y -> k .. m - 1]
    <3>1. ASSUME NEW b \in Y PROVE Rank(key, A, b) \in k .. m - 1
      <4>1. Rank(key, A, b) \in 0 .. m - 1
        BY <1>1
      <4> HIDE DEF m
      <4>. QED
        BY <1>1, <4>1
    <3> HIDE DEF m, Y
    <3>. QED
      BY <3>1
  <2>2. \A b, c \in Y : last[b] = last[c] => b = c
    BY <1>1
  <2>3. DOMAIN last = Y
    OBVIOUS
  <2> HIDE DEF last, Y
  <2>. QED
    BY <2>1, <2>2, <2>3 DEF Injection, IsInjective
<1>4. IsFiniteSet(0 .. k - 1) /\ Cardinality(0 .. k - 1) = k
  BY FS_Interval
<1>5. IsFiniteSet(k .. m - 1) /\ Cardinality(k .. m - 1) = m - k
  <2>1. k <= m
    OBVIOUS
  <2> HIDE DEF m
  <2>2. k \in Int /\ m - 1 \in Int
    BY <1>1
  <2>3. /\ IsFiniteSet(k .. m - 1)
        /\ Cardinality(k .. m - 1) = IF k > m - 1 THEN 0 ELSE m - 1 - k + 1
    BY <2>2, FS_Interval
  <2>. QED
    BY <1>1, <2>1, <2>3
<1> HIDE DEF first, last
<1>6. Cardinality(X) <= k
  <2> HIDE DEF X
  <2>. QED
    BY <1>2, <1>4, FS_Injection
<1>7. Cardinality(Y) <= m - k
  <2> HIDE DEF Y
  <2>. QED
    BY <1>3, <1>5, FS_Injection
<1>8. IsFiniteSet(X) /\ IsFiniteSet(Y) /\ X \cup Y = A /\ X \cap Y = {}
  BY <1>1, FS_Subset
<1> HIDE DEF X, Y, m
<1>9. Cardinality(X) \in Nat /\ Cardinality(Y) \in Nat /\ Cardinality({}) = 0
  BY <1>8, FS_CardinalityType, FS_EmptySet
<1>10. m = Cardinality(X) + Cardinality(Y)
  <2>1. Cardinality(X \cup Y) = Cardinality(X) + Cardinality(Y) - Cardinality(X \cap Y)
    BY <1>8, FS_Union
  <2>2. Cardinality(A) = Cardinality(X) + Cardinality(Y) - Cardinality({})
    BY <1>8, <2>1, Zenon
  <2>. QED
    BY <1>9, <2>2 DEF m
<1>11. Cardinality(X) = k
  BY <1>1, <1>6, <1>7, <1>9, <1>10
<1>. QED
  BY <1>11 DEF X

\* The bands before place k, when there are not so many.
LEMMA AllRanks ==
    ASSUME NEW n \in Nat, NEW A \in SUBSET (1 .. n), NEW key \in [1 .. n -> Int],
           NEW k \in Nat, k > Cardinality(A)
    PROVE  {b \in A : Rank(key, A, b) < k} = A
<1>1. \A b \in A : Rank(key, A, b) < k
  BY Ranks
<1>. QED
  BY <1>1

\* Ranked is a sequence of all the bands, each once, by falling score.
LEMMA RankedSorts ==
    ASSUME NEW n \in Nat, NEW scores \in [1 .. n -> Int]
    PROVE  /\ Ranked(scores) \in [1 .. n -> 1 .. n]
           /\ \A i, j \in 1 .. n : Ranked(scores)[i] = Ranked(scores)[j] => i = j
           /\ \A b \in 1 .. n : \E i \in 1 .. n : Ranked(scores)[i] = b
           /\ \A i, j \in 1 .. n : i < j =>
                 Ranked(scores)[i] \in Ahead(scores, 1 .. n, Ranked(scores)[j])
<1> DEFINE A == 1 .. n
           rank(b) == Rank(scores, A, b)
           order == [i \in 1 .. n |-> CHOOSE b \in A : rank(b) = i - 1]
<1>1. Cardinality(A) = n /\ A \in SUBSET (1 .. n)
  BY FS_Interval
<1>2. /\ \A b \in A : rank(b) \in 0 .. n - 1
      /\ \A b, c \in A : rank(b) = rank(c) => b = c
      /\ \A b, c \in A : rank(b) < rank(c) => b \in Ahead(scores, A, c)
  <2>1. A \in SUBSET (1 .. n)
    OBVIOUS
  <2> HIDE DEF A
  <2>. QED
    BY <1>1, <2>1, Ranks
<1>3. DOMAIN scores = A
  OBVIOUS
<1>4. Ranked(scores) = order
  <2>1. Ranked(scores) = order \o <<>>
    BY <1>3 DEF Ranked, Rank
  <2>2. order = [i \in 1 .. n |-> order[i]]
    OBVIOUS
  <2> HIDE DEF order
  <2>. QED
    BY <2>1, <2>2, OnceIs
<1>5. ASSUME NEW i \in 1 .. n
      PROVE  \E b \in A : rank(b) = i - 1
  <2> DEFINE X(k) == {b \in A : rank(b) < k}
  <2>1. Cardinality(X(i)) = i /\ Cardinality(X(i - 1)) = i - 1
    <3>1. i \in Nat /\ i <= n /\ i - 1 \in Nat /\ i - 1 <= n
      OBVIOUS
    <3> HIDE DEF A
    <3>. QED
      BY <1>1, <3>1, FirstRanks
  <2>2. X(i) # X(i - 1)
    <3> HIDE DEF X
    <3>. QED
      BY <2>1
  <2>3. PICK b \in A : (rank(b) < i) # (rank(b) < i - 1)
    <3> HIDE DEF A, rank
    <3>. QED
      BY <2>2
  <2>4. rank(b) \in Int
    <3> HIDE DEF rank
    <3>. QED
      BY <1>2
  <2> HIDE DEF rank, A
  <2>5. rank(b) = i - 1
    BY <2>3, <2>4
  <2>. QED
    BY <2>5
<1>6. \A i \in 1 .. n : order[i] \in A /\ rank(order[i]) = i - 1
  <2> HIDE DEF A, rank
  <2>. QED
    BY <1>5
<1> HIDE DEF order
<1>7. order \in [1 .. n -> 1 .. n]
  <2>1. order = [i \in 1 .. n |-> order[i]]
    BY DEF order
  <2>. QED
    BY <1>6, <2>1
<1>8. \A i, j \in 1 .. n : order[i] = order[j] => i = j
  <2> HIDE DEF A, rank
  <2>. QED
    BY <1>6
<1>9. ASSUME NEW b \in 1 .. n
      PROVE  \E i \in 1 .. n : order[i] = b
  <2>1. rank(b) + 1 \in 1 .. n /\ (rank(b) + 1) - 1 = rank(b) /\ b \in A
    <3> HIDE DEF rank
    <3>. QED
      BY <1>2
  <2> HIDE DEF A, rank
  <2>2. order[rank(b) + 1] = b
    BY <1>2, <1>6, <2>1
  <2>. QED
    BY <2>1, <2>2
<1>10. ASSUME NEW i \in 1 .. n, NEW j \in 1 .. n, i < j
       PROVE  order[i] \in Ahead(scores, A, order[j])
  <2>1. rank(order[i]) < rank(order[j])
    <3> HIDE DEF rank, A
    <3>. QED
      BY <1>6, <1>10
  <2> HIDE DEF A, rank
  <2>. QED
    BY <1>2, <1>6, <2>1
<1>. QED
  BY <1>4, <1>7, <1>8, <1>9, <1>10

-----------------------------------------------------------------------------
(* capped_largest_remainder                                                *)

LEMMA MinOfTwo ==
    ASSUME NEW a \in Int, NEW b \in Int
    PROVE  Min({a, b}) = IF a <= b THEN a ELSE b
<1>1. \E x \in {a, b} : \A y \in {a, b} : x <= y
  OBVIOUS
<1>2. Min({a, b}) \in {a, b} /\ \A y \in {a, b} : Min({a, b}) <= y
  BY <1>1, Zenon DEF Min
<1>. QED
  BY <1>2

LEMMA TimesKeepsOrder ==
    ASSUME NEW a \in Nat, NEW x \in Int, NEW y \in Int, x <= y
    PROVE  a * x <= a * y /\ a * x \in Int /\ a * y \in Int
<1>1. PICK z \in Nat : y = x + z
  <2>1. y - x \in Nat /\ y = x + (y - x)
    OBVIOUS
  <2>. QED
    BY <2>1
<1>2. a * z >= 0 /\ a * (x + z) = a * x + a * z
  OBVIOUS
<1>. QED
  BY <1>1, <1>2

LEMMA Quotients ==
    ASSUME NEW x \in Nat, NEW d \in Nat, d > 0
    PROVE  /\ x \div d \in Nat /\ x % d \in Nat
           /\ d * (x \div d) <= x /\ x < d * ((x \div d) + 1)
<1>1. /\ x \div d \in Int /\ x % d \in 0 .. d - 1
      /\ x = d * (x \div d) + (x % d)
  OBVIOUS
<1> DEFINE q == x \div d
           r == x % d
<1>2. q \in Int /\ r \in 0 .. d - 1 /\ x = d * q + r
  BY <1>1
<1> HIDE DEF q, r
<1>3. d * (q + 1) = d * q + d
  BY <1>2
<1>4. q >= 0
  <2>1. SUFFICES ASSUME q + 1 <= 0 PROVE FALSE
    BY <1>2
  <2>2. d * (q + 1) <= 0
    BY <1>2, <2>1
  <2>. QED
    BY <1>2, <1>3, <2>2
<1>. QED
  BY <1>2, <1>3, <1>4 DEF q, r

\* What each band weighs in the split over the active ones.
Weighted(n, weights, active) ==
    [b \in 1 .. n |-> IF b \in active THEN weights[b] + Epsilon ELSE 0]

LEMMA DivisorIs ==
    ASSUME NEW n \in Nat, NEW weights \in [1 .. n -> Nat], NEW active \in SUBSET (1 .. n)
    PROVE  /\ Weighted(n, weights, active) \in [1 .. n -> Nat]
           /\ Divisor(weights, active) = Total(Weighted(n, weights, active))
           /\ Divisor(weights, active) \in Nat
           /\ active # {} => Divisor(weights, active) > 0
<1> DEFINE g == Weighted(n, weights, active)
<1>1. g \in [1 .. n -> Nat] /\ \A b \in active : b \in 1 .. n /\ g[b] > 0
  BY EpsilonAssumption DEF Weighted
<1>2. Divisor(weights, active) = Total(g)
  <2>1. Divisor(weights, active) = Total(g \o <<>>)
    BY DEF Divisor, Weighted
  <2>2. g = [b \in 1 .. n |-> g[b]]
    BY DEF Weighted
  <2> HIDE DEF g
  <2>. QED
    BY <2>1, <2>2, OnceIs
<1> HIDE DEF g
<1>3. Total(g) \in Nat /\ \A b \in 1 .. n : g[b] > 0 => Total(g) > 0
  BY <1>1, TotalNat
<1>. QED
  BY <1>1, <1>2, <1>3 DEF g

\* What is asked of caps, weights and amount: the code raises otherwise.
Asked(n, caps, weights) ==
    n \in Nat /\ caps \in [1 .. n -> Nat] /\ weights \in [1 .. n -> Nat]

\* No band beyond its cap.
Within(n, allocation, caps) ==
    allocation \in [1 .. n -> Nat] /\ \A b \in 1 .. n : allocation[b] <= caps[b]

\* Shares rounded down, of any active bands, are at most the amount.
LEMMA SharesFit ==
    ASSUME NEW n \in Nat, NEW weights \in [1 .. n -> Nat], NEW active \in SUBSET (1 .. n),
           active # {}, NEW amount \in Nat, NEW f \in [1 .. n -> Nat],
           \A b \in active : f[b] <= Share(weights, amount, b) \div Divisor(weights, active),
           \A b \in 1 .. n : b \notin active => f[b] = 0
    PROVE  Total(f) \in Nat /\ Total(f) <= amount
<1> DEFINE g == Weighted(n, weights, active)
           D == Divisor(weights, active)
           scaled == [b \in 1 .. n |-> D * f[b]]
           asked == [b \in 1 .. n |-> amount * g[b]]
<1>1. g \in [1 .. n -> Nat] /\ D = Total(g) /\ D \in Nat /\ D > 0
  BY DivisorIs, Zenon
<1>2. \A b \in active : Share(weights, amount, b) = amount * g[b]
  BY DEF Share, Weighted
<1>3. \A b \in 1 .. n : g[b] \in Nat /\ f[b] \in Nat /\ (b \notin active => g[b] = 0)
  BY <1>1 DEF Weighted
<1> HIDE DEF g, D
<1>4. \A x \in Nat : amount * x \in Nat /\ D * x \in Nat
  BY <1>1
<1>5. scaled \in [1 .. n -> Int] /\ asked \in [1 .. n -> Int]
  <2>1. ASSUME NEW b \in 1 .. n PROVE D * f[b] \in Int /\ amount * g[b] \in Int
    <3>1. D * f[b] \in Nat /\ amount * g[b] \in Nat
      BY <1>3, <1>4, Zenon
    <3> DEFINE left == D * f[b]
               right == amount * g[b]
    <3>2. left \in Nat /\ right \in Nat
      BY <3>1, Zenon
    <3> HIDE DEF left, right
    <3>3. left \in Int /\ right \in Int
      BY <3>2
    <3>. QED
      BY <3>3, Zenon DEF left, right
  <2>. QED
    BY <2>1
<1>6. ASSUME NEW b \in 1 .. n PROVE scaled[b] <= asked[b]
  <2>1. CASE b \in active
    <3> DEFINE x == amount * g[b]
               q == x \div D
    <3>1. x \in Nat /\ f[b] \in Nat /\ f[b] <= q
      BY <1>2, <1>3, <1>4, <2>1 DEF D
    <3> HIDE DEF x
    <3>2. q \in Nat /\ D * q <= x
      BY <1>1, <3>1, Quotients
    <3> HIDE DEF q
    <3>3. D * f[b] <= D * q /\ D * f[b] \in Int /\ D * q \in Int
      <4> DEFINE y == f[b]
      <4>1. y \in Nat /\ y <= q
        BY <3>1, Zenon
      <4> HIDE DEF y
      <4>2. D * y <= D * q /\ D * y \in Int /\ D * q \in Int
        <5>1. D \in Nat /\ y \in Int /\ q \in Int
          BY <1>1, <3>2, <4>1
        <5>. QED
          BY <4>1, <5>1, TimesKeepsOrder, Zenon
      <4>. QED
        BY <4>2, Zenon DEF y
    <3> DEFINE left == D * f[b]
               middle == D * q
    <3>5. left \in Int /\ middle \in Int /\ x \in Int /\ left <= middle /\ middle <= x
      BY <3>1, <3>2, <3>3
    <3> HIDE DEF left, middle
    <3>6. left <= x
      BY <3>5
    <3>4. D * f[b] <= x
      BY <3>6 DEF left
    <3>. QED
      BY <3>4 DEF x
  <2>2. CASE b \notin active
    BY <1>1, <1>3, <2>2
  <2>. QED
    BY <2>1, <2>2
<1>7. \A b \in 1 .. n : scaled[b] = D * f[b] /\ asked[b] = amount * g[b]
  OBVIOUS
<1> HIDE DEF scaled, asked
<1>8. f \in [1 .. n -> Int] /\ g \in [1 .. n -> Int] /\ D \in Int /\ amount \in Int
  BY <1>1
<1>9. Total(scaled) = D * Total(f) /\ Total(asked) = amount * D
  BY <1>1, <1>5, <1>7, <1>8, TotalScales
<1>10. Total(scaled) <= Total(asked)
  BY <1>5, <1>6, TotalMonotone
<1>11. Total(f) \in Nat
  BY TotalNat
<1>12. Total(f) <= amount
  <2> DEFINE t == Total(f)
  <2>1. t \in Nat /\ D * t <= amount * D
    BY <1>9, <1>10, <1>11
  <2> HIDE DEF t
  <2>2. SUFFICES ASSUME t > amount PROVE FALSE
    BY <2>1 DEF t
  <2>3. D * (amount + 1) <= D * t
    <3>1. amount + 1 \in Int /\ t \in Int /\ amount + 1 <= t
      BY <2>1, <2>2
    <3>. QED
      BY <1>1, <3>1, TimesKeepsOrder
  <2>4. D * t \in Int /\ amount * D \in Int /\ D * (amount + 1) = amount * D + D
    BY <1>1, <2>1
  <2>. QED
    BY <1>1, <2>1, <2>3, <2>4
<1>. QED
  BY <1>11, <1>12

\* A band's share, rounded down, in the split over the open bands.
Part(allocation, caps, weights, amount, b) ==
    Share(weights, amount, b) \div Divisor(weights, Open(allocation, caps))

\* The first half of a round: whole shares, within the room.
LEMMA FloorsFit ==
    ASSUME NEW n, NEW caps, NEW weights, Asked(n, caps, weights),
           NEW allocation, Within(n, allocation, caps), NEW amount \in Nat
    PROVE  LET floors == Floors(allocation, caps, weights, amount)
           IN  /\ floors \in [1 .. n -> Nat]
               /\ \A b \in 1 .. n : allocation[b] + floors[b] <= caps[b]
               /\ \A b \in Open(allocation, caps) :
                      allocation[b] + Part(allocation, caps, weights, amount, b) <= caps[b] =>
                         floors[b] = Part(allocation, caps, weights, amount, b)
               /\ Total(floors) \in Nat /\ Total(floors) <= amount
<1> DEFINE active == Open(allocation, caps)
           D == Divisor(weights, active)
           share(b) == Share(weights, amount, b) \div D
           f == [b \in 1 .. n |-> IF b \in active THEN Min({share(b), caps[b] - allocation[b]})
                                  ELSE 0]
<1>0. n \in Nat /\ DOMAIN caps = 1 .. n /\ active \in SUBSET (1 .. n)
  BY DEF Asked, Open
<1>1. \A b \in 1 .. n : /\ caps[b] \in Nat /\ allocation[b] \in Nat
                        /\ allocation[b] <= caps[b] /\ weights[b] \in Nat
                        /\ b \in active => allocation[b] < caps[b]
  BY DEF Asked, Within, Open
<1>2. Floors(allocation, caps, weights, amount) = f
  <2>1. Floors(allocation, caps, weights, amount) = f \o <<>>
    BY <1>0 DEF Floors
  <2>2. f = [b \in 1 .. n |-> f[b]]
    OBVIOUS
  <2> HIDE DEF f
  <2>. QED
    BY <1>0, <2>1, <2>2, OnceIs
<1>3. \A b \in active : share(b) \in Nat
  <2>1. ASSUME NEW b \in active PROVE share(b) \in Nat
    <3>1. D \in Nat /\ D > 0
      <4> HIDE DEF active
      <4>. QED
        BY <1>0, <2>1, DivisorIs DEF Asked
    <3>2. Share(weights, amount, b) \in Nat
      <4>1. weights[b] + Epsilon \in Nat
        BY <1>0, <1>1, EpsilonAssumption
      <4>. QED
        BY <4>1 DEF Share
    <3> HIDE DEF D
    <3>. QED
      BY <3>1, <3>2, Quotients
  <2>. QED
    BY <2>1
<1> HIDE DEF active, D, share
<1>4. ASSUME NEW b \in active
      PROVE  /\ allocation[b] + share(b) <= caps[b] => f[b] = share(b)
             /\ f[b] \in Nat /\ f[b] <= share(b) /\ f[b] <= caps[b] - allocation[b]
  <2>1. /\ b \in 1 .. n /\ share(b) \in Nat /\ caps[b] - allocation[b] \in Nat
        /\ allocation[b] \in Nat /\ caps[b] \in Nat
    BY <1>0, <1>1, <1>3
  <2>2. f[b] = Min({share(b), caps[b] - allocation[b]})
    BY <2>1
  <2>. QED
    BY <2>1, <2>2, MinOfTwo
<1>5. \A b \in 1 .. n : b \notin active => f[b] = 0
  OBVIOUS
<1>6. f \in [1 .. n -> Nat]
  <2>1. \A b \in 1 .. n : f[b] \in Nat
    BY <1>4, <1>5
  <2>2. f = [b \in 1 .. n |-> f[b]]
    OBVIOUS
  <2> HIDE DEF f
  <2>. QED
    BY <2>1, <2>2
<1> HIDE DEF f
<1>7. ASSUME NEW b \in 1 .. n PROVE allocation[b] + f[b] <= caps[b]
  <2>1. caps[b] \in Nat /\ allocation[b] \in Nat /\ allocation[b] <= caps[b] /\ f[b] \in Nat
    BY <1>1, <1>6
  <2>2. f[b] <= caps[b] - allocation[b]
    <3>1. CASE b \in active
      BY <1>4, <3>1
    <3>2. CASE b \notin active
      BY <1>5, <2>1, <3>2
    <3>. QED
      BY <3>1, <3>2
  <2>. QED
    BY <2>1, <2>2
<1>8. Total(f) \in Nat /\ Total(f) <= amount
  <2>1. CASE active = {}
    <3>1. \A b \in 1 .. n : f[b] = IF b \in {} THEN 1 ELSE 0
      BY <1>5, <2>1
    <3>2. {} \in SUBSET (1 .. n) /\ f \in [1 .. n -> Int]
      BY <1>6
    <3>3. Total(f) = Cardinality({})
      BY <1>0, <3>1, <3>2, TotalCounts, Zenon
    <3>. QED
      BY <3>3, FS_EmptySet
  <2>2. CASE active # {}
    <3>1. \A b \in active : f[b] <= Share(weights, amount, b) \div Divisor(weights, active)
      BY <1>4 DEF share, D
    <3>. QED
      BY <1>0, <1>5, <1>6, <2>2, <3>1, SharesFit DEF Asked
  <2>. QED
    BY <2>1, <2>2
<1>. QED
  BY <1>2, <1>3, <1>4, <1>6, <1>7, <1>8 DEF share, D, active, Part

\* The band has room for its share.
HasRoom(allocation, caps, weights, amount, b) ==
    allocation[b] + Part(allocation, caps, weights, amount, b) <= caps[b]

LEMMA FullShare ==
    ASSUME NEW n, NEW caps, NEW weights, Asked(n, caps, weights),
           NEW allocation, Within(n, allocation, caps), NEW amount, amount \in Nat,
           NEW b, b \in Open(allocation, caps), HasRoom(allocation, caps, weights, amount, b)
    PROVE  Floors(allocation, caps, weights, amount)[b]
              = Part(allocation, caps, weights, amount, b)
BY FloorsFit DEF HasRoom
\* The second half of a round: a slot more for the favoured bands.
Extra(allocation, caps, weights, left) ==
    IF left = 0 THEN {} ELSE Favoured(allocation, caps, weights, left)

LEMMA ExtraFits ==
    ASSUME NEW n, NEW caps, NEW weights, Asked(n, caps, weights),
           NEW allocation, Within(n, allocation, caps), NEW left \in Nat
    PROVE  LET extra == Extra(allocation, caps, weights, left)
               active == Open(allocation, caps)
           IN  /\ extra \in SUBSET active /\ active \in SUBSET (1 .. n)
               /\ IsFiniteSet(active) /\ Cardinality(active) \in Nat
               /\ Cardinality(extra) = IF left <= Cardinality(active)
                                       THEN left ELSE Cardinality(active)
<1> DEFINE active == Open(allocation, caps)
           extra == Extra(allocation, caps, weights, left)
           D == Divisor(weights, active)
           fraction == [b \in 1 .. n |-> Share(weights, left, b) % D]
<1>0. n \in Nat /\ DOMAIN caps = 1 .. n /\ active \in SUBSET (1 .. n)
  BY DEF Asked, Open
<1>1. active \in SUBSET (1 .. n) /\ IsFiniteSet(active) /\ Cardinality(active) \in Nat
  <2> HIDE DEF active
  <2>. QED
    <3>1. IsFiniteSet(1 .. n)
      BY <1>0, FS_Interval
    <3>2. IsFiniteSet(active)
      BY <1>0, <3>1, FS_Subset
    <3>. QED
      BY <1>0, <3>2, FS_CardinalityType
<1>2. CASE left = 0
  BY <1>1, <1>2, FS_EmptySet DEF Extra
<1>3. CASE active = {}
  <2>1. extra = {}
    BY <1>3 DEF Extra, Favoured
  <2>. QED
    BY <1>0, <1>1, <1>3, <2>1, FS_EmptySet
<1>4. CASE left > 0 /\ active # {}
  <2>1. extra = {b \in active : Rank(fraction, active, b) < left}
    <3>1. fraction = [b \in 1 .. n |-> fraction[b]]
      OBVIOUS
    <3>2. Favoured(allocation, caps, weights, left)
             = {b \in active : Rank(fraction \o <<>>, active, b) < left}
      BY <1>0 DEF Favoured, Rank
    <3> HIDE DEF fraction, active
    <3>3. fraction \o <<>> = fraction
      BY <1>0, <3>1, OnceIs
    <3>. QED
      BY <1>4, <3>2, <3>3 DEF Extra
  <2>2. fraction \in [1 .. n -> Int]
    <3>1. D \in Nat /\ D > 0
      <4> HIDE DEF active
      <4>. QED
        BY <1>0, <1>4, DivisorIs DEF Asked
    <3>2. ASSUME NEW b \in 1 .. n PROVE Share(weights, left, b) % D \in Int
      <4>1. weights[b] + Epsilon \in Nat
        BY EpsilonAssumption DEF Asked
      <4>2. Share(weights, left, b) \in Nat
        BY <4>1 DEF Share
      <4> HIDE DEF D
      <4>3. Share(weights, left, b) % D \in Nat
        BY <3>1, <4>2, Quotients
      <4>. QED
        BY <4>3
    <3>. QED
      BY <3>2
  <2> HIDE DEF active, fraction, extra
  <2>3. CASE left <= Cardinality(active)
    BY <1>0, <1>1, <2>1, <2>2, <2>3, FirstRanks DEF extra, active
  <2>4. CASE left > Cardinality(active)
    <3>1. extra = active
      BY <1>0, <2>1, <2>2, <2>4, AllRanks
    <3>. QED
      BY <1>1, <2>4, <3>1 DEF extra, active
  <2>. QED
    BY <1>1, <2>3, <2>4
<1>. QED
  BY <1>2, <1>3, <1>4

\* What the rounds keep: no band is beyond its cap and nothing is lost.
Good(n, caps, amount, state) ==
    /\ Within(n, state.allocation, caps)
    /\ state.remaining \in Nat
    /\ Total(state.allocation) \in Nat
    /\ Total(state.allocation) + state.remaining = amount

\* The parts of a round, named.
Given(caps, weights, state) ==
    LET floors == Floors(state.allocation, caps, weights, state.remaining)
    IN  [b \in DOMAIN caps |-> state.allocation[b] + floors[b]] \o <<>>
Left(caps, weights, state) ==
    state.remaining - Total(Floors(state.allocation, caps, weights, state.remaining))
More(given, extra, caps) ==
    [b \in DOMAIN caps |-> given[b] + (IF b \in extra THEN 1 ELSE 0)] \o <<>>

LEMMA RoundIs ==
    ASSUME NEW caps, NEW weights, NEW state, state.remaining # 0
    PROVE  LET given == Given(caps, weights, state)
               left == Left(caps, weights, state)
               extra == Extra(given, caps, weights, left)
           IN  Allocate(state, caps, weights)
                  = [allocation |-> More(given, extra, caps),
                     remaining |-> left - Cardinality(extra)]
BY Zenon DEF Allocate, Given, Left, Extra, More

LEMMA GivenIs ==
    ASSUME NEW n, NEW caps, NEW weights, Asked(n, caps, weights),
           NEW amount, NEW state, Good(n, caps, amount, state)
    PROVE  LET given == Given(caps, weights, state)
               floors == Floors(state.allocation, caps, weights, state.remaining)
           IN  /\ Within(n, given, caps)
               /\ \A b \in 1 .. n : given[b] = state.allocation[b] + floors[b]
               /\ Left(caps, weights, state) \in Nat
               /\ Left(caps, weights, state) <= state.remaining
               /\ Total(given) \in Nat
               /\ Total(given) + Left(caps, weights, state) = amount
<1> DEFINE floors == Floors(state.allocation, caps, weights, state.remaining)
           given == [b \in 1 .. n |-> state.allocation[b] + floors[b]]
           old == state.allocation
<1>1. /\ n \in Nat /\ DOMAIN caps = 1 .. n /\ caps \in [1 .. n -> Nat]
      /\ old \in [1 .. n -> Nat] /\ state.remaining \in Nat
  BY DEF Asked, Good, Within
<1>2. /\ floors \in [1 .. n -> Nat]
      /\ \A b \in 1 .. n : old[b] + floors[b] <= caps[b]
      /\ Total(floors) \in Nat /\ Total(floors) <= state.remaining
  <2>1. Within(n, old, caps)
    BY DEF Good
  <2>. QED
    BY <1>1, <2>1, FloorsFit
<1>3. Given(caps, weights, state) = given
  <2>1. Given(caps, weights, state) = given \o <<>>
    BY <1>1 DEF Given
  <2>2. given = [b \in 1 .. n |-> given[b]]
    OBVIOUS
  <2> HIDE DEF given
  <2>. QED
    BY <1>1, <2>1, <2>2, OnceIs
<1>4. \A b \in 1 .. n : given[b] = old[b] + floors[b]
  OBVIOUS
<1> HIDE DEF floors
<1>5. given \in [1 .. n -> Nat] /\ \A b \in 1 .. n : given[b] <= caps[b]
  <2>1. ASSUME NEW b \in 1 .. n PROVE old[b] + floors[b] \in Nat
    <3>1. old[b] \in Nat /\ floors[b] \in Nat
      BY <1>1, <1>2
    <3>. QED
      BY <3>1
  <2>. QED
    BY <1>2, <2>1
<1> HIDE DEF given, old
<1>6. Total(given) = Total(old) + Total(floors)
  <2>1. given \in [1 .. n -> Int] /\ old \in [1 .. n -> Int] /\ floors \in [1 .. n -> Int]
    BY <1>1, <1>2, <1>5
  <2>. QED
    BY <1>1, <1>4, <2>1, TotalAdds
<1>7. Left(caps, weights, state) = state.remaining - Total(floors)
  BY DEF Left, floors
<1>8. Total(old) \in Nat /\ Total(old) + state.remaining = amount
  BY DEF Good, old
<1>9. /\ Left(caps, weights, state) \in Nat /\ Left(caps, weights, state) <= state.remaining
      /\ Total(given) \in Nat /\ Total(given) + Left(caps, weights, state) = amount
  BY <1>1, <1>2, <1>6, <1>7, <1>8
<1>10. Within(n, given, caps)
  BY <1>5 DEF Within
<1>. QED
  BY <1>3, <1>4, <1>9, <1>10 DEF old, floors

LEMMA MoreIs ==
    ASSUME NEW n \in Nat, NEW caps \in [1 .. n -> Nat], NEW given,
           Within(n, given, caps), NEW extra \in SUBSET Open(given, caps)
    PROVE  /\ Within(n, More(given, extra, caps), caps)
           /\ \A b \in 1 .. n : More(given, extra, caps)[b]
                                   = given[b] + (IF b \in extra THEN 1 ELSE 0)
           /\ Total(More(given, extra, caps)) = Total(given) + Cardinality(extra)
           /\ Cardinality(extra) \in Nat
<1> DEFINE one == [b \in 1 .. n |-> IF b \in extra THEN 1 ELSE 0]
           more == [b \in 1 .. n |-> given[b] + (IF b \in extra THEN 1 ELSE 0)]
<1>1. /\ extra \in SUBSET (1 .. n) /\ \A b \in extra : given[b] < caps[b]
      /\ given \in [1 .. n -> Nat] /\ \A b \in 1 .. n : given[b] <= caps[b]
  BY DEF Open, Within
<1>2. More(given, extra, caps) = more
  <2>1. More(given, extra, caps) = more \o <<>>
    BY DEF More
  <2>2. more = [b \in 1 .. n |-> more[b]]
    OBVIOUS
  <2> HIDE DEF more
  <2>. QED
    BY <2>1, <2>2, OnceIs
<1>3. more \in [1 .. n -> Nat] /\ \A b \in 1 .. n : more[b] <= caps[b]
  BY <1>1
<1>4. /\ one \in [1 .. n -> Int] /\ given \in [1 .. n -> Int] /\ more \in [1 .. n -> Int]
      /\ \A b \in 1 .. n : more[b] = given[b] + one[b]
      /\ \A b \in 1 .. n : one[b] = IF b \in extra THEN 1 ELSE 0
  BY <1>1
<1>5. \A b \in 1 .. n : more[b] = given[b] + (IF b \in extra THEN 1 ELSE 0)
  OBVIOUS
<1> HIDE DEF one, more
<1>6. Total(more) = Total(given) + Total(one)
  <2>1. \A b \in 1 .. n : more[b] = given[b] + one[b]
    BY <1>4
  <2>2. more \in [1 .. n -> Int] /\ given \in [1 .. n -> Int] /\ one \in [1 .. n -> Int]
    BY <1>4
  <2>. QED
    BY <2>1, <2>2, TotalAdds
<1>7. Total(one) = Cardinality(extra) /\ Cardinality(extra) \in Nat
  BY <1>1, <1>4, TotalCounts
<1>8. Within(n, more, caps)
  BY <1>3 DEF Within
<1>. QED
  BY <1>2, <1>5, <1>6, <1>7, <1>8

\* While something remains a round places some of it.
LEMMA AllocateSound ==
    ASSUME NEW n, NEW caps, NEW weights, Asked(n, caps, weights),
           NEW amount \in Nat, amount <= Total(caps), NEW state, Good(n, caps, amount, state)
    PROVE  LET next == Allocate(state, caps, weights)
           IN  /\ Good(n, caps, amount, next)
               /\ state.remaining > 0 => next.remaining < state.remaining
               /\ state.remaining = 0 => next = state
<1>1. CASE state.remaining = 0
  BY <1>1 DEF Allocate
<1>2. CASE state.remaining # 0
  <2> DEFINE given == Given(caps, weights, state)
             left == Left(caps, weights, state)
             extra == Extra(given, caps, weights, left)
             new == More(given, extra, caps)
             next == Allocate(state, caps, weights)
             active == Open(given, caps)
  <2>1. next = [allocation |-> new, remaining |-> left - Cardinality(extra)]
    BY <1>2, RoundIs
  <2>2. /\ Within(n, given, caps) /\ left \in Nat /\ left <= state.remaining
        /\ Total(given) \in Nat /\ Total(given) + left = amount
    <3> HIDE DEF extra
    <3>. QED
      BY GivenIs
  <2>3. n \in Nat /\ caps \in [1 .. n -> Nat] /\ state.remaining \in Nat
    BY DEF Asked, Good
  <2> HIDE DEF given, left, next
  <2>4. /\ extra \in SUBSET active /\ active \in SUBSET (1 .. n)
        /\ IsFiniteSet(active) /\ Cardinality(active) \in Nat
        /\ Cardinality(extra) = IF left <= Cardinality(active)
                                THEN left ELSE Cardinality(active)
    <3> HIDE DEF new
    <3>. QED
      BY <2>2, ExtraFits
  <2> HIDE DEF extra, active
  <2>5. /\ Within(n, new, caps) /\ Total(new) = Total(given) + Cardinality(extra)
        /\ Cardinality(extra) \in Nat
    BY <2>2, <2>3, <2>4, MoreIs DEF active
  <2> HIDE DEF new
  <2>6. next.allocation = new /\ next.remaining = left - Cardinality(extra)
    BY <2>1
  <2>7. next.remaining \in Nat /\ Total(new) \in Nat /\ Total(new) + next.remaining = amount
    BY <2>2, <2>4, <2>5, <2>6
  <2>8. Good(n, caps, amount, next)
    BY <2>5, <2>6, <2>7 DEF Good
  <2>9. next.remaining < state.remaining
    <3>1. CASE left = 0
      BY <1>2, <2>3, <2>4, <2>6, <3>1
    <3>2. CASE left # 0 /\ Cardinality(active) > 0
      BY <1>2, <2>2, <2>3, <2>4, <2>6, <3>2
    <3>3. CASE left # 0 /\ Cardinality(active) = 0
      <4>1. active = {}
        BY <2>4, <3>3, FS_EmptySet
      <4>2. \A b \in 1 .. n : caps[b] <= given[b] /\ given[b] <= caps[b]
        <5>1. SUFFICES ASSUME NEW b \in 1 .. n
                       PROVE  caps[b] <= given[b] /\ given[b] <= caps[b]
          OBVIOUS
        <5>2. caps[b] \in Nat /\ given[b] \in Nat /\ given[b] <= caps[b]
          BY <2>2, <2>3 DEF Within
        <5>3. ~ (given[b] < caps[b])
          BY <2>3, <4>1 DEF active, Open
        <5>. QED
          BY <5>2, <5>3
      <4>3. given \in [1 .. n -> Int] /\ caps \in [1 .. n -> Int]
        BY <2>2, <2>3 DEF Within
      <4>4. Total(caps) <= Total(given) /\ Total(caps) \in Int
        BY <2>3, <4>2, <4>3, TotalMonotone
      <4>. QED
        BY <2>2, <3>3, <4>4
    <3>. QED
      BY <2>4, <3>1, <3>2, <3>3
  <2>. QED
    BY <1>2, <2>8, <2>9 DEF next
<1>. QED
  BY <1>1, <1>2

\* The state before the first round.
Start(caps, amount) == [allocation |-> [b \in DOMAIN caps |-> 0], remaining |-> amount]

\* The states before and after the rounds.
IsRounds(round, d, weights, caps, amount) ==
    round = [n \in 0 .. d |-> IF n = 0 THEN Start(caps, amount)
                              ELSE Allocate(round[n - 1], caps, weights)]
Rounds(weights, caps, amount) ==
    CHOOSE round : IsRounds(round, amount, weights, caps, amount)

LEMMA RoundsExist ==
    ASSUME NEW weights, NEW caps, NEW amount
    PROVE  \A d \in Nat : \E round : IsRounds(round, d, weights, caps, amount)
<1> DEFINE start == Start(caps, amount)
           Round(r, d) == r = [n \in 0 .. d |-> IF n = 0 THEN start
                                                ELSE Allocate(r[n - 1], caps, weights)]
           T == {d \in Nat : \E r : Round(r, d)}
<1> HIDE DEF start
<1>1. 0 \in T
  <2>1. Round([n \in 0 .. 0 |-> start], 0)
    OBVIOUS
  <2>. QED
    BY <2>1
<1>2. ASSUME NEW d \in Nat, d \in T
      PROVE  d + 1 \in T
  <2>1. PICK r : Round(r, d)
    BY <1>2
  <2> DEFINE longer == [n \in 0 .. d + 1 |-> IF n = d + 1 THEN Allocate(r[d], caps, weights)
                                             ELSE r[n]]
  <2>2. \A n \in 0 .. d : r[n] = IF n = 0 THEN start ELSE Allocate(r[n - 1], caps, weights)
    BY <2>1, Zenon
  <2>3. ASSUME NEW n \in 0 .. d + 1
        PROVE  longer[n] = IF n = 0 THEN start ELSE Allocate(longer[n - 1], caps, weights)
    <3>1. CASE n = d + 1
      <4>1. n # 0 /\ n - 1 = d /\ n - 1 \in 0 .. d + 1 /\ n - 1 # d + 1
        BY <3>1
      <4>. QED
        BY <3>1, <4>1
    <3>2. CASE n # d + 1
      <4>1. n \in 0 .. d /\ (n # 0 => n - 1 \in 0 .. d /\ n - 1 # d + 1)
        BY <3>2
      <4>2. longer[n] = r[n] /\ (n # 0 => longer[n - 1] = r[n - 1])
        BY <4>1
      <4> HIDE DEF longer
      <4>. QED
        BY <4>1, <4>2, <2>2
    <3>. QED
      BY <3>1, <3>2
  <2>4. longer = [n \in 0 .. d + 1 |-> longer[n]]
    OBVIOUS
  <2> HIDE DEF longer
  <2>5. Round(longer, d + 1)
    BY <2>3, <2>4, Zenon
  <2> HIDE DEF Round
  <2>. QED
    BY <2>5
<1>3. \A d \in Nat : d \in T
  <2> HIDE DEF T
  <2>. QED
    BY <1>1, <1>2, AllNumbers
<1>. QED
  BY <1>3 DEF start, IsRounds

\* One round after the other, and the last one's allocation.
LEMMA RoundSteps ==
    ASSUME NEW n, NEW caps, NEW weights, Asked(n, caps, weights), NEW amount \in Nat
    PROVE  LET r == Rounds(weights, caps, amount)
           IN  /\ r[0] = [allocation |-> [b \in 1 .. n |-> 0], remaining |-> amount]
               /\ \A i \in 0 .. amount - 1 : r[i + 1] = Allocate(r[i], caps, weights)
               /\ CappedLargestRemainder(weights, caps, amount) = r[amount].allocation
<1> DEFINE r == Rounds(weights, caps, amount)
<1>1. r = [i \in 0 .. amount |->
              IF i = 0 THEN Start(caps, amount)
              ELSE Allocate(r[i - 1], caps, weights)]
  <2>1. \E round : IsRounds(round, amount, weights, caps, amount)
    BY RoundsExist
  <2>2. IsRounds(r, amount, weights, caps, amount)
    BY <2>1, Zenon DEF Rounds
  <2>. QED
    BY <2>2, Zenon DEF IsRounds
<1>2. CappedLargestRemainder(weights, caps, amount) = r[amount].allocation
  BY Zenon DEF CappedLargestRemainder, Rounds, IsRounds, Start
<1>3. DOMAIN caps = 1 .. n
  BY DEF Asked
<1> HIDE DEF r
<1>4. \A i \in 0 .. amount :
         r[i] = IF i = 0 THEN Start(caps, amount)
                ELSE Allocate(r[i - 1], caps, weights)
  BY <1>1, Zenon
<1>5. ASSUME NEW i \in 0 .. amount - 1
      PROVE  r[i + 1] = Allocate(r[i], caps, weights)
  <2>1. i + 1 \in 0 .. amount /\ i + 1 # 0 /\ (i + 1) - 1 = i
    OBVIOUS
  <2>. QED
    BY <1>4, <2>1
<1>6. r[0] = [allocation |-> [b \in 1 .. n |-> 0], remaining |-> amount]
  <2>1. 0 \in 0 .. amount
    OBVIOUS
  <2>2. r[0] = Start(caps, amount)
    BY <1>4, <2>1
  <2>. QED
    BY <1>3, <2>2 DEF Start
<1>. QED
  BY <1>2, <1>5, <1>6 DEF r

LEMMA NothingYet ==
    ASSUME NEW n, NEW caps, NEW weights, Asked(n, caps, weights), NEW amount \in Nat
    PROVE  Good(n, caps, amount, [allocation |-> [b \in 1 .. n |-> 0], remaining |-> amount])
<1> DEFINE zero == [b \in 1 .. n |-> 0]
<1>1. n \in Nat /\ zero \in [1 .. n -> Int] /\ {} \in SUBSET (1 .. n)
      /\ \A b \in 1 .. n : zero[b] = IF b \in {} THEN 1 ELSE 0
  BY DEF Asked
<1>2. Total(zero) = 0
  <2> HIDE DEF zero
  <2>1. Total(zero) = Cardinality({})
    BY <1>1, TotalCounts, Zenon
  <2>. QED
    BY <2>1, FS_EmptySet
<1>3. Within(n, zero, caps)
  <2>1. \A b \in 1 .. n : caps[b] \in Nat
    BY DEF Asked
  <2>. QED
    BY <2>1 DEF Within
<1> HIDE DEF zero
<1>. QED
  BY <1>2, <1>3 DEF Good, zero

\* capped_largest_remainder places everything, and no band is beyond its cap.
LEMMA CappedSound ==
    ASSUME NEW n, NEW caps, NEW weights, Asked(n, caps, weights),
           NEW amount \in Nat, amount <= Total(caps)
    PROVE  LET quotas == CappedLargestRemainder(weights, caps, amount)
           IN  /\ quotas \in [1 .. n -> Nat]
               /\ \A b \in 1 .. n : quotas[b] <= caps[b]
               /\ Total(quotas) = amount
<1> DEFINE r == Rounds(weights, caps, amount)
           quotas == CappedLargestRemainder(weights, caps, amount)
           T == {i \in Nat : i <= amount =>
                    Good(n, caps, amount, r[i]) /\ r[i].remaining <= amount - i}
<1>1. /\ r[0] = [allocation |-> [b \in 1 .. n |-> 0], remaining |-> amount]
      /\ \A i \in 0 .. amount - 1 : r[i + 1] = Allocate(r[i], caps, weights)
      /\ quotas = r[amount].allocation
  BY RoundSteps
<1> HIDE DEF r, quotas
<1>2. 0 \in T
  <2>1. Good(n, caps, amount, r[0])
    BY <1>1, NothingYet
  <2>2. r[0].remaining = amount
    BY <1>1
  <2>. QED
    BY <2>1, <2>2
<1>3. ASSUME NEW i \in Nat, i \in T PROVE i + 1 \in T
  <2>1. SUFFICES ASSUME i + 1 <= amount
                 PROVE  /\ Good(n, caps, amount, r[i + 1])
                        /\ r[i + 1].remaining <= amount - (i + 1)
    OBVIOUS
  <2>2. /\ Good(n, caps, amount, r[i]) /\ r[i].remaining <= amount - i
        /\ r[i + 1] = Allocate(r[i], caps, weights)
    <3>1. i \in 0 .. amount - 1 /\ i <= amount
      BY <2>1
    <3>. QED
      BY <1>1, <1>3, <3>1
  <2>3. /\ Good(n, caps, amount, r[i + 1])
        /\ r[i].remaining > 0 => r[i + 1].remaining < r[i].remaining
        /\ r[i].remaining = 0 => r[i + 1] = r[i]
    BY <2>2, AllocateSound
  <2>4. r[i].remaining \in Nat /\ r[i + 1].remaining \in Nat
    BY <2>2, <2>3 DEF Good
  <2>. QED
    BY <2>1, <2>2, <2>3, <2>4
<1>4. \A i \in Nat : i \in T
  <2> HIDE DEF T
  <2>. QED
    BY <1>2, <1>3, AllNumbers
<1>5. Good(n, caps, amount, r[amount]) /\ r[amount].remaining <= 0
  BY <1>4
<1>6. Within(n, quotas, caps) /\ Total(quotas) = amount
  BY <1>1, <1>5 DEF Good
<1>. QED
  BY <1>6 DEF Within, quotas

\* Shares rounded up, of all the bands, are at least the amount.
LEMMA UpFits ==
    ASSUME NEW n \in Nat, NEW g \in [1 .. n -> Nat], NEW D \in Nat, D > 0, D = Total(g),
           NEW amount \in Nat, NEW q \in [1 .. n -> Nat],
           \A b \in 1 .. n : amount * g[b] < D * (q[b] + 1)
    PROVE  amount <= Total(q) + n
<1> DEFINE asked == [b \in 1 .. n |-> amount * g[b]]
           up == [b \in 1 .. n |-> q[b] + 1]
           scaled == [b \in 1 .. n |-> D * up[b]]
           one == [b \in 1 .. n |-> 1]
<1>1. ASSUME NEW b \in 1 .. n
      PROVE  /\ up[b] \in Int /\ asked[b] \in Int /\ scaled[b] \in Int /\ one[b] \in Int
             /\ up[b] = q[b] + one[b] /\ one[b] = 1
             /\ asked[b] = amount * g[b] /\ scaled[b] = D * up[b]
             /\ asked[b] <= scaled[b]
  <2> DEFINE x == g[b]
             y == q[b]
  <2>1. x \in Nat /\ y \in Nat /\ amount * x < D * (y + 1)
    OBVIOUS
  <2>2. /\ up[b] = y + 1 /\ one[b] = 1 /\ asked[b] = amount * x /\ scaled[b] = D * (y + 1)
    OBVIOUS
  <2> HIDE DEF x, y, up, one, asked, scaled
  <2>3. amount * x \in Int /\ D * (y + 1) \in Int /\ y + 1 \in Int
    BY <2>1
  <2>. QED
    BY <2>1, <2>2, <2>3, SMTT(30) DEF x, y
<1>2. /\ up = [b \in 1 .. n |-> up[b]] /\ asked = [b \in 1 .. n |-> asked[b]]
      /\ scaled = [b \in 1 .. n |-> scaled[b]] /\ one = [b \in 1 .. n |-> one[b]]
  OBVIOUS
<1> HIDE DEF asked, up, scaled, one
<1>3. /\ up \in [1 .. n -> Int] /\ asked \in [1 .. n -> Int]
      /\ scaled \in [1 .. n -> Int] /\ one \in [1 .. n -> Int]
      /\ q \in [1 .. n -> Int] /\ g \in [1 .. n -> Int] /\ D \in Int /\ amount \in Int
  BY <1>1, <1>2
<1>4. Total(up) = Total(q) + Total(one)
  <2>1. \A b \in 1 .. n : up[b] = q[b] + one[b]
    BY <1>1
  <2>. QED
    BY <1>3, <2>1, TotalAdds, ZenonT(30)
<1>5. Total(one) = n
  <2>1. 1 .. n \in SUBSET (1 .. n) /\ \A b \in 1 .. n : one[b] = IF b \in 1 .. n THEN 1 ELSE 0
    BY <1>1
  <2>2. Total(one) = Cardinality(1 .. n)
    BY <1>3, <2>1, TotalCounts, Zenon
  <2>. QED
    BY <2>2, FS_Interval
<1>6. Total(scaled) = D * Total(up)
  BY <1>1, <1>3, TotalScales, ZenonT(30)
<1>7. Total(asked) = amount * D
  BY <1>1, <1>3, TotalScales, ZenonT(30)
<1>8. Total(asked) <= Total(scaled)
  BY <1>1, <1>3, TotalMonotone
<1>9. Total(q) \in Nat
  BY TotalNat
<1> DEFINE t == Total(q) + n
<1>10. t \in Nat /\ amount * D <= D * t
  BY <1>4, <1>5, <1>6, <1>7, <1>8, <1>9
<1> HIDE DEF t
<1>11. SUFFICES ASSUME t < amount PROVE FALSE
  BY <1>10 DEF t
<1>12. D * (t + 1) <= D * amount
  <2>1. t + 1 \in Int /\ t + 1 <= amount
    BY <1>10, <1>11
  <2>. QED
    BY <1>3, <2>1, TimesKeepsOrder
<1>13. D * (t + 1) = D * t + D /\ D * t \in Int /\ D * amount = amount * D /\ D * amount \in Int
  BY <1>10
<1>. QED
  BY <1>10, <1>12, <1>13

\* No cap binds: every band has room for more than its share.
Roomy(n, caps, weights, amount) ==
    \A b \in 1 .. n : Share(weights, amount, b) \div Divisor(weights, 1 .. n) < caps[b]

\* Where no cap binds, one round is enough, and every band has its share
\* rounded down or up.
LEMMA OneRound ==
    ASSUME NEW n, NEW caps, NEW weights, Asked(n, caps, weights),
           NEW amount \in Nat \ {0}, amount <= Total(caps),
           Roomy(n, caps, weights, amount)
    PROVE  LET start == [allocation |-> [b \in 1 .. n |-> 0], remaining |-> amount]
               next == Allocate(start, caps, weights)
               share(b) == Share(weights, amount, b) \div Divisor(weights, 1 .. n)
           IN  /\ next.remaining = 0
               /\ \A b \in 1 .. n : next.allocation[b] \in {share(b), share(b) + 1}
<1> DEFINE zero == [b \in 1 .. n |-> 0]
           start == [allocation |-> zero, remaining |-> amount]
           next == Allocate(start, caps, weights)
           D == Divisor(weights, 1 .. n)
           share(b) == Share(weights, amount, b) \div D
           floors == Floors(zero, caps, weights, amount)
           given == Given(caps, weights, start)
           left == Left(caps, weights, start)
           extra == Extra(given, caps, weights, left)
           new == More(given, extra, caps)
<1>0. n \in Nat /\ DOMAIN caps = 1 .. n /\ caps \in [1 .. n -> Nat] /\ 1 .. n # {}
      /\ weights \in [1 .. n -> Nat]
  <2>1. n \in Nat /\ DOMAIN caps = 1 .. n /\ caps \in [1 .. n -> Nat]
        /\ weights \in [1 .. n -> Nat]
    BY DEF Asked
  <2>2. ASSUME 1 .. n = {} PROVE FALSE
    <3>1. /\ caps \in [1 .. n -> Int] /\ {} \in SUBSET (1 .. n)
          /\ \A b \in 1 .. n : caps[b] = IF b \in {} THEN 1 ELSE 0
      BY <2>1, <2>2
    <3>2. Total(caps) = Cardinality({})
      BY <2>1, <3>1, TotalCounts, Zenon
    <3>. QED
      BY <3>2, FS_EmptySet
  <2>. QED
    BY <2>1, <2>2
<1>1. Good(n, caps, amount, start)
  BY NothingYet
<1>2. D \in Nat /\ D > 0 /\ D = Total(Weighted(n, weights, 1 .. n))
      /\ Weighted(n, weights, 1 .. n) \in [1 .. n -> Nat]
  BY <1>0, DivisorIs, Zenon
<1>3. ASSUME NEW b \in 1 .. n
      PROVE  /\ Share(weights, amount, b) = amount * Weighted(n, weights, 1 .. n)[b]
             /\ Share(weights, amount, b) \in Nat
             /\ share(b) \in Nat /\ share(b) < caps[b]
             /\ Share(weights, amount, b) < D * (share(b) + 1)
  <2>1. weights[b] + Epsilon \in Nat
    BY <1>0, EpsilonAssumption
  <2>2. /\ Share(weights, amount, b) = amount * Weighted(n, weights, 1 .. n)[b]
        /\ Share(weights, amount, b) \in Nat
    BY <2>1 DEF Share, Weighted
  <2> HIDE DEF D
  <2>3. share(b) \in Nat /\ Share(weights, amount, b) < D * (share(b) + 1)
    BY <1>2, <2>2, Quotients
  <2>. QED
    BY <2>2, <2>3 DEF D, Roomy
<1>4. \A b \in 1 .. n : zero[b] = 0
  OBVIOUS
<1> HIDE DEF zero, D
<1>5. Open(zero, caps) = 1 .. n
  <2>1. ASSUME NEW b \in 1 .. n PROVE zero[b] < caps[b]
    <3> HIDE DEF share
    <3>1. share(b) \in Nat /\ caps[b] \in Nat /\ share(b) < caps[b] /\ zero[b] = 0
      BY <1>0, <1>3, <1>4
    <3>. QED
      BY <3>1
  <2>. QED
    BY <1>0, <2>1 DEF Open
<1>6. ASSUME NEW b \in 1 .. n PROVE floors[b] = share(b)
  <2>1. Within(n, zero, caps)
    BY <1>1 DEF Good
  <2> HIDE DEF share
  <2>2. share(b) \in Nat /\ share(b) <= caps[b] /\ zero[b] = 0
    BY <1>0, <1>3, <1>4
  <2>3. zero[b] + share(b) <= caps[b] => floors[b] = share(b)
    <3> DEFINE part == Part(zero, caps, weights, amount, b)
    <3>1. part = share(b)
      BY <1>5 DEF share, D, Part
    <3>2. SUFFICES ASSUME zero[b] + part <= caps[b] PROVE floors[b] = part
      BY <3>1
    <3>3. HasRoom(zero, caps, weights, amount, b) /\ b \in Open(zero, caps) /\ amount \in Nat
      BY <1>5, <3>2 DEF HasRoom
    <3>. QED
      BY <2>1, <3>3, FullShare, SMT
  <2>. QED
    BY <2>2, <2>3
<1>7. /\ Within(n, given, caps)
      /\ \A b \in 1 .. n : given[b] = start.allocation[b] + floors[b]
      /\ left \in Nat /\ Total(given) \in Nat /\ Total(given) + left = amount
  <2>1. start.allocation = zero /\ start.remaining = amount
    OBVIOUS
  <2> HIDE DEF start
  <2>2. /\ Within(n, given, caps)
        /\ \A b \in 1 .. n : given[b] = start.allocation[b]
               + Floors(start.allocation, caps, weights, start.remaining)[b]
        /\ left \in Nat /\ Total(given) \in Nat /\ Total(given) + left = amount
    BY <1>1, GivenIs
  <2>. QED
    BY <2>1, <2>2, Zenon
<1>8. \A b \in 1 .. n : given[b] = share(b)
  <2>1. start.allocation = zero
    OBVIOUS
  <2> HIDE DEF floors, given, share
  <2>2. ASSUME NEW b \in 1 .. n PROVE given[b] = share(b)
    <3>1. given[b] = 0 + share(b) /\ share(b) \in Nat
      BY <1>3, <1>4, <1>6, <1>7, <2>1
    <3>. QED
      BY <3>1
  <2>. QED
    BY <2>2
<1>9. Open(given, caps) = 1 .. n
  <2>1. ASSUME NEW b \in 1 .. n PROVE given[b] < caps[b]
    BY <1>3, <1>8
  <2>. QED
    BY <1>0, <2>1 DEF Open
<1> HIDE DEF given, left
<1>10. left <= n
  <2> DEFINE g == Weighted(n, weights, 1 .. n)
  <2>1. g \in [1 .. n -> Nat] /\ given \in [1 .. n -> Nat] /\ D = Total(g)
    BY <1>2, <1>7 DEF Within
  <2>2. \A b \in 1 .. n : amount * g[b] < D * (given[b] + 1)
    BY <1>3, <1>8 DEF g
  <2> HIDE DEF g
  <2>3. amount <= Total(given) + n
    BY <1>0, <1>2, <2>1, <2>2, UpFits
  <2>. QED
    BY <1>0, <1>7, <2>3
<1>11. extra \in SUBSET Open(given, caps) /\ Cardinality(extra) = left
  <2>1. /\ extra \in SUBSET Open(given, caps)
        /\ Cardinality(extra) = IF left <= Cardinality(Open(given, caps))
                                THEN left ELSE Cardinality(Open(given, caps))
    BY <1>7, ExtraFits
  <2>2. Cardinality(Open(given, caps)) = n
    BY <1>0, <1>9, FS_Interval
  <2>. QED
    BY <1>10, <2>1, <2>2
<1>12. next = [allocation |-> new, remaining |-> left - Cardinality(extra)]
  <2>1. start.remaining # 0
    OBVIOUS
  <2> HIDE DEF start
  <2>. QED
    BY <2>1, RoundIs DEF given, left
<1> HIDE DEF extra
<1>13. \A b \in 1 .. n : new[b] = given[b] + (IF b \in extra THEN 1 ELSE 0)
  <2>1. n \in Nat /\ caps \in [1 .. n -> Nat] /\ Within(n, given, caps)
        /\ extra \in SUBSET Open(given, caps)
    BY <1>0, <1>7, <1>11, Zenon
  <2>. QED
    BY <2>1, MoreIs
<1> HIDE DEF new, share
<1>14. ASSUME NEW b \in 1 .. n PROVE new[b] \in {share(b), share(b) + 1}
  <2>1. new[b] = share(b) + (IF b \in extra THEN 1 ELSE 0) /\ share(b) \in Nat
    BY <1>3, <1>8, <1>13
  <2>. QED
    BY <2>1
<1> HIDE DEF next
<1>15. next.remaining = 0 /\ next.allocation = new
  BY <1>7, <1>11, <1>12
<1>. QED
  BY <1>14, <1>15 DEF next, share, start, zero, D

LEMMA FairShares ==
    ASSUME NEW n, NEW caps, NEW weights, Asked(n, caps, weights),
           NEW amount \in Nat, amount <= Total(caps),
           Roomy(n, caps, weights, amount)
    PROVE  LET quotas == CappedLargestRemainder(weights, caps, amount)
               share(b) == Share(weights, amount, b) \div Divisor(weights, 1 .. n)
           IN  \A b \in 1 .. n : quotas[b] \in {share(b), share(b) + 1}
<1> DEFINE r == Rounds(weights, caps, amount)
           quotas == CappedLargestRemainder(weights, caps, amount)
           share(b) == Share(weights, amount, b) \div Divisor(weights, 1 .. n)
<1>1. /\ r[0] = [allocation |-> [b \in 1 .. n |-> 0], remaining |-> amount]
      /\ \A i \in 0 .. amount - 1 : r[i + 1] = Allocate(r[i], caps, weights)
      /\ quotas = r[amount].allocation
  BY RoundSteps
<1> HIDE DEF r, quotas
<1>2. CASE amount = 0
  <2>1. SUFFICES ASSUME NEW b \in 1 .. n PROVE quotas[b] \in {share(b), share(b) + 1}
    BY DEF quotas
  <2>2. quotas[b] = 0
    <3>1. r[amount] = [allocation |-> [c \in 1 .. n |-> 0], remaining |-> amount]
      BY <1>1, <1>2, Zenon
    <3>2. quotas = [c \in 1 .. n |-> 0]
      BY <1>1, <3>1
    <3>. QED
      BY <3>2
  <2>3. Share(weights, amount, b) = 0
    <3>1. weights[b] + Epsilon \in Nat
      BY EpsilonAssumption DEF Asked
    <3>. QED
      BY <1>2, <3>1 DEF Share
  <2>4. Divisor(weights, 1 .. n) \in Nat /\ Divisor(weights, 1 .. n) > 0
    <3>1. n \in Nat /\ weights \in [1 .. n -> Nat] /\ 1 .. n \in SUBSET (1 .. n) /\ 1 .. n # {}
      BY DEF Asked
    <3>. QED
      BY <3>1, DivisorIs, Zenon
  <2> DEFINE D == Divisor(weights, 1 .. n)
  <2>5. share(b) = 0
    <3> HIDE DEF D
    <3>1. 0 \div D = 0
      BY <2>4 DEF D
    <3>. QED
      BY <2>3, <3>1 DEF D
  <2>. QED
    BY <2>2, <2>5
<1>3. CASE amount # 0
  <2> DEFINE T == {i \in Nat : i + 1 <= amount =>
                      /\ r[i + 1].remaining = 0
                      /\ \A b \in 1 .. n : r[i + 1].allocation[b] \in {share(b), share(b) + 1}}
  <2>1. 0 \in T
    <3>1. r[0 + 1] = Allocate(r[0], caps, weights)
      <4>1. 0 \in 0 .. amount - 1
        BY <1>3
      <4>. QED
        BY <1>1, <4>1
    <3>2. amount \in Nat \ {0}
      BY <1>3
    <3>. QED
      BY <1>1, <3>1, <3>2, OneRound
  <2>2. ASSUME NEW i \in Nat, i \in T PROVE i + 1 \in T
    <3>1. SUFFICES ASSUME (i + 1) + 1 <= amount
                   PROVE  r[(i + 1) + 1] = r[i + 1] /\ i + 1 <= amount
      BY <2>2
    <3>2. i + 1 \in 0 .. amount - 1 /\ i + 1 <= amount
      BY <3>1
    <3>3. r[(i + 1) + 1] = Allocate(r[i + 1], caps, weights) /\ r[i + 1].remaining = 0
      BY <1>1, <2>2, <3>2
    <3>. QED
      BY <3>2, <3>3 DEF Allocate
  <2>3. \A i \in Nat : i \in T
    <3> HIDE DEF T
    <3>. QED
      BY <2>1, <2>2, AllNumbers
  <2>4. amount - 1 \in Nat /\ (amount - 1) + 1 = amount /\ (amount - 1) + 1 <= amount
    BY <1>3
  <2> HIDE DEF share
  <2>5. amount - 1 \in T
    BY <2>3, <2>4
  <2>6. \A b \in 1 .. n : r[amount].allocation[b] \in {share(b), share(b) + 1}
    BY <2>4, <2>5
  <2>. QED
    BY <1>1, <2>6 DEF quotas, share
<1>. QED
  BY <1>2, <1>3

-----------------------------------------------------------------------------
(* Header places                                                           *)

LEMMA HeaderFits ==
    ASSUME NEW n \in Nat, NEW caps \in [1 .. n -> Nat], NEW size \in Nat, size <= Total(caps)
    PROVE  LET used == HeaderUsed(caps, size)
           IN  /\ used \in [1 .. n -> Nat]
               /\ \A b \in 1 .. n : used[b] <= caps[b]
               /\ Total(used) = size
<1> DEFINE before == Sums(caps)
           left(b) == size - Min({size, before[b - 1]})
           f == [b \in 1 .. n |-> Min({caps[b], left(b)})]
<1>1. /\ before[0] = 0 /\ Total(caps) = before[n]
      /\ \A i \in 0 .. n - 1 : before[i + 1] = before[i] + caps[i + 1]
      /\ \A i \in 0 .. n : before[i] \in Int
  <2>1. caps \in [1 .. n -> Int]
    OBVIOUS
  <2>2. Summed(caps, n)
    BY <2>1, SumSteps
  <2>. QED
    BY <2>2 DEF Summed
<1>2. HeaderUsed(caps, size) = f
  <2>1. Len(caps) = n /\ DOMAIN caps = 1 .. n
    OBVIOUS
  <2>2. HeaderUsed(caps, size) = f \o <<>>
    <3>1. HeaderUsed(caps, size)
             = [b \in DOMAIN caps |-> Min({caps[b], left(b)})] \o <<>>
      BY Zenon DEF HeaderUsed, Sums
    <3>. QED
      BY <2>1, <3>1
  <2>3. f = [b \in 1 .. n |-> f[b]]
    OBVIOUS
  <2> HIDE DEF f
  <2>. QED
    BY <2>2, <2>3, OnceIs
<1> HIDE DEF before
<1>3. ASSUME NEW i \in 0 .. n PROVE before[i] \in Nat
  <2> DEFINE T == {k \in Nat : k <= n => before[k] \in Nat}
  <2>1. 0 \in T
    BY <1>1
  <2>2. ASSUME NEW k \in Nat, k \in T PROVE k + 1 \in T
    <3>1. SUFFICES ASSUME k + 1 <= n PROVE before[k + 1] \in Nat
      OBVIOUS
    <3>2. k \in 0 .. n - 1 /\ k + 1 \in 1 .. n /\ before[k] \in Nat
      BY <2>2, <3>1
    <3>3. before[k + 1] = before[k] + caps[k + 1] /\ caps[k + 1] \in Nat
      BY <1>1, <3>2
    <3>. QED
      BY <3>2, <3>3
  <2>3. \A k \in Nat : k \in T
    <3> HIDE DEF T
    <3>. QED
      BY <2>1, <2>2, AllNumbers
  <2>. QED
    BY <2>3
<1>4. ASSUME NEW b \in 1 .. n
      PROVE  /\ before[b - 1] \in Nat /\ caps[b] \in Nat /\ before[b] = before[b - 1] + caps[b]
             /\ f[b] = LET kept == IF size <= before[b - 1] THEN 0 ELSE size - before[b - 1]
                       IN  IF caps[b] <= kept THEN caps[b] ELSE kept
  <2>1. b - 1 \in 0 .. n - 1 /\ b - 1 \in 0 .. n /\ (b - 1) + 1 = b
    OBVIOUS
  <2>2. before[b - 1] \in Nat /\ caps[b] \in Nat /\ before[b] = before[b - 1] + caps[b]
    BY <1>1, <1>3, <2>1
  <2>3. f[b] = Min({caps[b], left(b)})
    OBVIOUS
  <2>4. left(b) = IF size <= before[b - 1] THEN 0 ELSE size - before[b - 1]
    <3> DEFINE p == before[b - 1]
    <3>1. p \in Nat /\ p \in Int /\ size \in Int /\ left(b) = size - Min({size, p})
      BY <2>2
    <3> HIDE DEF p, left
    <3>2. Min({size, p}) = IF size <= p THEN size ELSE p
      BY <3>1, MinOfTwo
    <3>3. left(b) = IF size <= p THEN 0 ELSE size - p
      BY <3>1, <3>2
    <3>. QED
      BY <3>3 DEF p
  <2> HIDE DEF left, f
  <2>5. left(b) \in Int /\ caps[b] \in Int
    BY <2>2, <2>4
  <2>6. Min({caps[b], left(b)}) = IF caps[b] <= left(b) THEN caps[b] ELSE left(b)
    BY <2>5, MinOfTwo
  <2>. QED
    BY <2>2, <2>3, <2>4, <2>6
<1>5. f = [b \in 1 .. n |-> f[b]]
  OBVIOUS
<1> HIDE DEF f, left
<1>6. ASSUME NEW b \in 1 .. n PROVE f[b] \in Nat /\ f[b] <= caps[b]
  <2> DEFINE p == before[b - 1]
             c == caps[b]
             kept == IF size <= p THEN 0 ELSE size - p
  <2>1. p \in Nat /\ c \in Nat /\ f[b] = IF c <= kept THEN c ELSE kept
    BY <1>4
  <2> HIDE DEF p, c
  <2>2. f[b] \in Nat /\ f[b] <= c
    BY <2>1
  <2>. QED
    BY <2>2 DEF c
<1>7. f \in [1 .. n -> Nat]
  BY <1>5, <1>6
<1> DEFINE sum == Sums(f)
<1>8. /\ sum[0] = 0 /\ Total(f) = sum[n]
      /\ \A i \in 0 .. n - 1 : sum[i + 1] = sum[i] + f[i + 1]
  <2>1. f \in [1 .. n -> Int]
    BY <1>7
  <2>2. Summed(f, n)
    BY <2>1, SumSteps
  <2>. QED
    BY <2>2 DEF Summed
<1> HIDE DEF sum
<1> DEFINE T == {k \in Nat : k <= n =>
                    sum[k] = IF size <= before[k] THEN size ELSE before[k]}
<1>9. 0 \in T
  BY <1>1, <1>8
<1>10. ASSUME NEW k \in Nat, k \in T PROVE k + 1 \in T
  <2>1. SUFFICES ASSUME k + 1 <= n
                 PROVE  sum[k + 1] = IF size <= before[k + 1] THEN size ELSE before[k + 1]
    OBVIOUS
  <2> DEFINE b == k + 1
  <2>2. k \in 0 .. n - 1 /\ b \in 1 .. n /\ b - 1 = k
    BY <2>1
  <2>3. sum[b] = sum[k] + f[b] /\ sum[k] = IF size <= before[k] THEN size ELSE before[k]
    BY <1>8, <1>10, <2>1, <2>2
  <2> HIDE DEF b
  <2>4. /\ before[k] \in Nat /\ caps[b] \in Nat /\ before[b] = before[k] + caps[b]
        /\ f[b] = LET kept == IF size <= before[k] THEN 0 ELSE size - before[k]
                  IN  IF caps[b] <= kept THEN caps[b] ELSE kept
    BY <1>4, <2>2
  <2>5. sum[b] = IF size <= before[b] THEN size ELSE before[b]
    <3> DEFINE p == before[k]
               c == caps[b]
               kept == IF size <= p THEN 0 ELSE size - p
    <3>1. /\ p \in Nat /\ c \in Nat /\ before[b] = p + c
          /\ sum[b] = sum[k] + f[b] /\ sum[k] = IF size <= p THEN size ELSE p
          /\ f[b] = IF c <= kept THEN c ELSE kept
      BY <2>3, <2>4
    <3> HIDE DEF p, c
    <3>. QED
      BY <3>1
  <2>. QED
    BY <2>5 DEF b
<1>11. \A k \in Nat : k \in T
  <2> HIDE DEF T
  <2>. QED
    BY <1>9, <1>10, AllNumbers
<1>12. Total(f) = size
  BY <1>1, <1>3, <1>8, <1>11
<1>. QED
  BY <1>2, <1>6, <1>7, <1>12

LEMMA RoomLeft ==
    ASSUME NEW n \in Nat, NEW caps \in [1 .. n -> Nat], NEW used \in [1 .. n -> Nat],
           \A b \in 1 .. n : used[b] <= caps[b]
    PROVE  /\ Room(caps, used) \in [1 .. n -> Nat]
           /\ \A b \in 1 .. n : Room(caps, used)[b] = caps[b] - used[b]
           /\ Total(Room(caps, used)) = Total(caps) - Total(used)
<1> DEFINE room == [b \in 1 .. n |-> caps[b] - used[b]]
<1>1. Room(caps, used) = room
  BY DEF Room
<1>2. ASSUME NEW b \in 1 .. n
      PROVE  room[b] = caps[b] - used[b] /\ room[b] \in Nat /\ caps[b] = used[b] + room[b]
  <2>1. caps[b] \in Nat /\ used[b] \in Nat /\ used[b] <= caps[b]
    OBVIOUS
  <2>. QED
    BY <2>1
<1>3. room = [b \in 1 .. n |-> room[b]]
  OBVIOUS
<1> HIDE DEF room
<1>4. room \in [1 .. n -> Nat]
  BY <1>2, <1>3
<1>5. Total(caps) = Total(used) + Total(room)
  <2>1. caps \in [1 .. n -> Int] /\ used \in [1 .. n -> Int] /\ room \in [1 .. n -> Int]
        /\ \A b \in 1 .. n : caps[b] = used[b] + room[b]
    BY <1>2, <1>4
  <2>. QED
    BY <2>1, TotalAdds
<1>6. Total(used) \in Nat /\ Total(room) \in Nat
  BY <1>4, TotalNat
<1>7. Total(room) = Total(caps) - Total(used)
  BY <1>5, <1>6
<1>. QED
  BY <1>1, <1>2, <1>4, <1>7

-----------------------------------------------------------------------------
(* The order of the slots                                                  *)

\* s is the m members of S in some order, each of them once.
Listing(s, m, S) ==
    /\ Word(s, m)
    /\ \A k \in 1 .. m : s[k] \in S
    /\ \A x \in S : \E k \in 1 .. m : s[k] = x
    /\ \A j, k \in 1 .. m : s[j] = s[k] => j = k

LEMMA ListingCounts ==
    ASSUME NEW s, NEW m \in Nat, NEW S, Listing(s, m, S)
    PROVE  IsFiniteSet(S) /\ Cardinality(S) = m
<1> DEFINE f == [k \in 1 .. m |-> s[k]]
<1>1. f \in Surjection(1 .. m, S) /\ f \in Injection(1 .. m, S)
  BY DEF Listing, Surjection, Injection, IsInjective
<1>2. IsFiniteSet(1 .. m) /\ Cardinality(1 .. m) = m
  BY FS_Interval
<1> HIDE DEF f
<1>3. /\ IsFiniteSet(S)
      /\ (Cardinality(S) = Cardinality(1 .. m)) <=> f \in Injection(1 .. m, S)
  BY <1>1, <1>2, FS_Surjection
<1>. QED
  BY <1>1, <1>2, <1>3

LEMMA JoinLists ==
    ASSUME NEW n \in Nat, NEW m \in Nat, NEW s, NEW t, NEW S, NEW T,
           Listing(s, n, S), Listing(t, m, T), \A x \in S : x \notin T
    PROVE  Listing(s \o t, n + m, S \cup T)
<1> DEFINE u == s \o t
<1>1. Appends(u, s, n, t, m)
  BY Appended DEF Listing
<1> HIDE DEF u
<1>2. /\ Word(u, n + m) /\ \A k \in 1 .. n : u[k] = s[k] /\ s[k] \in S
      /\ \A k \in 1 .. m : u[n + k] = t[k] /\ t[k] \in T
  BY <1>1 DEF Appends, Listing
<1>3. ASSUME NEW k \in 1 .. n + m
      PROVE  k \in 1 .. n \/ (k - n \in 1 .. m /\ k = n + (k - n))
  OBVIOUS
<1>4. ASSUME NEW k \in 1 .. n + m
      PROVE  /\ k \in 1 .. n => u[k] \in S /\ u[k] = s[k]
             /\ k \notin 1 .. n => k - n \in 1 .. m /\ u[k] \in T /\ u[k] = t[k - n]
  <2>1. CASE k \in 1 .. n
    BY <1>2, <2>1
  <2>2. CASE k \notin 1 .. n
    <3>1. k - n \in 1 .. m /\ k = n + (k - n)
      BY <1>3, <2>2
    <3>2. u[n + (k - n)] = t[k - n] /\ t[k - n] \in T
      BY <1>2, <3>1
    <3>. QED
      BY <2>2, <3>1, <3>2
  <2>. QED
    BY <2>1, <2>2
<1>5. \A k \in 1 .. n + m : u[k] \in S \cup T
  BY <1>4
<1>6. ASSUME NEW x \in S \cup T PROVE \E k \in 1 .. n + m : u[k] = x
  <2>1. CASE x \in S
    <3>1. PICK k \in 1 .. n : s[k] = x
      BY <2>1 DEF Listing
    <3>2. k \in 1 .. n + m /\ u[k] = x
      BY <1>2, <3>1
    <3>. QED
      BY <3>2
  <2>2. CASE x \in T
    <3>1. PICK k \in 1 .. m : t[k] = x
      BY <2>2 DEF Listing
    <3>2. n + k \in 1 .. n + m /\ u[n + k] = x
      BY <1>2, <3>1
    <3>. QED
      BY <3>2
  <2>. QED
    BY <2>1, <2>2
<1>7. ASSUME NEW j \in 1 .. n + m, NEW k \in 1 .. n + m, u[j] = u[k] PROVE j = k
  <2>1. CASE j \in 1 .. n /\ k \in 1 .. n
    <3>1. s[j] = s[k]
      BY <1>2, <1>7, <2>1
    <3>. QED
      BY <2>1, <3>1 DEF Listing
  <2>2. CASE j \notin 1 .. n /\ k \notin 1 .. n
    <3>1. j - n \in 1 .. m /\ k - n \in 1 .. m /\ t[j - n] = t[k - n]
      BY <1>4, <1>7, <2>2
    <3>2. j - n = k - n
      BY <3>1 DEF Listing
    <3>. QED
      BY <3>2
  <2>3. CASE (j \in 1 .. n /\ k \notin 1 .. n) \/ (j \notin 1 .. n /\ k \in 1 .. n)
    BY <1>4, <1>7, <2>3
  <2>. QED
    BY <2>1, <2>2, <2>3
<1>. QED
  BY <1>2, <1>5, <1>6, <1>7 DEF Listing, u

\* Pieces that list sets which have nothing in common, and all of them.
Apart(n, sets) == \A i, j \in 1 .. n : i # j => \A x \in sets[i] : x \notin sets[j]
Whole(n, sets) == UNION {sets[i] : i \in 1 .. n}
Pieces(n, words, lens, sets) ==
    /\ Word(words, n) /\ lens \in [1 .. n -> Nat]
    /\ \A i \in 1 .. n : Listing(words[i], lens[i], sets[i])

LEMMA WholeIs ==
    ASSUME NEW n, NEW sets, NEW x
    PROVE  x \in Whole(n, sets) <=> \E i \in 1 .. n : x \in sets[i]
BY Zenon DEF Whole

\* Lists of disjoint sets, one after the other, list their union.
LEMMA FlattenLists ==
    ASSUME NEW n, n \in Nat, NEW words, NEW lens, NEW sets,
           Pieces(n, words, lens, sets), Apart(n, sets)
    PROVE  Listing(Seqs!FlattenSeq(words), Total(lens), Whole(n, sets)) /\ Total(lens) \in Nat
<1> DEFINE join == Joins(words)
           sum == Sums(lens)
           upTo(k) == UNION {sets[i] : i \in 1 .. k}
<1>0. /\ Word(words, n) /\ lens \in [1 .. n -> Nat]
      /\ \A i \in 1 .. n : Listing(words[i], lens[i], sets[i])
      /\ \A i, j \in 1 .. n : i # j => \A x \in sets[i] : x \notin sets[j]
      /\ upTo(n) = Whole(n, sets)
  BY Zenon DEF Pieces, Apart, Whole
<1>1. Len(words) = n
  BY <1>0, WordIs
<1>2. /\ sum[0] = 0 /\ Total(lens) = sum[n] /\ Total(lens) \in Nat
      /\ \A i \in 0 .. n - 1 : sum[i + 1] = sum[i] + lens[i + 1]
      /\ \A i \in 0 .. n : sum[i] \in Int
  <2>1. lens \in [1 .. n -> Int]
    BY <1>0
  <2>2. Summed(lens, n)
    BY <2>1, SumSteps
  <2>3. Total(lens) \in Nat
    BY <1>0, TotalNat
  <2>. QED
    BY <2>2, <2>3 DEF Summed
<1>3. CASE n = 0
  <2>1. Seqs!FlattenSeq(words) = words
    BY <1>1, <1>3 DEF Seqs!FlattenSeq
  <2>2. Total(lens) = 0
    BY <1>2, <1>3
  <2>3. Listing(words, 0, upTo(n))
    BY <1>0, <1>3 DEF Listing
  <2>. QED
    BY <1>0, <1>2, <2>1, <2>2, <2>3, Zenon
<1>4. CASE n # 0
  <2>1. join = [i \in 1 .. n |-> IF i = 1 THEN words[i] ELSE join[i - 1] \o words[i]]
    <3>1. \E f : f = [i \in 1 .. Len(words) |-> IF i = 1 THEN words[i] ELSE f[i - 1] \o words[i]]
      <4>1. Len(words) \in Nat
        BY <1>1
      <4>. QED
        BY <4>1, JoinsExist, Zenon
    <3>. QED
      BY <1>1, <3>1 DEF Joins
  <2>2. Seqs!FlattenSeq(words) = join[n]
    BY <1>1, <1>4 DEF Seqs!FlattenSeq, Joins
  <2> HIDE DEF join, sum
  <2>3. \A i \in 1 .. n : join[i] = IF i = 1 THEN words[i] ELSE join[i - 1] \o words[i]
    BY <2>1, Zenon
  <2> DEFINE R == {k \in Nat : k + 1 <= n => /\ sum[k + 1] \in Nat
                                             /\ Listing(join[k + 1], sum[k + 1], upTo(k + 1))}
  <2>4. 0 \in R
    <3>1. 1 \in 1 .. n /\ 0 \in 0 .. n - 1
      BY <1>4
    <3>2. join[1] = words[1] /\ sum[0 + 1] = sum[0] + lens[0 + 1] /\ 0 + 1 = 1
      BY <1>2, <2>3, <3>1
    <3>3. lens[1] \in Nat
      BY <1>0, <3>1
    <3>4. sum[1] = lens[1]
      BY <1>2, <3>2, <3>3
    <3>5. upTo(1) = sets[1]
      <4>1. \A i \in 1 .. 1 : i = 1
        OBVIOUS
      <4>2. 1 \in 1 .. 1
        OBVIOUS
      <4>. QED
        BY <4>1, <4>2, Zenon
    <3> HIDE DEF upTo
    <3>6. Listing(join[1], sum[1], upTo(1))
      BY <1>0, <3>1, <3>2, <3>4, <3>5
    <3>. QED
      BY <3>3, <3>4, <3>6, <3>2
  <2>5. ASSUME NEW k \in Nat, k \in R PROVE k + 1 \in R
    <3> DEFINE j == k + 1
    <3>1. SUFFICES ASSUME j + 1 <= n
                   PROVE  sum[j + 1] \in Nat /\ Listing(join[j + 1], sum[j + 1], upTo(j + 1))
      OBVIOUS
    <3>2. /\ j \in Nat /\ j >= 1 /\ j <= n /\ j \in 0 .. n - 1 /\ j \in 1 .. n
          /\ j + 1 \in 1 .. n /\ j + 1 # 1 /\ (j + 1) - 1 = j
      BY <3>1
    <3>3. sum[j] \in Nat /\ Listing(join[j], sum[j], upTo(j))
      BY <2>5, <3>2
    <3> HIDE DEF j
    <3>4. join[j + 1] = join[j] \o words[j + 1]
      BY <2>3, <3>2
    <3>5. sum[j + 1] = sum[j] + lens[j + 1] /\ lens[j + 1] \in Nat
      BY <1>0, <1>2, <3>2
    <3>6. Listing(words[j + 1], lens[j + 1], sets[j + 1])
      BY <1>0, <3>2
    <3>7. \A x \in upTo(j) : x \notin sets[j + 1]
      <4>1. SUFFICES ASSUME NEW i \in 1 .. j, NEW x \in sets[i] PROVE x \notin sets[j + 1]
        BY Zenon
      <4>2. i \in 1 .. n /\ j + 1 \in 1 .. n /\ i # j + 1
        BY <3>2
      <4>. QED
        BY <1>0, <4>2
    <3>8. upTo(j + 1) = upTo(j) \cup sets[j + 1]
      <4>1. \A i \in 1 .. j + 1 : i \in 1 .. j \/ i = j + 1
        BY <3>2
      <4>2. j + 1 \in 1 .. j + 1 /\ \A i \in 1 .. j : i \in 1 .. j + 1
        BY <3>2
      <4>. QED
        BY <4>1, <4>2, Zenon
    <3> HIDE DEF upTo
    <3>9. Listing(join[j] \o words[j + 1], sum[j] + lens[j + 1], upTo(j) \cup sets[j + 1])
      BY <3>3, <3>5, <3>6, <3>7, JoinLists
    <3>10. sum[j + 1] \in Nat
      BY <3>3, <3>5
    <3>. QED
      BY <3>4, <3>5, <3>8, <3>9, <3>10, Zenon
  <2>6. \A k \in Nat : k \in R
    <3> HIDE DEF R
    <3>. QED
      BY <2>4, <2>5, AllNumbers
  <2>7. n - 1 \in Nat /\ (n - 1) + 1 = n /\ (n - 1) + 1 <= n
    BY <1>4
  <2> HIDE DEF upTo
  <2>8. Listing(join[n], sum[n], upTo(n))
    BY <2>6, <2>7
  <2>9. Total(lens) = sum[n]
    BY <1>2 DEF sum
  <2>. QED
    BY <1>0, <1>2, <2>2, <2>8, <2>9, Zenon DEF upTo
<1>. QED
  BY <1>3, <1>4

\* The slots of one band, and of all of them.
SlotsOf(starts, counts, b) == {<<b, starts[b] + k>> : k \in 1 .. counts[b]}
SlotsOfAll(n, starts, counts) == UNION {SlotsOf(starts, counts, b) : b \in 1 .. n}

LEMMA SlotsDiffer ==
    ASSUME NEW starts, NEW counts, NEW b, NEW c, b # c
    PROVE  \A x \in SlotsOf(starts, counts, b) : x \notin SlotsOf(starts, counts, c)
BY DEF SlotsOf

LEMMA PlacesAre ==
    ASSUME NEW n \in Nat, NEW caps \in [1 .. n -> Nat],
           NEW starts \in [1 .. n -> Nat], NEW counts \in [1 .. n -> Nat]
    PROVE  LET slots == PlacesOf(caps, starts, counts)
           IN  /\ Word(slots, n)
               /\ \A b \in 1 .. n :
                     /\ Len(slots[b]) = counts[b]
                     /\ \A k \in 1 .. counts[b] : slots[b][k] = <<b, starts[b] + k>>
                     /\ Listing(slots[b], counts[b], SlotsOf(starts, counts, b))
<1> DEFINE f == [b \in 1 .. n |-> Places(b, starts[b], counts[b]) \o <<>>]
           slots == PlacesOf(caps, starts, counts)
<1>1. slots = f
  <2>1. slots = f \o <<>>
    BY DEF PlacesOf
  <2>2. f = [b \in 1 .. n |-> f[b]]
    OBVIOUS
  <2> HIDE DEF f
  <2>. QED
    BY <2>1, <2>2, OnceIs
<1>2. f = [b \in 1 .. n |-> f[b]]
  OBVIOUS
<1>3. ASSUME NEW b \in 1 .. n
      PROVE  /\ Len(f[b]) = counts[b]
             /\ \A k \in 1 .. counts[b] : f[b][k] = <<b, starts[b] + k>>
             /\ Listing(f[b], counts[b], SlotsOf(starts, counts, b))
  <2> DEFINE m == counts[b]
             p == Places(b, starts[b], m)
  <2>1. m \in Nat /\ starts[b] \in Nat
    OBVIOUS
  <2>2. p = [k \in 1 .. m |-> <<b, starts[b] + k>>]
    BY DEF Places
  <2>3. f[b] = p \o <<>>
    OBVIOUS
  <2> HIDE DEF p, m, f
  <2>4. \A k \in 1 .. m : p[k] = <<b, starts[b] + k>>
    BY <2>2
  <2>5. p = [k \in 1 .. m |-> p[k]]
    BY <2>2
  <2>6. f[b] = p /\ Len(p) = m
    BY <2>1, <2>3, <2>5, OnceIs
  <2>7. Word(p, m)
    BY <2>5 DEF Word
  <2>8. \A j, k \in 1 .. m : p[j] = p[k] => j = k
    <3>1. SUFFICES ASSUME NEW j \in 1 .. m, NEW k \in 1 .. m, p[j] = p[k] PROVE j = k
      OBVIOUS
    <3>2. <<b, starts[b] + j>> = <<b, starts[b] + k>>
      BY <2>4, <3>1
    <3>3. starts[b] + j = starts[b] + k
      BY <3>2
    <3>. QED
      BY <2>1, <3>3
  <2>9. SlotsOf(starts, counts, b) = {<<b, starts[b] + k>> : k \in 1 .. m}
    BY DEF SlotsOf, m
  <2>10. \A k \in 1 .. m : p[k] \in SlotsOf(starts, counts, b)
    BY <2>4, <2>9
  <2>11. \A x \in SlotsOf(starts, counts, b) : \E k \in 1 .. m : p[k] = x
    BY <2>4, <2>9
  <2>12. Listing(p, m, SlotsOf(starts, counts, b))
    BY <2>7, <2>8, <2>10, <2>11 DEF Listing
  <2>. QED
    BY <2>4, <2>6, <2>12 DEF m
<1> HIDE DEF f, slots
<1>4. Word(slots, n)
  BY <1>1, <1>2 DEF Word
<1>. QED
  BY <1>1, <1>3, <1>4 DEF slots

\* Band after band: as many slots as the counts add up to.
LEMMA BandAfterBand ==
    ASSUME NEW n \in Nat, NEW caps \in [1 .. n -> Nat],
           NEW starts \in [1 .. n -> Nat], NEW counts \in [1 .. n -> Nat]
    PROVE  Listing(Seqs!FlattenSeq(PlacesOf(caps, starts, counts)), Total(counts),
                   SlotsOfAll(n, starts, counts))
<1> DEFINE slots == PlacesOf(caps, starts, counts)
           sets == [b \in 1 .. n |-> SlotsOf(starts, counts, b)]
<1>1. /\ Word(slots, n)
      /\ \A b \in 1 .. n : Listing(slots[b], counts[b], SlotsOf(starts, counts, b))
  BY PlacesAre
<1>2. \A b \in 1 .. n : sets[b] = SlotsOf(starts, counts, b)
  OBVIOUS
<1>3. Whole(n, sets) = SlotsOfAll(n, starts, counts)
  BY <1>2, Zenon DEF SlotsOfAll, Whole
<1> HIDE DEF slots, sets
<1>4. Apart(n, sets)
  <2>1. SUFFICES ASSUME NEW b \in 1 .. n, NEW c \in 1 .. n, b # c
                 PROVE  \A x \in sets[b] : x \notin sets[c]
    BY DEF Apart
  <2>2. \A x \in SlotsOf(starts, counts, b) : x \notin SlotsOf(starts, counts, c)
    BY <2>1, SlotsDiffer
  <2>. QED
    BY <1>2, <2>2
<1>5. Pieces(n, slots, counts, sets)
  BY <1>1, <1>2 DEF Pieces
<1>6. Listing(Seqs!FlattenSeq(slots), Total(counts), Whole(n, sets))
  BY <1>4, <1>5, FlattenLists
<1>. QED
  BY <1>3, <1>6 DEF slots

\* By falling score: the same slots.
LEMMA ByScore ==
    ASSUME NEW n \in Nat, NEW caps \in [1 .. n -> Nat], NEW scores \in [1 .. n -> Nat],
           NEW starts \in [1 .. n -> Nat], NEW counts \in [1 .. n -> Nat]
    PROVE  LET slots == PlacesOf(caps, starts, counts)
           IN  \E m \in Nat :
                  Listing(Seqs!FlattenSeq([i \in DOMAIN slots |-> slots[Ranked(scores)[i]]]),
                          m, SlotsOfAll(n, starts, counts))
<1> DEFINE slots == PlacesOf(caps, starts, counts)
           rank == Ranked(scores)
           words == [i \in 1 .. n |-> slots[rank[i]]]
           lens == [i \in 1 .. n |-> counts[rank[i]]]
           sets == [i \in 1 .. n |-> SlotsOf(starts, counts, rank[i])]
<1>1. /\ Word(slots, n)
      /\ \A b \in 1 .. n : Listing(slots[b], counts[b], SlotsOf(starts, counts, b))
  BY PlacesAre
<1>2. /\ rank \in [1 .. n -> 1 .. n]
      /\ \A i, j \in 1 .. n : rank[i] = rank[j] => i = j
      /\ \A b \in 1 .. n : \E i \in 1 .. n : rank[i] = b
  <2>1. scores \in [1 .. n -> Int]
    OBVIOUS
  <2>. QED
    BY <2>1, RankedSorts
<1>3. DOMAIN slots = 1 .. n
  BY <1>1 DEF Word
<1> HIDE DEF slots, rank
<1>4. /\ words = [i \in DOMAIN slots |-> slots[rank[i]]]
      /\ Word(words, n)
  BY <1>3 DEF Word
<1>5. /\ lens \in [1 .. n -> Nat]
      /\ \A i \in 1 .. n : /\ words[i] = slots[rank[i]] /\ lens[i] = counts[rank[i]]
                           /\ sets[i] = SlotsOf(starts, counts, rank[i])
  BY <1>2
<1>6. Whole(n, sets) = SlotsOfAll(n, starts, counts)
  <2> HIDE DEF sets
  <2>1. ASSUME NEW x, NEW i \in 1 .. n, x \in sets[i] PROVE x \in SlotsOfAll(n, starts, counts)
    <3>1. rank[i] \in 1 .. n /\ x \in SlotsOf(starts, counts, rank[i])
      BY <1>2, <1>5, <2>1
    <3>. QED
      BY <3>1, Zenon DEF SlotsOfAll
  <2>2. ASSUME NEW x, NEW b \in 1 .. n, x \in SlotsOf(starts, counts, b)
        PROVE  \E i \in 1 .. n : x \in sets[i]
    <3>1. PICK i \in 1 .. n : rank[i] = b
      BY <1>2
    <3>. QED
      BY <1>5, <2>2, <3>1
  <2>3. \A x : x \in Whole(n, sets) <=> x \in SlotsOfAll(n, starts, counts)
    BY <2>1, <2>2, Zenon DEF SlotsOfAll, Whole
  <2>. QED
    BY <2>3, Zenon
<1> HIDE DEF words, lens, sets
<1>7. Apart(n, sets)
  <2>1. SUFFICES ASSUME NEW i \in 1 .. n, NEW j \in 1 .. n, i # j
                 PROVE  \A x \in sets[i] : x \notin sets[j]
    BY DEF Apart
  <2>2. rank[i] # rank[j]
    BY <1>2, <2>1
  <2>3. \A x \in SlotsOf(starts, counts, rank[i]) : x \notin SlotsOf(starts, counts, rank[j])
    BY <2>2, SlotsDiffer
  <2>. QED
    BY <1>5, <2>3
<1>8. \A i \in 1 .. n : Listing(words[i], lens[i], sets[i])
  <2>1. SUFFICES ASSUME NEW i \in 1 .. n PROVE Listing(words[i], lens[i], sets[i])
    OBVIOUS
  <2>2. rank[i] \in 1 .. n
    BY <1>2
  <2>3. Listing(slots[rank[i]], counts[rank[i]], SlotsOf(starts, counts, rank[i]))
    BY <1>1, <2>2
  <2>. QED
    BY <1>5, <2>3
<1>9. Pieces(n, words, lens, sets)
  BY <1>4, <1>5, <1>8 DEF Pieces
<1>10. Listing(Seqs!FlattenSeq(words), Total(lens), Whole(n, sets)) /\ Total(lens) \in Nat
  BY <1>7, <1>9, FlattenLists
<1>. QED
  BY <1>4, <1>6, <1>10, Zenon DEF slots, rank

\* The longest of the bands.
LEMMA Longest ==
    ASSUME NEW n \in Nat, NEW counts \in [1 .. n -> Nat]
    PROVE  LET m == Max({counts[b] : b \in 1 .. n} \cup {0})
           IN  m \in Nat /\ \A b \in 1 .. n : counts[b] <= m
<1> DEFINE S == {counts[b] : b \in 1 .. n} \cup {0}
           T == {k \in Nat : k <= n => \E x \in S : x \in Nat /\ \A b \in 1 .. k : counts[b] <= x}
<1>1. 0 \in T
  <2>1. 0 \in S /\ \A b \in 1 .. 0 : counts[b] <= 0
    OBVIOUS
  <2> HIDE DEF S
  <2>. QED
    BY <2>1
<1>2. ASSUME NEW k \in Nat, k \in T PROVE k + 1 \in T
  <2>1. SUFFICES ASSUME k + 1 <= n
                 PROVE  \E x \in S : x \in Nat /\ \A b \in 1 .. k + 1 : counts[b] <= x
    OBVIOUS
  <2>2. PICK x \in S : x \in Nat /\ \A b \in 1 .. k : counts[b] <= x
    BY <1>2, <2>1
  <2>3. k + 1 \in 1 .. n /\ counts[k + 1] \in Nat /\ counts[k + 1] \in S
    BY <2>1
  <2>4. \A b \in 1 .. k + 1 : b \in 1 .. k \/ b = k + 1
    OBVIOUS
  <2> HIDE DEF S
  <2>5. CASE counts[k + 1] <= x
    BY <2>2, <2>4, <2>5
  <2>6. CASE ~ (counts[k + 1] <= x)
    <3>1. \A b \in 1 .. k : counts[b] <= counts[k + 1]
      <4>1. SUFFICES ASSUME NEW b \in 1 .. k PROVE counts[b] <= counts[k + 1]
        OBVIOUS
      <4>2. counts[b] <= x /\ b \in 1 .. n
        BY <2>1, <2>2
      <4>3. counts[b] \in Nat
        BY <4>2
      <4>. QED
        BY <2>2, <2>3, <2>6, <4>2, <4>3
    <3>2. \A b \in 1 .. k + 1 : counts[b] <= counts[k + 1]
      BY <2>3, <2>4, <3>1
    <3>. QED
      BY <2>3, <3>2
  <2>. QED
    BY <2>5, <2>6
<1>3. \A k \in Nat : k \in T
  <2> HIDE DEF T
  <2>. QED
    BY <1>1, <1>2, AllNumbers
<1>4. PICK x \in S : x \in Nat /\ \A b \in 1 .. n : counts[b] <= x
  <2>1. n \in T
    BY <1>3
  <2> HIDE DEF S
  <2>. QED
    BY <2>1
<1>5. \A y \in S : x >= y
  BY <1>4
<1> HIDE DEF S
<1>6. Max(S) \in S /\ \A y \in S : Max(S) >= y
  BY <1>5, Zenon DEF Max
<1>. QED
  BY <1>6 DEF S

\* The first slot of every band, then the second of every band, ...: the same
\* slots.
LEMMA RoundRobinLists ==
    ASSUME NEW n \in Nat, NEW caps \in [1 .. n -> Nat],
           NEW starts \in [1 .. n -> Nat], NEW counts \in [1 .. n -> Nat]
    PROVE  \E m \in Nat : Listing(RoundRobin(PlacesOf(caps, starts, counts)), m,
                                  SlotsOfAll(n, starts, counts))
<1> DEFINE slots == PlacesOf(caps, starts, counts)
           top == Max({Len(slots[b]) : b \in DOMAIN slots} \cup {0})
           turn(o) == [b \in 1 .. n |-> IF o <= Len(slots[b]) THEN <<slots[b][o]>> ELSE <<>>]
           words == [o \in 1 .. top |-> Seqs!FlattenSeq(turn(o) \o <<>>)]
           took(o) == [b \in 1 .. n |-> IF o <= counts[b] THEN 1 ELSE 0]
           took1(o) == [b \in 1 .. n |-> IF o <= counts[b] THEN {<<b, starts[b] + o>>} ELSE {}]
           lens == [o \in 1 .. top |-> Total(took(o))]
           sets == [o \in 1 .. top |-> Whole(n, took1(o))]
<1>1. /\ Word(slots, n) /\ DOMAIN slots = 1 .. n
      /\ \A b \in 1 .. n : /\ Len(slots[b]) = counts[b] /\ counts[b] \in Nat
                           /\ \A k \in 1 .. counts[b] : slots[b][k] = <<b, starts[b] + k>>
  <2>1. /\ Word(slots, n)
        /\ \A b \in 1 .. n : /\ Len(slots[b]) = counts[b]
                             /\ \A k \in 1 .. counts[b] : slots[b][k] = <<b, starts[b] + k>>
    BY PlacesAre, ZenonT(30)
  <2>2. DOMAIN slots = 1 .. n
    BY <2>1 DEF Word
  <2>. QED
    BY <2>1, <2>2
<1> HIDE DEF slots
<1>2. top \in Nat /\ \A b \in 1 .. n : counts[b] <= top
  <2>1. {Len(slots[b]) : b \in DOMAIN slots} = {counts[b] : b \in 1 .. n}
    BY <1>1
  <2>2. top = Max({counts[b] : b \in 1 .. n} \cup {0})
    BY <2>1
  <2>. QED
    BY <2>2, Longest
<1>3. RoundRobin(slots) = Seqs!FlattenSeq(words \o <<>>)
  BY <1>1, Zenon DEF RoundRobin
<1> HIDE DEF top
<1>4. /\ words = [o \in 1 .. top |-> words[o]] /\ lens = [o \in 1 .. top |-> lens[o]]
      /\ \A o \in 1 .. top : /\ words[o] = Seqs!FlattenSeq(turn(o) \o <<>>)
                             /\ lens[o] = Total(took(o))
                             /\ sets[o] = Whole(n, took1(o))
  OBVIOUS
<1> HIDE DEF words, lens, sets
<1>5. words \o <<>> = words /\ Word(words, top)
  BY <1>2, <1>4, OnceIs DEF Word
<1>6. ASSUME NEW o \in 1 .. top
      PROVE  Listing(words[o], lens[o], sets[o]) /\ lens[o] \in Nat
  <2>1. ASSUME NEW b \in 1 .. n
        PROVE  Listing(turn(o)[b], took(o)[b], took1(o)[b])
    <3>1. CASE o <= counts[b]
      <4>1. o \in 1 .. counts[b] /\ slots[b][o] = <<b, starts[b] + o>>
        BY <1>1, <3>1
      <4>2. turn(o)[b] = <<<<b, starts[b] + o>>>> /\ took(o)[b] = 1
            /\ took1(o)[b] = {<<b, starts[b] + o>>}
        BY <1>1, <3>1, <4>1
      <4> DEFINE x == <<b, starts[b] + o>>
      <4> HIDE DEF x
      <4>3. Listing(<<x>>, 1, {x})
        BY DEF Listing, Word
      <4>. QED
        BY <4>2, <4>3 DEF x
    <3>2. CASE ~ (o <= counts[b])
      <4>1. turn(o)[b] = <<>> /\ took(o)[b] = 0 /\ took1(o)[b] = {}
        BY <1>1, <3>2
      <4>2. Listing(<<>>, 0, {})
        BY DEF Listing, Word
      <4>. QED
        BY <4>1, <4>2
    <3>. QED
      BY <3>1, <3>2
  <2>2. ASSUME NEW b \in 1 .. n, NEW c \in 1 .. n, b # c, NEW x \in took1(o)[b]
        PROVE  x \notin took1(o)[c]
    <3>1. x = <<b, starts[b] + o>> /\ (x \in took1(o)[c] => x = <<c, starts[c] + o>>)
      OBVIOUS
    <3>. QED
      BY <2>2, <3>1
  <2>3. took(o) \in [1 .. n -> Nat]
    OBVIOUS
  <2>4. turn(o) = [b \in 1 .. n |-> turn(o)[b]]
    OBVIOUS
  <2> DEFINE one == turn(o)
             size == took(o)
             set == took1(o)
  <2> HIDE DEF one, size, set
  <2>5. one \o <<>> = one /\ Word(one, n)
    BY <2>4, OnceIs DEF Word, one
  <2>6. Pieces(n, one, size, set)
    BY <2>1, <2>3, <2>5 DEF one, size, set, Pieces
  <2>7. Apart(n, set)
    BY <2>2, Zenon DEF Apart, set
  <2>8. Listing(Seqs!FlattenSeq(one), Total(size), Whole(n, set)) /\ Total(size) \in Nat
    BY <2>6, <2>7, FlattenLists
  <2>. QED
    BY <1>4, <2>5, <2>8 DEF one, size, set
<1>7. ASSUME NEW o \in 1 .. top, NEW x
      PROVE  x \in sets[o] <=> \E b \in 1 .. n : o <= counts[b] /\ x = <<b, starts[b] + o>>
  <2>1. x \in sets[o] <=> \E b \in 1 .. n : x \in took1(o)[b]
    <3> DEFINE set == took1(o)
    <3>1. sets[o] = Whole(n, set)
      BY <1>4
    <3> HIDE DEF set
    <3>2. x \in sets[o] <=> \E b \in 1 .. n : x \in set[b]
      BY <3>1, WholeIs
    <3>. QED
      BY <3>2 DEF set
  <2>2. \A b \in 1 .. n : x \in took1(o)[b] <=> o <= counts[b] /\ x = <<b, starts[b] + o>>
    OBVIOUS
  <2>. QED
    BY <2>1, <2>2, Zenon
<1>8. ASSUME NEW o \in 1 .. top, NEW p \in 1 .. top, o # p, NEW x \in sets[o]
      PROVE  x \notin sets[p]
  <2>1. PICK b \in 1 .. n : x = <<b, starts[b] + o>>
    BY <1>7
  <2>2. ASSUME x \in sets[p] PROVE FALSE
    <3>1. PICK c \in 1 .. n : x = <<c, starts[c] + p>>
      BY <1>7, <2>2
    <3>2. b = c /\ starts[b] + o = starts[c] + p
      BY <2>1, <3>1
    <3>3. starts[b] \in Nat
      OBVIOUS
    <3>. QED
      BY <1>8, <3>2, <3>3
  <2>. QED
    BY <2>2
<1>9. Whole(top, sets) = SlotsOfAll(n, starts, counts)
  <2>1. ASSUME NEW x, NEW o \in 1 .. top, x \in sets[o] PROVE x \in SlotsOfAll(n, starts, counts)
    <3>1. PICK b \in 1 .. n : o <= counts[b] /\ x = <<b, starts[b] + o>>
      BY <1>7, <2>1
    <3>2. o \in 1 .. counts[b]
      BY <1>1, <3>1
    <3>3. x \in SlotsOf(starts, counts, b)
      BY <3>1, <3>2 DEF SlotsOf
    <3>. QED
      BY <3>3, Zenon DEF SlotsOfAll
  <2>2. ASSUME NEW x, NEW b \in 1 .. n, x \in SlotsOf(starts, counts, b)
        PROVE  \E o \in 1 .. top : x \in sets[o]
    <3>1. PICK o \in 1 .. counts[b] : x = <<b, starts[b] + o>>
      BY <2>2 DEF SlotsOf
    <3>2. o \in 1 .. top /\ o <= counts[b]
      BY <1>1, <1>2
    <3>. QED
      BY <1>7, <3>1, <3>2
  <2>3. \A x : x \in Whole(top, sets) <=> x \in SlotsOfAll(n, starts, counts)
    BY <2>1, <2>2, Zenon DEF SlotsOfAll, Whole
  <2>. QED
    BY <2>3, Zenon
<1>10. lens \in [1 .. top -> Nat]
  BY <1>4, <1>6
<1>11. Pieces(top, words, lens, sets)
  BY <1>5, <1>6, <1>10 DEF Pieces
<1>12. Apart(top, sets)
  BY <1>8, Zenon DEF Apart
<1>13. Listing(Seqs!FlattenSeq(words), Total(lens), Whole(top, sets)) /\ Total(lens) \in Nat
  BY <1>2, <1>11, <1>12, FlattenLists
<1>. QED
  BY <1>3, <1>5, <1>9, <1>13, Zenon DEF slots

-----------------------------------------------------------------------------
(* The plan                                                                *)

\* What build_method_slot_plan is asked for, within the capacities.
Plannable(n, caps, scores, size, required) ==
    /\ n \in Nat /\ caps \in [1 .. n -> Nat] /\ scores \in [1 .. n -> Nat]
    /\ size \in Nat /\ required \in Nat /\ size <= required /\ required <= Total(caps)

\* The slots of a plan, header first: no slot twice, as many as required, and
\* every one within its band's capacity.
LEMMA PlanSlots ==
    ASSUME NEW n, NEW caps, NEW scores, NEW size, NEW required,
           Plannable(n, caps, scores, size, required), NEW method
    PROVE  LET plan == BuildSlotPlan(method, caps, scores, size, required)
               order == plan.header \o plan.body
           IN  \E S : /\ Listing(order, required, S)
                      /\ \A x \in S : \E b \in 1 .. n : \E i \in 1 .. caps[b] : x = <<b, i>>
<1> DEFINE used == HeaderUsed(caps, size)
           weights == Weights(method, caps, scores)
           room == Room(caps, used)
           quotas == CappedLargestRemainder(weights, room, required - size)
           plan == BuildSlotPlan(method, caps, scores, size, required)
           zero == [b \in DOMAIN caps |-> 0]
           H == SlotsOfAll(n, zero, used)
           B == SlotsOfAll(n, used, quotas)
<1>0. /\ n \in Nat /\ caps \in [1 .. n -> Nat] /\ scores \in [1 .. n -> Nat] /\ size \in Nat
      /\ required \in Nat /\ size <= required /\ required <= Total(caps) /\ DOMAIN caps = 1 .. n
      /\ Total(caps) \in Nat
  BY TotalNat DEF Plannable
<1>1. plan = Planned(method, caps, scores, used, quotas)
  BY Zenon DEF BuildSlotPlan
<1>2. used \in [1 .. n -> Nat] /\ Total(used) = size /\ \A b \in 1 .. n : used[b] <= caps[b]
  <2>1. size <= Total(caps)
    BY <1>0
  <2>. QED
    BY <1>0, <2>1, HeaderFits
<1> HIDE DEF used, plan
<1>3. /\ room \in [1 .. n -> Nat] /\ \A b \in 1 .. n : room[b] = caps[b] - used[b]
      /\ Total(room) = Total(caps) - size
  BY <1>0, <1>2, RoomLeft, ZenonT(30)
<1>4. weights \in [1 .. n -> Nat]
  BY <1>0 DEF Weights
<1> HIDE DEF room, weights
<1>5. /\ quotas \in [1 .. n -> Nat] /\ \A b \in 1 .. n : quotas[b] <= room[b]
      /\ Total(quotas) = required - size
  <2> DEFINE amount == required - size
  <2>1. Asked(n, room, weights)
    BY <1>0, <1>3, <1>4 DEF Asked
  <2>2. amount \in Nat /\ amount <= Total(room)
    BY <1>0, <1>3
  <2> HIDE DEF amount
  <2>3. LET q == CappedLargestRemainder(weights, room, amount)
        IN  /\ q \in [1 .. n -> Nat] /\ \A b \in 1 .. n : q[b] <= room[b]
            /\ Total(q) = amount
    BY <2>1, <2>2, CappedSound
  <2>. QED
    BY <2>3 DEF amount
<1> HIDE DEF quotas
<1>6. zero \in [1 .. n -> Nat] /\ \A b \in 1 .. n : zero[b] = 0
  BY <1>0
<1>7. /\ plan.header = Seqs!FlattenSeq(PlacesOf(caps, zero, used))
      /\ plan.body = Ordered(method, scores, PlacesOf(caps, used, quotas))
  BY <1>1 DEF Planned
<1> HIDE DEF zero
<1>8. Listing(plan.header, size, H)
  <2>1. Listing(Seqs!FlattenSeq(PlacesOf(caps, zero, used)), Total(used), SlotsOfAll(n, zero, used))
    BY <1>0, <1>2, <1>6, BandAfterBand
  <2>. QED
    BY <1>2, <1>7, <2>1
<1>9. Listing(plan.body, required - size, B)
  <2> DEFINE slots == PlacesOf(caps, used, quotas)
  <2>1. \E m \in Nat : Listing(plan.body, m, B)
    <3>1. CASE HighScoreFirst(method)
      <4>1. plan.body = Seqs!FlattenSeq([i \in DOMAIN slots |-> slots[Ranked(scores)[i]]])
        BY <1>7, <3>1 DEF Ordered
      <4>2. \E m \in Nat : Listing(Seqs!FlattenSeq([i \in DOMAIN slots |-> slots[Ranked(scores)[i]]]),
                                   m, B)
        BY <1>0, <1>2, <1>5, ByScore
      <4>. QED
        BY <4>1, <4>2, Zenon
    <3>2. CASE ~ HighScoreFirst(method)
      <4>1. plan.body = RoundRobin(slots)
        BY <1>7, <3>2 DEF Ordered
      <4>2. \E m \in Nat : Listing(RoundRobin(slots), m, B)
        BY <1>0, <1>2, <1>5, RoundRobinLists
      <4>. QED
        BY <4>1, <4>2, Zenon
    <3>. QED
      BY <3>1, <3>2
  <2>2. PICK m \in Nat : Listing(plan.body, m, B)
    BY <2>1
  <2>3. Listing(Seqs!FlattenSeq(slots), Total(quotas), B)
    BY <1>0, <1>2, <1>5, BandAfterBand
  <2>4. m = Cardinality(B)
    <3> HIDE DEF B
    <3>. QED
      BY <2>2, ListingCounts
  <2>5. Total(quotas) \in Nat
    BY <1>0, <1>5
  <2> HIDE DEF B
  <2>6. Total(quotas) = Cardinality(B)
    BY <2>3, <2>5, ListingCounts
  <2>. QED
    BY <1>5, <2>2, <2>4, <2>6
<1>10. \A x \in H : \E b \in 1 .. n : \E i \in 1 .. used[b] : x = <<b, i>>
  <2>1. SUFFICES ASSUME NEW x \in H
                 PROVE  \E b \in 1 .. n : \E i \in 1 .. used[b] : x = <<b, i>>
    OBVIOUS
  <2>2. PICK b \in 1 .. n : x \in SlotsOf(zero, used, b)
    BY Zenon DEF SlotsOfAll
  <2>3. PICK i \in 1 .. used[b] : x = <<b, zero[b] + i>>
    BY <2>2, Zenon DEF SlotsOf
  <2>4. zero[b] + i = i
    BY <1>6
  <2>. QED
    BY <2>3, <2>4
<1>11. \A x \in B : \E b \in 1 .. n : \E i \in 1 .. quotas[b] : x = <<b, used[b] + i>>
  BY Zenon DEF SlotsOfAll, SlotsOf
<1> HIDE DEF H, B
<1>12. \A x \in H : x \notin B
  <2>1. SUFFICES ASSUME NEW x \in H, x \in B PROVE FALSE
    OBVIOUS
  <2>2. PICK b \in 1 .. n : \E i \in 1 .. used[b] : x = <<b, i>>
    BY <1>10
  <2>3. PICK i \in 1 .. used[b] : x = <<b, i>>
    BY <2>2
  <2>4. PICK c \in 1 .. n : \E j \in 1 .. quotas[c] : x = <<c, used[c] + j>>
    BY <1>11, <2>1
  <2>5. PICK j \in 1 .. quotas[c] : x = <<c, used[c] + j>>
    BY <2>4
  <2>6. <<b, i>> = <<c, used[c] + j>>
    BY <2>3, <2>5
  <2>7. b = c /\ i = used[b] + j /\ used[b] \in Nat
    BY <1>2, <2>6
  <2>. QED
    BY <2>7
<1>13. Listing(plan.header \o plan.body, required, H \cup B)
  <2>1. required - size \in Nat /\ size + (required - size) = required
    BY <1>0
  <2>2. Listing(plan.header \o plan.body, size + (required - size), H \cup B)
    BY <1>0, <1>8, <1>9, <1>12, <2>1, JoinLists
  <2>. QED
    BY <2>1, <2>2
<1>14. ASSUME NEW x \in H \cup B
       PROVE  \E b \in 1 .. n : \E i \in 1 .. caps[b] : x = <<b, i>>
  <2>1. CASE x \in H
    <3>1. PICK b \in 1 .. n : \E i \in 1 .. used[b] : x = <<b, i>>
      BY <1>10, <2>1
    <3>2. PICK i \in 1 .. used[b] : x = <<b, i>>
      BY <3>1
    <3>3. i \in 1 .. caps[b]
      BY <1>0, <1>2
    <3>. QED
      BY <3>2, <3>3
  <2>2. CASE x \in B
    <3>1. PICK b \in 1 .. n : \E i \in 1 .. quotas[b] : x = <<b, used[b] + i>>
      BY <1>11, <2>2
    <3>2. PICK i \in 1 .. quotas[b] : x = <<b, used[b] + i>>
      BY <3>1
    <3>3. used[b] \in Nat /\ caps[b] \in Nat /\ quotas[b] \in Nat /\ quotas[b] <= caps[b] - used[b]
      BY <1>0, <1>2, <1>3, <1>5
    <3>4. used[b] + i \in 1 .. caps[b]
      BY <3>3
    <3>. QED
      BY <3>2, <3>4
  <2>. QED
    BY <2>1, <2>2
<1>. QED
  BY <1>13, <1>14 DEF plan

\* Where no cap binds, a band's quota is its share, rounded down or up.
LEMMA PlanIsFair ==
    ASSUME NEW n, NEW caps, NEW scores, NEW size, NEW required,
           Plannable(n, caps, scores, size, required), NEW method
    PROVE  LET plan == BuildSlotPlan(method, caps, scores, size, required)
               used == HeaderUsed(caps, size)
               weights == Weights(method, caps, scores)
               share(b) == Share(weights, required - size, b) \div Divisor(weights, DOMAIN caps)
           IN  (\A b \in DOMAIN used : used[b] + share(b) < caps[b]) =>
                   \A b \in DOMAIN used : plan.quotas[b] \in {share(b), share(b) + 1}
<1> DEFINE used == HeaderUsed(caps, size)
           weights == Weights(method, caps, scores)
           room == Room(caps, used)
           amount == required - size
           D == Divisor(weights, DOMAIN caps)
           share(b) == Share(weights, amount, b) \div D
           quotas == CappedLargestRemainder(weights, room, amount)
           plan == BuildSlotPlan(method, caps, scores, size, required)
<1>0. /\ n \in Nat /\ caps \in [1 .. n -> Nat] /\ scores \in [1 .. n -> Nat] /\ size \in Nat
      /\ required \in Nat /\ size <= required /\ required <= Total(caps) /\ DOMAIN caps = 1 .. n
      /\ Total(caps) \in Nat
  BY TotalNat DEF Plannable
<1>1. plan.quotas = quotas
  <2>1. plan = Planned(method, caps, scores, used, quotas)
    BY Zenon DEF BuildSlotPlan
  <2> HIDE DEF plan, quotas, used
  <2>. QED
    BY <2>1 DEF Planned
<1>2. used \in [1 .. n -> Nat] /\ Total(used) = size /\ \A b \in 1 .. n : used[b] <= caps[b]
  <2>1. size <= Total(caps)
    BY <1>0
  <2>. QED
    BY <1>0, <2>1, HeaderFits
<1> HIDE DEF used, plan
<1>3. /\ room \in [1 .. n -> Nat] /\ \A b \in 1 .. n : room[b] = caps[b] - used[b]
      /\ Total(room) = Total(caps) - size
  BY <1>0, <1>2, RoomLeft, ZenonT(30)
<1>4. weights \in [1 .. n -> Nat]
  BY <1>0 DEF Weights
<1>5. SUFFICES ASSUME \A b \in 1 .. n : used[b] + share(b) < caps[b]
               PROVE  \A b \in 1 .. n : quotas[b] \in {share(b), share(b) + 1}
  <2>1. DOMAIN used = 1 .. n
    BY <1>2
  <2> HIDE DEF share, quotas, weights, D
  <2>2. (\A b \in DOMAIN used : used[b] + share(b) < caps[b]) =>
            \A b \in DOMAIN used : plan.quotas[b] \in {share(b), share(b) + 1}
    BY <1>1, <1>5, <2>1
  <2>. QED
    BY <2>2 DEF share, D, weights, used, plan
<1> HIDE DEF room, weights
<1>6. amount \in Nat /\ amount <= Total(room) /\ Asked(n, room, weights)
  BY <1>0, <1>3, <1>4, SMTT(30) DEF Asked
<1>7. Roomy(n, room, weights, amount)
  <2>1. SUFFICES ASSUME NEW b \in 1 .. n
                 PROVE  Share(weights, amount, b) \div Divisor(weights, 1 .. n) < room[b]
    BY DEF Roomy
  <2>2. share(b) = Share(weights, amount, b) \div Divisor(weights, 1 .. n)
    BY <1>0
  <2>3. used[b] \in Nat /\ caps[b] \in Nat /\ room[b] = caps[b] - used[b]
    BY <1>0, <1>2, <1>3
  <2>4. used[b] + share(b) < caps[b]
    BY <1>5
  <2>5. share(b) \in Nat
    <3>1. D \in Nat /\ D > 0
      <4>1. 1 .. n # {} /\ 1 .. n \in SUBSET (1 .. n)
        OBVIOUS
      <4>. QED
        BY <1>0, <1>4, <4>1, DivisorIs, Zenon
    <3>2. Share(weights, amount, b) \in Nat
      <4>1. weights[b] + Epsilon \in Nat
        BY <1>4, EpsilonAssumption
      <4> HIDE DEF amount
      <4>. QED
        BY <1>6, <4>1 DEF Share
    <3> HIDE DEF D
    <3>. QED
      BY <3>1, <3>2, Quotients
  <2> DEFINE q == share(b)
  <2> HIDE DEF q
  <2>6. q < room[b]
    BY <2>3, <2>4, <2>5 DEF q
  <2>. QED
    BY <2>2, <2>6 DEF q
<1> HIDE DEF amount
<1>8. \A b \in 1 .. n :
          quotas[b] \in {Share(weights, amount, b) \div Divisor(weights, 1 .. n),
                         Share(weights, amount, b) \div Divisor(weights, 1 .. n) + 1}
  BY <1>6, <1>7, FairShares
<1>. QED
  BY <1>0, <1>8

\* C3_A_D and C3_NP put a payload in the same slots.
LEMMA SameSlots ==
    ASSUME NEW caps, NEW scores, NEW size, NEW required
    PROVE  BuildSlotPlan("C3_A_D", caps, scores, size, required)
              = BuildSlotPlan("C3_NP", caps, scores, size, required)
<1>1. Weights("C3_A_D", caps, scores) = Weights("C3_NP", caps, scores)
  BY DEF Weights, Adaptive
<1>2. ASSUME NEW slots
      PROVE  Ordered("C3_A_D", scores, slots) = Ordered("C3_NP", scores, slots)
  BY DEF Ordered, HighScoreFirst
<1>3. ASSUME NEW used, NEW quotas
      PROVE  Planned("C3_A_D", caps, scores, used, quotas)
                = Planned("C3_NP", caps, scores, used, quotas)
  BY <1>2, Zenon DEF Planned
<1>. QED
  BY <1>1, <1>3, Zenon DEF BuildSlotPlan

\* A codeword fills the field.
LEMMA CodewordLength == CodewordSymbols \in Nat
<1>1. 2 ^ 4 = 16 /\ 2 ^ 8 = 256
  OBVIOUS
<1>2. 2 ^ SymbolBits = 2 ^ 4 \/ 2 ^ SymbolBits = 2 ^ 8
  BY SymbolBitsAssumption, Zenon
<1>. QED
  BY <1>1, <1>2 DEF CodewordSymbols, Size

\* What a job and its method ask of build_slot_plan, once it is embedded.
LEMMA JobIsPlannable ==
    ASSUME NEW j \in Jobs, Capable(j.method, j.fraction)
    PROVE  Plannable(Len(Capacities), Capacities, j.scores, CodewordSymbols,
                     ProtectedSymbols(j.method, Layouts[j.fraction]))
<1> DEFINE layout == Layouts[j.fraction]
           p == ProfilesFor(j.method, layout)
           required == ProtectedSymbols(j.method, layout)
           nb == Len(p.base.data)
           nd == Len(p.detail.data)
<1>1. nb \in Nat /\ nd \in Nat
  <2>1. \A l \in {"base", "detail"} : p[l].data \in Seq(1 .. CodewordSymbols - 1)
    BY ProfilesFit
  <2>2. p.base.data \in Seq(1 .. CodewordSymbols - 1) /\ p.detail.data \in Seq(1 .. CodewordSymbols - 1)
    BY <2>1
  <2> HIDE DEF p
  <2>. QED
    BY <2>2
<1>2. required = CodewordSymbols * (1 + nb + nd)
  BY DEF ProtectedSymbols
<1>3. CodewordSymbols \in Nat
  BY CodewordLength
<1> HIDE DEF nb, nd
<1>4. required \in Nat /\ CodewordSymbols <= required
  <2> DEFINE c == CodewordSymbols
             k == nb + nd
  <2>1. c \in Nat /\ k \in Nat /\ required = c * (1 + k)
    BY <1>1, <1>2, <1>3
  <2> HIDE DEF c, k, required
  <2>2. c * (1 + k) = c + c * k /\ c * k \in Nat
    BY <2>1
  <2>. QED
    BY <2>1, <2>2 DEF c
<1>5. required <= Total(Capacities)
  BY DEF Capable
<1> HIDE DEF required
<1>6. Capacities \in Seq(Nat) /\ j.scores \in Seq(Nat) /\ Len(j.scores) = Len(Capacities)
  BY CapacitiesAssumption, JobsAssumption DEF Identity
<1>7. /\ Len(Capacities) \in Nat /\ Capacities \in [1 .. Len(Capacities) -> Nat]
      /\ j.scores \in [1 .. Len(Capacities) -> Nat]
  BY <1>6
<1>. QED
  BY <1>3, <1>4, <1>5, <1>7 DEF Plannable, required

\* The slots of the plan a job is embedded and extracted with.
LEMMA JobSlots ==
    ASSUME NEW j \in Jobs, Capable(j.method, j.fraction)
    PROVE  LET order == SlotOrder(SlotPlan(j.method, j.fraction, j.scores))
           IN  \E S : /\ Listing(order, ProtectedSymbols(j.method, Layouts[j.fraction]), S)
                      /\ S \subseteq AllSlots
                      /\ ProtectedSymbols(j.method, Layouts[j.fraction]) \in Nat
<1> DEFINE required == ProtectedSymbols(j.method, Layouts[j.fraction])
           n == Len(Capacities)
           order == SlotOrder(SlotPlan(j.method, j.fraction, j.scores))
<1>1. Plannable(n, Capacities, j.scores, CodewordSymbols, required)
  BY JobIsPlannable
<1>2. required \in Nat
  <2> HIDE DEF required
  <2>. QED
    BY <1>1 DEF Plannable
<1>3. order = BuildSlotPlan(j.method, Capacities, j.scores, CodewordSymbols, required).header
                \o BuildSlotPlan(j.method, Capacities, j.scores, CodewordSymbols, required).body
  BY Zenon DEF SlotOrder, SlotPlan
<1> HIDE DEF required, order, n
<1>4. PICK S : /\ Listing(order, required, S)
               /\ \A x \in S : \E b \in 1 .. n : \E i \in 1 .. Capacities[b] : x = <<b, i>>
  <2> DEFINE plan == BuildSlotPlan(j.method, Capacities, j.scores, CodewordSymbols, required)
             long == plan.header \o plan.body
  <2>1. \E S : /\ Listing(long, required, S)
               /\ \A x \in S : \E b \in 1 .. n : \E i \in 1 .. Capacities[b] : x = <<b, i>>
    BY <1>1, PlanSlots
  <2>2. order = long
    BY <1>3
  <2> HIDE DEF long
  <2>. QED
    BY <2>1, <2>2
<1>5. S \subseteq AllSlots
  <2>1. DOMAIN Capacities = 1 .. n
    BY CapacitiesAssumption DEF n
  <2>2. SUFFICES ASSUME NEW b \in 1 .. n, NEW i \in 1 .. Capacities[b] PROVE <<b, i>> \in AllSlots
    BY <1>4
  <2> DEFINE own == {<<b, k>> : k \in 1 .. Capacities[b]}
  <2>3. <<b, i>> \in own /\ b \in DOMAIN Capacities
    BY <2>1
  <2>. QED
    BY <2>3 DEF AllSlots
<1>. QED
  BY <1>2, <1>4, <1>5 DEF order, required

\* EmbeddingSound (allocation.build_slot_plan, pipeline.embed): whatever the
\* capacities, the scores, the method and the unit of epsilon, a plan gives
\* every symbol a slot of its own within the capacities, a band no cap binds
\* gets its share rounded down or up, C3_A_D and C3_NP use the same slots, and
\* the strength is the one search_lambda promises.
THEOREM EverySymbolHasItsSlot == Spec => []EmbeddingSound
<1>1. CodecInv /\ StrengthSound => EmbeddingSound
  <2>1. SUFFICES ASSUME CodecInv, StrengthSound, phase = "stego" PROVE EmbeddingSound
    BY DEF EmbeddingSound
  <2> DEFINE required == ProtectedSymbols(job.method, Layouts[job.fraction])
             weights == Weights(job.method, Capacities, job.scores)
             body == required - CodewordSymbols
             share(b) == Share(weights, body, b) \div Divisor(weights, DOMAIN Capacities)
             plan == SlotPlan(job.method, job.fraction, job.scores)
             order == SlotOrder(plan)
             used == HeaderUsed(Capacities, CodewordSymbols)
  <2>2. job \in Jobs /\ Capable(job.method, job.fraction)
    BY <2>1 DEF CodecInv, Started
  <2>3. Len(order) = required /\ Cardinality(Range(order)) = required /\ Range(order) \subseteq AllSlots
    <3>1. PICK S : Listing(order, required, S) /\ S \subseteq AllSlots /\ required \in Nat
      BY <2>2, JobSlots
    <3> HIDE DEF required, order
    <3>2. Word(order, required)
      BY <3>1 DEF Listing
    <3>3. Len(order) = required /\ DOMAIN order = 1 .. required
      BY <3>1, <3>2, WordIs
    <3>4. Range(order) = S
      <4>1. \A x : x \in Range(order) <=> x \in S
        BY <3>1, <3>3 DEF Range, Listing
      <4>. QED
        BY <4>1
    <3>5. Cardinality(S) = required
      BY <3>1, ListingCounts
    <3>. QED
      BY <3>1, <3>3, <3>4, <3>5
  <2>4. (\A b \in DOMAIN used : used[b] + share(b) < Capacities[b]) =>
            \A b \in DOMAIN used : plan.quotas[b] \in {share(b), share(b) + 1}
    <3>1. Plannable(Len(Capacities), Capacities, job.scores, CodewordSymbols, required)
      BY <2>2, JobIsPlannable
    <3>2. plan = BuildSlotPlan(job.method, Capacities, job.scores, CodewordSymbols, required)
      BY DEF SlotPlan
    <3> HIDE DEF plan, required
    <3>. QED
      BY <3>1, <3>2, PlanIsFair
  <2>5. job.method = "C3_A_D" => plan = SlotPlan("C3_NP", job.fraction, job.scores)
    <3>1. SUFFICES ASSUME job.method = "C3_A_D"
                   PROVE  plan = SlotPlan("C3_NP", job.fraction, job.scores)
      OBVIOUS
    <3> DEFINE layout == Layouts[job.fraction]
    <3> HIDE DEF layout
    <3>2. ProtectedSymbols("C3_A_D", layout) = ProtectedSymbols("C3_NP", layout)
      BY DEF ProtectedSymbols, ProfilesFor, Unequal
    <3> DEFINE size == ProtectedSymbols("C3_NP", layout)
    <3>3. SlotPlan("C3_NP", job.fraction, job.scores)
             = BuildSlotPlan("C3_NP", Capacities, job.scores, CodewordSymbols, size)
      BY Zenon DEF SlotPlan, layout
    <3>4. plan = BuildSlotPlan("C3_A_D", Capacities, job.scores, CodewordSymbols, size)
      BY <3>1, <3>2, Zenon DEF SlotPlan, layout
    <3>. QED
      BY <3>3, <3>4, SameSlots, Zenon
  <2> HIDE DEF plan, order, used, share, required
  <2>. QED
    BY <2>1, <2>3, <2>4, <2>5, Zenon DEF EmbeddingSound, plan, order, used, share, required
<1>. QED
  BY <1>1, CodecInvariant, StrengthKeepsTheTarget, PTL
-----------------------------------------------------------------------------
(* What follows from a decoder that corrects up to its radius              *)

\* A codeword all of whose raw symbols were got back.
Restored(r) == r.status = "success" /\ r.unknown = 0 /\ r.correct = r.known
AllRestored(records) == \A i \in DOMAIN records : Restored(records[i])

\* What was decoded of a restored codeword: the raw symbols, then zeroes.
LEMMA RestoredCodeword ==
    ASSUME NEW sent, NEW received, NEW raw, Len(raw) \in Nat, NEW k \in Nat,
           Restored(CodewordRecord(sent, received, raw, k))
    PROVE  LET result == DecodeCodeword(received, k)
           IN  /\ result.success /\ Word(result.data, k)
               /\ \A i \in 1 .. Len(raw) : result.data[i] = raw[i]
               /\ AllZero(SubSeq(result.data, Len(raw) + 1, k))
<1> DEFINE result == DecodeCodeword(received, k)
           n == Len(raw)
           same == {i \in 1 .. n : raw[i] = result.data[i]}
           zeroes == AllZero(SubSeq(result.data, n + 1, k))
           record == CodewordRecord(sent, received, raw, k)
<1>1. /\ record.status = IF ~ result.success THEN "decode_failure"
                         ELSE IF zeroes THEN "success" ELSE "padding_failure"
      /\ record.known = IF result.success THEN n ELSE 0
      /\ record.correct = IF result.success THEN Cardinality(same) ELSE 0
  BY DEF CodewordRecord
<1>2. record.status = "success" /\ record.correct = record.known
  BY DEF Restored
<1>0. n \in Nat
  OBVIOUS
<1> HIDE DEF record, result, same, zeroes, n
<1>3. result.success /\ zeroes
  BY <1>1, <1>2
<1>4. Cardinality(same) = n
  BY <1>1, <1>2, <1>3
<1>5. same = 1 .. n
  <2>1. IsFiniteSet(1 .. n) /\ Cardinality(1 .. n) = IF 1 > n THEN 0 ELSE n - 1 + 1
    <3>1. 1 \in Int /\ n \in Int
      BY <1>0
    <3>. QED
      BY <3>1, FS_Interval, Zenon
  <2>2. same \in SUBSET (1 .. n)
    BY DEF same
  <2>. QED
    <3>1. Cardinality(same) = Cardinality(1 .. n)
      BY <2>1, <1>0, <1>4
    <3>. QED
      BY <2>1, <2>2, <3>1, FS_Subset, Zenon
<1>6. \A i \in 1 .. n : result.data[i] = raw[i]
  BY <1>5 DEF same
<1>7. Word(result.data, k)
  BY <1>3, CodewordDecoded DEF result
<1>. QED
  BY <1>3, <1>6, <1>7 DEF result, zeroes, n

\* Every data symbol of a profile is in one of its codewords.
LEMMA Located ==
    ASSUME NEW profile, profile.data \in Seq(Nat), NEW p \in 1 .. InputSymbols(profile)
    PROVE  \E i \in 1 .. Len(profile.data) : \E q \in 1 .. profile.data[i] :
              p = Offset(profile, i) + q
<1> DEFINE n == Len(profile.data)
           at(i) == Offset(profile, i)
           In(i) == \E q \in 1 .. profile.data[i] : p = at(i) + q
           T == {m \in Nat : m <= n /\ p <= at(m + 1) => \E i \in 1 .. m : In(i)}
<1>0. n \in Nat /\ \A i \in 1 .. n : profile.data[i] \in Nat
  BY Elements
<1>1. /\ at(1) = 0
      /\ \A i \in 1 .. n : at(i + 1) = at(i) + profile.data[i]
      /\ \A i \in 1 .. n + 1 : at(i) \in Nat
  BY OffsetSteps
<1>2. at(n + 1) = InputSymbols(profile)
  BY DEF InputSymbols
<1> HIDE DEF at, n
<1>3. p \in Nat /\ p > 0 /\ p <= at(n + 1)
  <2>1. at(n + 1) \in Nat
    BY <1>0, <1>1
  <2>. QED
    BY <2>1, <1>2
<1>4. 0 \in T
  BY <1>1, <1>3
<1>5. ASSUME NEW m \in Nat, m \in T
      PROVE  m + 1 \in T
  <2>1. SUFFICES ASSUME m + 1 <= n, p <= at(m + 2)
                 PROVE  \E i \in 1 .. m + 1 : In(i)
    <3> HIDE DEF In
    <3>1. (m + 1) + 1 = m + 2
      OBVIOUS
    <3>. QED
      BY <2>1, <3>1
  <2>2. m + 1 \in 1 .. n /\ m <= n /\ m + 1 \in 1 .. n + 1 /\ (m + 1) + 1 = m + 2
    BY <2>1, <1>0
  <2>3. at(m + 1) \in Nat /\ at(m + 2) = at(m + 1) + profile.data[m + 1]
        /\ profile.data[m + 1] \in Nat
    BY <2>2, <1>0, <1>1
  <2>4. CASE p <= at(m + 1)
    <3>1. \E i \in 1 .. m : In(i)
      <4> HIDE DEF In
      <4>. QED
        BY <2>2, <2>4, <1>5
    <3> HIDE DEF In
    <3>. QED
      BY <3>1
  <2>5. CASE p > at(m + 1)
    <3> DEFINE q == p - at(m + 1)
    <3>1. q \in 1 .. profile.data[m + 1] /\ p = at(m + 1) + q
      BY <2>1, <2>3, <2>5, <1>3
    <3>2. In(m + 1)
      BY <3>1
    <3> HIDE DEF In
    <3>. QED
      BY <2>2, <3>2
  <2>. QED
    BY <2>3, <2>4, <2>5, <1>3
<1>6. \A m \in Nat : m \in T
  <2> HIDE DEF T
  <2>. QED
    BY <1>4, <1>5, AllNumbers
<1>7. \E i \in 1 .. n : In(i)
  <2> HIDE DEF In
  <2>. QED
    BY <1>0, <1>3, <1>6
<1>. QED
  BY <1>7 DEF at, n

\* What is decoded of a layer, in the codewords' own words.
DecodedAs(layer, profile, success, words) ==
    LET n == Len(profile.data)
        padded == Seqs!FlattenSeq(words)
    IN  (\A i \in 1 .. n : success[i])
          /\ AllZero(SubSeq(padded, RawSymbols(profile) + 1, InputSymbols(profile))) =>
            layer = [data |-> SubSeq(padded, 1, RawSymbols(profile)), failures |-> {}]

LEMMA LayerIs ==
    ASSUME NEW received, NEW profile, Len(profile.data) \in Nat
    PROVE  DecodedAs(DecodeLayer(received, profile), profile,
              [i \in 1 .. Len(profile.data) |->
                  DecodeCodeword(Codeword(received, i), profile.data[i]).success],
              [i \in 1 .. Len(profile.data) |->
                  DecodeCodeword(Codeword(received, i), profile.data[i]).data])
<1> DEFINE n == Len(profile.data)
           result(i) == DecodeCodeword(Codeword(received, i), profile.data[i])
           results == [i \in 1 .. n |-> result(i)]
           success == [i \in 1 .. n |-> result(i).success]
           words == [i \in 1 .. n |-> result(i).data]
           layer == DecodeLayer(received, profile)
<1>1. Tuple(results) = results
  <2>1. results = [i \in 1 .. n |-> results[i]]
    BY Zenon
  <2> HIDE DEF results
  <2>. QED
    BY <2>1, TupleIs
<1>2. [i \in 1 .. n |-> results[i].data] = words /\ \A i \in 1 .. n : success[i] = results[i].success
  <2>1. [i \in 1 .. n |-> results[i].data] = words
    BY Zenon
  <2>2. \A i \in 1 .. n : success[i] = results[i].success
    BY Zenon
  <2>. QED
    BY <2>1, <2>2
<1>3. layer = IF \A i \in 1 .. n : Tuple(results)[i].success
              THEN IF AllZero(SubSeq(Seqs!FlattenSeq([i \in 1 .. n |-> Tuple(results)[i].data]),
                                     RawSymbols(profile) + 1, InputSymbols(profile)))
                   THEN [data |-> SubSeq(Seqs!FlattenSeq([i \in 1 .. n |-> Tuple(results)[i].data]),
                                         1, RawSymbols(profile)), failures |-> {}]
                   ELSE [data |-> Failure, failures |-> {n}]
              ELSE [data |-> Failure, failures |-> {i \in 0 .. n - 1 : ~ Tuple(results)[i + 1].success}]
  BY DEF DecodeLayer
<1> HIDE DEF results, success, words, layer
<1>4. (\A i \in 1 .. n : success[i])
        /\ AllZero(SubSeq(Seqs!FlattenSeq(words), RawSymbols(profile) + 1, InputSymbols(profile))) =>
          layer = [data |-> SubSeq(Seqs!FlattenSeq(words), 1, RawSymbols(profile)), failures |-> {}]
  BY <1>1, <1>2, <1>3
<1>. QED
  BY <1>4 DEF DecodedAs, success, words, layer

LEMMA OfSubSeq ==
    ASSUME NEW s, NEW from \in Nat, NEW to \in Nat, NEW k \in DOMAIN SubSeq(s, from + 1, to)
    PROVE  k \in Nat /\ k > 0 /\ from + k <= to /\ SubSeq(s, from + 1, to)[k] = s[from + k]
<1>1. k \in Nat /\ k > 0 /\ from + k <= to
  OBVIOUS
<1>2. SubSeq(s, from + 1, to)[k] = s[from + k]
  BY <1>1
<1>. QED
  BY <1>1, <1>2

\* The raw symbols of codeword i are the layer's from its offset on.
RawPart(raw, profile, i) ==
    \A q \in 1 .. Len(RawOf(raw, profile, i)) :
        /\ Offset(profile, i) + q <= RawSymbols(profile)
        /\ RawOf(raw, profile, i)[q] = raw[Offset(profile, i) + q]

LEMMA RawPartIs ==
    ASSUME NEW profile, profile.data \in Seq(Nat), RawSymbols(profile) \in Nat,
           NEW raw, Word(raw, RawSymbols(profile)),
           NEW i \in 1 .. Len(profile.data)
    PROVE  RawPart(raw, profile, i)
<1> DEFINE r == RawSymbols(profile)
           from == Offset(profile, i)
           to == Offset(profile, i + 1)
           last == IF to > r THEN r ELSE to
<1>1. Len(raw) = r
  BY WordIs
<1>2. from \in Nat /\ to \in Nat
  <2>1. Len(profile.data) \in Nat /\ i \in 1 .. Len(profile.data) + 1
        /\ i + 1 \in 1 .. Len(profile.data) + 1
    BY Elements
  <2>. QED
    BY <2>1, OffsetSteps
<1>3. RawOf(raw, profile, i) = SubSeq(raw, from + 1, last)
  BY <1>1 DEF RawOf
<1>4. r \in Nat
  OBVIOUS
<1> HIDE DEF from, to, r
<1>5. last \in Nat /\ last <= r
  BY <1>2, <1>4
<1> HIDE DEF last
<1>7. Len(SubSeq(raw, from + 1, last)) = IF from + 1 <= last THEN last - from ELSE 0
  BY <1>2, <1>5
<1>8. ASSUME NEW q \in 1 .. Len(SubSeq(raw, from + 1, last))
      PROVE  /\ from + q <= r
             /\ SubSeq(raw, from + 1, last)[q] = raw[from + q]
  <2>1. q \in Nat /\ q > 0 /\ from + q <= last
    BY <1>2, <1>5, <1>7
  <2>2. from < from + q /\ from + q \in Nat /\ (from + q) - from = q
    BY <2>1, <1>2
  <2>3. SubSeq(raw, from + 1, last)[q] = raw[from + q]
    BY <2>1, <2>2, <1>2, <1>5, InsideSubSeq
  <2>. QED
    BY <2>1, <2>3, <1>2, <1>4, <1>5
<1>. QED
  BY <1>3, <1>8 DEF RawPart, from, r

\* A layer all of whose codewords were restored is the layer that was sent.
LEMMA LayerRestored ==
    ASSUME NEW profile, profile.data \in Seq(Nat), RawSymbols(profile) \in Nat,
           RawSymbols(profile) <= InputSymbols(profile),
           NEW raw, Word(raw, RawSymbols(profile)), NEW sent, NEW received,
           AllRestored(CodewordDiagnostics(sent, received, raw, profile))
    PROVE  DecodeLayer(received, profile) = [data |-> raw, failures |-> {}]
<1> DEFINE n == Len(profile.data)
           r == RawSymbols(profile)
           all == InputSymbols(profile)
           at(i) == Offset(profile, i)
           record(i) == CodewordRecord(Codeword(sent, i), Codeword(received, i),
                                       RawOf(raw, profile, i), profile.data[i])
           result(i) == DecodeCodeword(Codeword(received, i), profile.data[i])
           success == [i \in 1 .. n |-> result(i).success]
           words == [i \in 1 .. n |-> result(i).data]
           padded == Seqs!FlattenSeq(words)
           size(i) == Len(RawOf(raw, profile, i))
<1>1. n \in Nat /\ \A i \in 1 .. n : profile.data[i] \in Nat
  BY Elements
<1>2. \A i \in 1 .. n : at(i) \in Nat
  BY <1>1, OffsetSteps
<1>3. all \in Nat
  <2>1. n + 1 \in 1 .. n + 1
    BY <1>1
  <2>. QED
    BY <2>1, OffsetSteps DEF InputSymbols
<1>4. DecodedAs(DecodeLayer(received, profile), profile, success, words)
  BY <1>1, LayerIs
<1>5. ASSUME NEW i \in 1 .. n
      PROVE  Restored(record(i))
  <2> DEFINE records == [j \in 1 .. n |-> record(j)]
  <2>1. records = [j \in 1 .. n |-> records[j]]
    BY Zenon
  <2>2. CodewordDiagnostics(sent, received, raw, profile) = Tuple(records)
    BY DEF CodewordDiagnostics
  <2>3. DOMAIN records = 1 .. n /\ records[i] = record(i)
    OBVIOUS
  <2> HIDE DEF records, n
  <2>4. Tuple(records) = records
    BY <1>1, <2>1, TupleIs
  <2> HIDE DEF record
  <2>. QED
    BY <2>2, <2>3, <2>4 DEF AllRestored
<1>6. ASSUME NEW i \in 1 .. n
      PROVE  /\ result(i).success /\ Word(result(i).data, profile.data[i]) /\ size(i) \in Nat
             /\ \A q \in 1 .. size(i) : result(i).data[q] = RawOf(raw, profile, i)[q]
             /\ AllZero(SubSeq(result(i).data, size(i) + 1, profile.data[i]))
  <2>1. size(i) \in Nat
    BY PaddingOf
  <2>2. profile.data[i] \in Nat
    BY <1>1
  <2>. QED
    <3> DEFINE mine == RawOf(raw, profile, i)
               word == Codeword(received, i)
               other == Codeword(sent, i)
               k == profile.data[i]
    <3>1. Len(mine) \in Nat /\ k \in Nat /\ Restored(CodewordRecord(other, word, mine, k))
      BY <2>1, <2>2, <1>5
    <3> HIDE DEF mine, word, other, k
    <3>2. /\ DecodeCodeword(word, k).success /\ Word(DecodeCodeword(word, k).data, k)
          /\ \A q \in 1 .. Len(mine) : DecodeCodeword(word, k).data[q] = mine[q]
          /\ AllZero(SubSeq(DecodeCodeword(word, k).data, Len(mine) + 1, k))
      BY <3>1, RestoredCodeword, Zenon
    <3>. QED
      BY <2>1, <3>2, Zenon DEF mine, word, other, k
<1>7. ASSUME NEW i \in 1 .. n, NEW q \in 1 .. profile.data[i]
      PROVE  result(i).data[q] = IF at(i) + q <= r THEN raw[at(i) + q] ELSE 0
  <2> DEFINE data == result(i).data
             k == profile.data[i]
             m == size(i)
  <2>1. /\ m \in Nat /\ k \in Nat /\ q \in 1 .. k
        /\ \A c \in 1 .. m : data[c] = RawOf(raw, profile, i)[c]
        /\ AllZero(SubSeq(data, m + 1, k))
    BY <1>1, <1>6
  <2>2. RawPart(raw, profile, i)
    BY RawPartIs
  <2> HIDE DEF data, k, m
  <2>3. CASE q <= m
    <3>1. at(i) + q <= r /\ RawOf(raw, profile, i)[q] = raw[at(i) + q]
      BY <2>1, <2>2, <2>3 DEF RawPart, m
    <3>. QED
      BY <2>1, <2>3, <3>1 DEF data
  <2>4. CASE q > m
    <3>1. at(i) + q > r
      BY <2>4, PaddingOf DEF m
    <3>2. q - m \in DOMAIN SubSeq(data, m + 1, k) /\ SubSeq(data, m + 1, k)[q - m] = data[q]
      BY <2>1, <2>4, InsideSubSeq
    <3>3. data[q] = 0
      BY <2>1, <3>2 DEF AllZero
    <3>4. at(i) + q \in Nat /\ r \in Nat
      BY <1>2
    <3> HIDE DEF at, r
    <3>. QED
      BY <3>1, <3>3, <3>4 DEF data
  <2>. QED
    BY <2>1, <2>3, <2>4
<1>8. ASSUME NEW p \in 1 .. all
      PROVE  padded[p] = IF p <= r THEN raw[p] ELSE 0
  <2>1. PICK i \in 1 .. n : \E q \in 1 .. profile.data[i] : p = at(i) + q
    BY Located
  <2>2. PICK q \in 1 .. profile.data[i] : p = at(i) + q
    BY <2>1
  <2>3. InPlace(padded, profile, words)
    <3>1. Word(words, n)
      BY DEF Word
    <3>2. \A k \in 1 .. n : Word(words[k], profile.data[k])
      BY <1>6
    <3>3. Len(profile.data) # 0
      BY <1>1
    <3> HIDE DEF words
    <3>. QED
      BY <3>1, <3>2, <3>3, Flattened
  <2>4. padded[at(i) + q] = words[i][q]
    <3> HIDE DEF padded, words
    <3>. QED
      BY <2>3 DEF InPlace
  <2>5. words[i] = result(i).data
    OBVIOUS
  <2> HIDE DEF padded, words, result, at, r, all
  <2>. QED
    BY <2>2, <2>4, <2>5, <1>7
<1> HIDE DEF padded
<1>9. AllZero(SubSeq(padded, r + 1, all))
  <2> HIDE DEF r, all
  <2>1. r \in Nat
    BY DEF r
  <2>2. ASSUME NEW k \in DOMAIN SubSeq(padded, r + 1, all)
        PROVE  SubSeq(padded, r + 1, all)[k] = 0
    <3>1. k \in Nat /\ k > 0 /\ r + k <= all /\ SubSeq(padded, r + 1, all)[k] = padded[r + k]
      BY <1>3, <2>1, OfSubSeq
    <3>2. r + k \in 1 .. all /\ ~ (r + k <= r)
      BY <3>1, <2>1, <1>3
    <3>. QED
      BY <3>1, <3>2, <1>8
  <2>. QED
    BY <2>2 DEF AllZero
<1>10. SubSeq(padded, 1, r) = raw
  <2> HIDE DEF r, all
  <2>1. r \in Nat /\ r <= all /\ Word(raw, r)
    BY DEF r, all
  <2>2. \A p \in 1 .. r : padded[p] = raw[p]
    BY <2>1, <1>3, <1>8
  <2>3. SubSeq(padded, 1, r) = [p \in 1 .. r |-> padded[p]]
    BY <2>1
  <2>4. [p \in 1 .. r |-> padded[p]] = [p \in 1 .. r |-> raw[p]]
    BY <2>2, Zenon
  <2>. QED
    BY <2>1, <2>3, <2>4 DEF Word
<1>11. \A i \in 1 .. n : success[i]
  BY <1>6
<1> HIDE DEF success, words, r, all
<1>12. DecodeLayer(received, profile) = [data |-> SubSeq(padded, 1, r), failures |-> {}]
  BY <1>4, <1>9, <1>11 DEF DecodedAs, padded, r, all
<1>. QED
  BY <1>10, <1>12

\* What is concluded from a restored Base layer, and from both layers.
LEMMA ConcludedFromRestored ==
    ASSUME NEW j \in Jobs, NEW h, HeaderOf(h, j), NEW base, NEW detail,
           base = [data |-> RawLayers(j.pixels, Layouts[j.fraction]).base, failures |-> {}]
    PROVE  LET o == Recovery(h, j.pair, FALSE, base, detail)
           IN  /\ j.config.format = 2 => BaseOnlySuccess(o)
               /\ detail = [data |-> RawLayers(j.pixels, Layouts[j.fraction]).detail,
                            failures |-> {}] =>
                     o.validity = "complete_valid_recovery"
<1> DEFINE layout == Layouts[j.fraction]
           raw == RawLayers(j.pixels, layout)
           profile == ProfilesFor(j.method, layout)
           o == Recovery(h, j.pair, FALSE, base, detail)
           seeds == {LayerDigest(h.config, j.pair, h.method, "base"),
                     LayerDigest(h.config, j.pair, h.method, "detail")}
           baseCrc   == IF h.format = 1 THEN "none" ELSE Crc(base.data, h.baseCrc)
           detailCrc == IF h.format = 1 \/ h.layout.detail = 0 THEN "none"
                        ELSE Crc(detail.data, h.detailCrc)
           crcValid == (base.data # Failure /\ detail.data # Failure)
                          /\ base.data \o detail.data = h.crc
           headerValid == ~ FALSE /\ h.seeds = seeds
           complete == headerValid /\ crcValid /\ "invalid" \notin {baseCrc, detailCrc}
<1>1. /\ h.format = j.config.format /\ h.method = j.method /\ h.layout = layout
      /\ h.config = j.config /\ h.crc = raw.base \o raw.detail
      /\ h.baseCrc = raw.base /\ h.detailCrc = raw.detail
      /\ h.seeds = {LayerDigest(j.config, j.pair, j.method, l) : l \in {"base", "detail"}}
  BY DEF HeaderOf
<1>2. raw.base # Failure /\ raw.detail # Failure
  <2> HIDE DEF raw, profile
  <2>1. \A l \in {"base", "detail"} : raw[l] # Failure
    <3>1. SUFFICES ASSUME NEW l \in {"base", "detail"} PROVE raw[l] # Failure
      OBVIOUS
    <3>2. RawSymbols(profile[l]) \in Nat /\ Word(raw[l], RawSymbols(profile[l]))
      BY RawWords DEF raw, profile
    <3>3. DOMAIN raw[l] = 1 .. RawSymbols(profile[l])
      BY <3>2, WordIs
    <3>. QED
      BY <3>2, <3>3, NoSequence
  <2>. QED
    BY <2>1
<1>3. /\ Reconstruction(raw.base, <<>>, layout, 0) # Failure
  <2>1. j.fraction \in DOMAIN Layouts /\ j.pixels \in Seq(0 .. 255)
    BY JobsAssumption DEF Identity
  <2> DEFINE nb == RawSymbols(profile["base"])
             nd == RawSymbols(profile["detail"])
  <2>2. /\ nb \in Nat /\ nb * SymbolBits = Len(j.pixels) * layout.base
        /\ nd \in Nat /\ nd * SymbolBits = Len(j.pixels) * layout.detail
    BY ProfilesFit
  <2> HIDE DEF nb, nd
  <2>3. ImageLayers(j.pixels, layout, nb, nd)
    BY <2>1, <2>2, LayersOfAnImage
  <2> HIDE DEF layout
  <2>4. Reconstruction(raw.base, <<>>, layout, 0) = ProgressiveReference(j.pixels, layout.base)
    BY <2>3, Zenon DEF ImageLayers
  <2>5. Len(j.pixels) \in Nat /\ DOMAIN j.pixels = 1 .. Len(j.pixels)
    BY <2>1, Elements
  <2>6. DOMAIN ProgressiveReference(j.pixels, layout.base) = 1 .. Len(j.pixels)
    BY <2>5 DEF ProgressiveReference
  <2>. QED
    BY <2>4, <2>5, <2>6, NoSequence
<1>4. /\ o.base = base.data
      /\ o.headerValid = headerValid /\ o.baseCrc = baseCrc
      /\ o.validity = Validity(headerValid, complete, base.data, baseCrc)
      /\ headerValid /\ baseCrc = "valid" =>
            o.baseReconstruction = Reconstruction(base.data, <<>>, h.layout, 0)
  BY DEF Recovery
<1>5. headerValid
  <2>1. {LayerDigest(j.config, j.pair, j.method, l) : l \in {"base", "detail"}}
          = {LayerDigest(j.config, j.pair, j.method, "base"),
             LayerDigest(j.config, j.pair, j.method, "detail")}
    OBVIOUS
  <2> HIDE DEF layout, raw
  <2>. QED
    BY <2>1, <1>1
<1> HIDE DEF layout, raw, profile, o, seeds
<1>6. j.config.format \in {1, 2} /\ base.data = raw.base
  BY JobsAssumption DEF Identity, raw, layout
<1>7. j.config.format = 2 => baseCrc = "valid"
  BY <1>1, <1>2, <1>6 DEF Crc
<1>8. j.config.format = 1 => baseCrc = "none"
  BY <1>1
<1>9. ASSUME detail = [data |-> raw.detail, failures |-> {}]
      PROVE  crcValid /\ detailCrc # "invalid"
  BY <1>1, <1>2, <1>6, <1>9 DEF Crc
<1> HIDE DEF headerValid, crcValid, baseCrc, detailCrc
<1>10. detail = [data |-> raw.detail, failures |-> {}] => complete
  BY <1>5, <1>6, <1>7, <1>8, <1>9
<1> HIDE DEF complete
<1>11. detail = [data |-> raw.detail, failures |-> {}] => o.validity = "complete_valid_recovery"
  BY <1>4, <1>5, <1>10 DEF Validity
<1>12. j.config.format = 2 => BaseOnlySuccess(o)
  <2>1. SUFFICES ASSUME j.config.format = 2 PROVE BaseOnlySuccess(o)
    OBVIOUS
  <2>2. o.validity \in {"complete_valid_recovery", "valid_base_only_recovery"}
    BY <2>1, <1>4, <1>5, <1>7 DEF Validity
  <2>3. o.baseReconstruction = Reconstruction(raw.base, <<>>, layout, 0)
    BY <2>1, <1>1, <1>4, <1>5, <1>6, <1>7
  <2>. QED
    BY <2>1, <2>2, <2>3, <1>2, <1>3, <1>4, <1>5, <1>6, <1>7 DEF BaseOnlySuccess
<1>. QED
  BY <1>11, <1>12 DEF o, raw, layout

\* A header whose codeword was restored is the header that was sent.
LEMMA HeaderRestored ==
    ASSUME NEW sent, NEW received,
           Restored(CodewordRecord(sent, received, HeaderWord, Len(HeaderWord)))
    PROVE  DecodeHeader(received)
<1> DEFINE k == Len(HeaderWord)
           data == DecodeCodeword(received, k).data
<1>1. k \in Nat /\ HeaderWord = [i \in 1 .. k |-> HeaderWord[i]]
  BY HeaderWordAssumption
<1>2. Word(data, k) /\ \A i \in 1 .. k : data[i] = HeaderWord[i]
  <2> HIDE DEF k
  <2>1. Len(HeaderWord) = k
    BY DEF k
  <2>. QED
    BY <1>1, <2>1, RestoredCodeword, SMTT(30)
<1> HIDE DEF k, data
<1>3. [i \in 1 .. k |-> data[i]] = [i \in 1 .. k |-> HeaderWord[i]]
  BY <1>2, Zenon
<1>4. data = HeaderWord
  BY <1>1, <1>2, <1>3 DEF Word
<1>. QED
  BY <1>4 DEF DecodeHeader, data, k

\* What the diagnosis says of the header and of a layer.
DiagnosisOf(stream, symbols, pair, l) ==
    LET h == stream.header
        profile == ProfilesFor(h.method, h.layout)
        parts == SplitBody(h.method, SubSeq(symbols, CodewordSymbols + 1, Len(symbols)),
                           Len(profile.base.data), Len(profile.detail.data))
    IN  CodewordDiagnostics(EncodeLayer(stream.raw[l], profile[l]),
                            Encoded(parts[l], LayerDigest(h.config, pair, h.method, l)),
                            stream.raw[l], profile[l])

LEMMA DiagnosesOf ==
    ASSUME NEW stream, NEW symbols, NEW pair, NEW o
    PROVE  LET sev == EvaluateSeverity(stream, symbols, pair, o)
           IN  /\ sev.header = CodewordRecord(stream.headerSymbols,
                                               SubSeq(symbols, 1, CodewordSymbols),
                                               HeaderWord, Len(HeaderWord))
               /\ sev.base = DiagnosisOf(stream, symbols, pair, "base")
               /\ sev.detail = DiagnosisOf(stream, symbols, pair, "detail")
<1>1. EvaluateSeverity(stream, symbols, pair, o).base = DiagnosisOf(stream, symbols, pair, "base")
  BY Zenon DEF EvaluateSeverity, DiagnosisOf
<1>2. EvaluateSeverity(stream, symbols, pair, o).detail = DiagnosisOf(stream, symbols, pair, "detail")
  BY Zenon DEF EvaluateSeverity, DiagnosisOf
<1>3. EvaluateSeverity(stream, symbols, pair, o).header
        = CodewordRecord(stream.headerSymbols, SubSeq(symbols, 1, CodewordSymbols),
                         HeaderWord, Len(HeaderWord))
  BY Zenon DEF EvaluateSeverity
<1>. QED
  BY <1>1, <1>2, <1>3

\* What a job's own reader gets of its stream when the codewords were restored.
LEMMA StreamRestored ==
    ASSUME NEW j \in Jobs, NEW stream, NEW symbols, NEW o, NEW sev,
           stream = EncodeBitstream(j.pixels, j.pair, j.method, j.config, Layouts[j.fraction]),
           o = DecodeBitstream(symbols, stream.header, j.pair, j.method, j.config,
                               Layouts[j.fraction]),
           sev = EvaluateSeverity(stream, symbols, j.pair, o),
           Len(symbols) = ProtectedSymbols(j.method, Layouts[j.fraction]),
           Restored(sev.header),
           AllRestored(sev.base)
    PROVE  /\ j.config.format = 2 => BaseOnlySuccess(o)
           /\ AllRestored(sev.detail) =>
                 o.validity = "complete_valid_recovery"
<1> DEFINE layout == Layouts[j.fraction]
           raw == RawLayers(j.pixels, layout)
           profile == ProfilesFor(j.method, layout)
           h == stream.header
           body == SubSeq(symbols, CodewordSymbols + 1, Len(symbols))
           parts == SplitBody(j.method, body, Len(profile.base.data), Len(profile.detail.data))
           received(l) == Encoded(parts[l], LayerDigest(j.config, j.pair, j.method, l))
           sent(l) == EncodeLayer(raw[l], profile[l])
           records(l) == CodewordDiagnostics(sent(l), received(l), raw[l], profile[l])
           layer(l) == DecodeLayer(received(l), profile[l])
           mismatch == Mismatch(h, j.pair, j.method, j.config, layout)
<1>1. /\ h.format = j.config.format /\ h.method = j.method /\ h.layout = layout
      /\ h.config = j.config /\ h.symbols = ProtectedSymbols(j.method, layout)
      /\ stream.raw = raw
  BY DEF EncodeBitstream, Header
<1>2. /\ sev.base = records("base") /\ sev.detail = records("detail")
      /\ sev.header = CodewordRecord(stream.headerSymbols, SubSeq(symbols, 1, CodewordSymbols),
                                     HeaderWord, Len(HeaderWord))
  <2>1. sev.base = records("base") /\ sev.detail = records("detail")
    <3>1. /\ h.method = j.method /\ h.layout = layout /\ h.config = j.config
          /\ stream.raw = raw
      BY <1>1
    <3>2. /\ sev.base = DiagnosisOf(stream, symbols, j.pair, "base")
          /\ sev.detail = DiagnosisOf(stream, symbols, j.pair, "detail")
      BY DiagnosesOf
    <3> HIDE DEF h, raw, layout
    <3>3. \A l : DiagnosisOf(stream, symbols, j.pair, l) = records(l)
      BY <3>1, Zenon DEF DiagnosisOf, h
    <3>. QED
      BY <3>2, <3>3
  <2>2. sev.header = CodewordRecord(stream.headerSymbols, SubSeq(symbols, 1, CodewordSymbols),
                                    HeaderWord, Len(HeaderWord))
    BY DiagnosesOf, Zenon
  <2>. QED
    BY <2>1, <2>2
<1>3. HeaderOf(h, j)
  <2>1. h = SentHeader(j)
    BY DEF SentHeader
  <2>2. HeaderOf(SentHeader(j), j)
    BY HeaderSent
  <2> HIDE DEF h
  <2>. QED
    BY <2>1, <2>2
<1>4. DecodeHeader(SubSeq(symbols, 1, CodewordSymbols))
  BY <1>2, HeaderRestored
<1>5. mismatch = FALSE
  <2> HIDE DEF h, layout
  <2>. QED
    BY <1>1 DEF Mismatch
<1>6. o = DecodeBody(h, body, j.pair, mismatch)
  BY <1>1, <1>4 DEF DecodeBitstream
<1> HIDE DEF h, layout, body, mismatch
<1>7. o = Recovery(h, j.pair, FALSE, layer("base"), layer("detail"))
  BY <1>1, <1>5, <1>6 DEF DecodeBody, DecodeTransport
<1>8. ASSUME NEW l \in {"base", "detail"}, AllRestored(records(l))
      PROVE  layer(l) = [data |-> raw[l], failures |-> {}]
  <2>1. /\ profile[l].data \in Seq(Nat) /\ RawSymbols(profile[l]) \in Nat
        /\ Word(raw[l], RawSymbols(profile[l]))
    BY RawWords DEF layout
  <2>2. RawSymbols(profile[l]) <= InputSymbols(profile[l])
    <3>1. /\ InputSymbols(profile[l]) = RawSymbols(profile[l]) + profile[l].padding
          /\ profile[l].padding \in Nat
      BY ProfilesFit DEF layout
    <3> DEFINE all == InputSymbols(profile[l])
               r == RawSymbols(profile[l])
               p == profile[l].padding
    <3>2. all = r + p /\ p \in Nat /\ r \in Nat
      BY <3>1, <2>1
    <3> HIDE DEF all, r, p
    <3>3. r <= all
      BY <3>2, SMTT(30)
    <3>. QED
      BY <3>3 DEF all, r
  <2> HIDE DEF raw, profile, received, sent
  <2>. QED
    BY <2>1, <2>2, <1>8, LayerRestored
<1> HIDE DEF layer, records
<1>9. layer("base") = [data |-> raw.base, failures |-> {}]
  BY <1>2, <1>8
<1>10. AllRestored(sev.detail) =>
           layer("detail") = [data |-> raw.detail, failures |-> {}]
  BY <1>2, <1>8
<1> HIDE DEF profile
<1>. QED
  BY <1>3, <1>7, <1>9, <1>10, ConcludedFromRestored DEF raw, layout

\* ProgressiveRecovery (decode_bitstream, evaluate_severity), given that the
\* decoder corrects every codeword within its radius: a format-2 payload whose
\* header and Base codewords are within their radius yields its Base image
\* whatever happened to the Detail layer, and one whose Detail codewords are
\* within theirs too yields everything; for every image, method, payload,
\* profile, capacity and channel. WithinRadiusCorrected itself is the
\* correctness of Berlekamp-Massey decoding, which TLC checks.
THEOREM ProgressFollowsFromTheRadius ==
    Spec => [](WithinRadiusCorrected => ProgressiveRecovery)
<1>1. CodecInv => (WithinRadiusCorrected => ProgressiveRecovery)
  <2>1. SUFFICES ASSUME CodecInv, WithinRadiusCorrected, Own,
                        severity.header.overload = 0,
                        \A i \in DOMAIN severity.base : severity.base[i].overload = 0
                 PROVE  /\ job.config.format = 2 => BaseOnlySuccess(outcome)
                        /\ (\A i \in DOMAIN severity.detail : severity.detail[i].overload = 0) =>
                              Success(outcome)
    BY DEF ProgressiveRecovery
  <2> DEFINE plan == SlotPlan(job.method, job.fraction, job.scores)
             symbols == ExtractSymbols(stego, plan)
  <2>2. /\ job \in Jobs /\ Capable(job.method, job.fraction)
        /\ encoded = EncodeBitstream(job.pixels, job.pair, job.method, job.config,
                                     Layouts[job.fraction])
        /\ outcome = DecodeBitstream(symbols, encoded.header, job.pair, job.method,
                                     job.config, Layouts[job.fraction])
        /\ severity = EvaluateSeverity(encoded, symbols, job.pair, outcome)
    BY <2>1 DEF CodecInv, Started, Diagnosed, Own
  <2>3. Len(symbols) = ProtectedSymbols(job.method, Layouts[job.fraction])
    <3> DEFINE required == ProtectedSymbols(job.method, Layouts[job.fraction])
               order == SlotOrder(plan)
               read == [i \in DOMAIN order |-> stego[order[i]]]
    <3>1. PICK S : Listing(order, required, S) /\ required \in Nat
      BY <2>2, JobSlots
    <3>2. symbols = Tuple(read)
      BY DEF ExtractSymbols
    <3> HIDE DEF order, required, symbols
    <3>3. DOMAIN order = 1 .. required
      <4>1. Word(order, required)
        BY <3>1 DEF Listing
      <4>. QED
        BY <3>1, <4>1, WordIs
    <3>4. read = [i \in 1 .. required |-> read[i]]
      BY <3>3
    <3> HIDE DEF read
    <3>5. Tuple(read) = read /\ Len(read) = required
      BY <3>1, <3>4, TupleIs
    <3>. QED
      BY <3>2, <3>5 DEF required
  <2>4. \A r \in Records : r.overload = 0 => Restored(r)
    BY <2>1 DEF WithinRadiusCorrected, Restored
  <2>5. /\ Restored(severity.header)
        /\ AllRestored(severity.base)
        /\ (\A i \in DOMAIN severity.detail : severity.detail[i].overload = 0) =>
              AllRestored(severity.detail)
    <3>1. /\ severity.header \in Records
          /\ \A i \in DOMAIN severity.base : severity.base[i] \in Records
          /\ \A i \in DOMAIN severity.detail : severity.detail[i] \in Records
      BY DEF Records
    <3>. QED
      BY <2>1, <2>4, <3>1 DEF AllRestored
  <2> HIDE DEF symbols
  <2>6. /\ job.config.format = 2 => BaseOnlySuccess(outcome)
        /\ AllRestored(severity.detail) =>
              outcome.validity = "complete_valid_recovery"
    BY <2>2, <2>3, <2>5, StreamRestored, ZenonT(60)
  <2>7. outcome.validity = "complete_valid_recovery" => Success(outcome)
    <3>1. Honest(outcome, reader, job)
      BY <2>1 DEF CodecInv, ReadHonestly, Own
    <3>. QED
      BY <3>1 DEF Honest
  <2>. QED
    BY <2>5, <2>6, <2>7
<1>. QED
  BY <1>1, CodecInvariant, PTL
=============================================================================
