----------------------------- MODULE ReedSolomon -----------------------------
(***************************************************************************)
(* ctsteg.digital_ad.reed_solomon: systematic full-length codewords over   *)
(* GF(2^SymbolBits), decoded by Berlekamp-Massey, a root search and a      *)
(* linear solve. The code has SymbolBits = 8 and Primitive = 0x11D; here   *)
(* both are parameters, so that small fields can be searched completely.   *)
(* A word is a sequence of symbols; Failure stands for data=None.          *)
(***************************************************************************)
EXTENDS Integers, Sequences, FiniteSets

LOCAL Seqs == INSTANCE SequencesExt

CONSTANTS SymbolBits, Primitive, Failure

\* The code's symbols are bytes; the bitplanes need symbols that hold 4 bits.
ASSUME SymbolBitsAssumption == SymbolBits \in {4, 8}
\* data=None is no sequence of symbols: it has an index 0.
ASSUME FailureAssumption == 0 \in DOMAIN Failure

Size    == 2 ^ SymbolBits
Symbols == 0 .. Size - 1
CodewordSymbols == Size - 1

\* The same sequence, with each element computed once.
Tuple(s) == s \o <<>>

XorBits[a, b \in 0 .. 2 * Size - 1] ==
    IF a = 0 /\ b = 0 THEN 0
    ELSE 2 * XorBits[a \div 2, b \div 2] + ((a + b) % 2)

XorTable  == [a \in Symbols |-> [b \in Symbols |-> XorBits[a, b]]]
Add(a, b) == XorTable[a][b]

Exp == LET power[i \in 0 .. CodewordSymbols - 1] ==
               IF i = 0 THEN 1
               ELSE LET doubled == 2 * power[i - 1]
                    IN  IF doubled < Size THEN doubled ELSE XorBits[doubled, Primitive]
       IN  [i \in 0 .. CodewordSymbols - 1 |-> power[i]]
Log == LET inverse(exp) == [v \in Symbols \ {0} |-> CHOOSE i \in DOMAIN exp : exp[i] = v]
       IN  inverse(Exp)

Product ==
    LET table(exp, log) ==
            [a \in Symbols |-> [b \in Symbols |->
                IF 0 \in {a, b} THEN 0 ELSE exp[(log[a] + log[b]) % CodewordSymbols]]]
    IN  table(Exp, Log)
Mul(a, b) == Product[a][b]
Quotient ==
    LET table(exp, log) ==
            [a \in Symbols |-> [b \in Symbols \ {0} |->
                IF a = 0 THEN 0 ELSE exp[(log[a] - log[b]) % CodewordSymbols]]]
    IN  table(Exp, Log)
Div(a, b) == Quotient[a][b]
Pow(a, e) == IF e = 0 THEN 1
             ELSE IF a = 0 THEN 0 ELSE Exp[(Log[a] * e) % CodewordSymbols]
Root(e)   == Pow(2, e)

-----------------------------------------------------------------------------
(* Polynomials: coefficients with the highest power first, or by index     *)

\* c[1] v^(n-1) + ... + c[n]
EvalDescending(c, v) ==
    LET horner[i \in 0 .. Len(c)] ==
            IF i = 0 THEN 0 ELSE Add(Mul(horner[i - 1], v), c[i])
    IN  horner[Len(c)]

\* c[1] + c[2] v + ... + c[n] v^(n-1), for the first n coefficients
EvalAscending(c, n, v) ==
    LET horner[i \in 1 .. n] ==
            IF i = 1 THEN c[n] ELSE Add(Mul(horner[i - 1], v), c[n + 1 - i])
    IN  horner[n]

\* The product of the factors x + Root(i) for i below parity.
GeneratorPolynomial[parity \in 0 .. CodewordSymbols - 1] ==
    IF parity = 0 THEN <<1>>
    ELSE LET g == GeneratorPolynomial[parity - 1]
             r == Root(parity - 1)
         IN  Tuple([i \in 1 .. parity + 1 |->
                      Add(IF i <= parity THEN g[i] ELSE 0,
                          IF i > 1 THEN Mul(g[i - 1], r) ELSE 0)])

Generators == [parity \in 1 .. CodewordSymbols - 1 |-> GeneratorPolynomial[parity]]

-----------------------------------------------------------------------------
\* The data, followed by the remainder of its division by the generator.
EncodeCodeword(data) ==
    LET k == Len(data)
        parity == CodewordSymbols - k
        g == Generators[parity]
        working[i \in 0 .. k] ==
            IF i = 0 THEN data \o [j \in 1 .. parity |-> 0]
            ELSE LET w == working[i - 1]
                 IN  Tuple([j \in 1 .. CodewordSymbols |->
                        IF j > i /\ j - i <= parity
                        THEN Add(w[j], Mul(g[j - i + 1], w[i])) ELSE w[j]])
    IN  data \o SubSeq(working[k], k + 1, CodewordSymbols)

Syndromes(word, parity) == Tuple([r \in 1 .. parity |-> EvalDescending(word, Root(r - 1))])

AllZero(s) == \A i \in DOMAIN s : s[i] = 0

\* Berlekamp-Massey: the step of one syndrome, s[position + 1].
Massey(s, position, m) ==
    LET sum[i \in 0 .. m.degree] ==
            IF i = 0 THEN s[position + 1]
            ELSE Add(sum[i - 1], Mul(m.current[i + 1], s[position - i + 1]))
        scaled(scale) == Tuple([i \in 1 .. Len(s) + 1 |->
            IF i <= m.shift THEN m.current[i]
            ELSE Add(m.current[i], Mul(scale, m.previous[i - m.shift]))])
        stepped(discrepancy, updated) ==
            IF discrepancy = 0 THEN [m EXCEPT !.shift = @ + 1]
            ELSE IF 2 * m.degree <= position
            THEN [current |-> updated, previous |-> m.current, shift |-> 1,
                  degree |-> position + 1 - m.degree,
                  previousDiscrepancy |-> discrepancy]
            ELSE [m EXCEPT !.current = updated, !.shift = @ + 1]
        corrected(discrepancy) ==
            stepped(discrepancy, scaled(Div(discrepancy, m.previousDiscrepancy)))
    IN  corrected(sum[m.degree])

ErrorLocator(s) ==
    LET one == Tuple([i \in 1 .. Len(s) + 1 |-> IF i = 1 THEN 1 ELSE 0])
        locator[n \in 0 .. Len(s)] ==
            IF n = 0 THEN [current |-> one, previous |-> one, degree |-> 0,
                           shift |-> 1, previousDiscrepancy |-> 1]
            ELSE Massey(s, n - 1, locator[n - 1])
    IN  locator[Len(s)]

\* Mutant: locations counted from the wrong end by one.
FindErrorPositionsShifted(m) ==
    {p \in 1 .. CodewordSymbols :
        EvalAscending(m.current, m.degree + 1, Root(p - Size)) = 0}

\* The places (from 1) whose inverse location is a root of the locator.
FindErrorPositions(m) ==
    {p \in 1 .. CodewordSymbols :
        EvalAscending(m.current, m.degree + 1, Root(p - CodewordSymbols)) = 0}

\* Gauss-Jordan on rows whose last entry is the right-hand side: one column.
Unit(row, column) == Tuple([c \in DOMAIN row |-> Div(row[c], row[column])])
Cleared(row, unit, column) ==
    Tuple([c \in DOMAIN row |-> Add(row[c], Mul(row[column], unit[c]))])
Reduced(rows, unit, column) ==
    Tuple([r \in DOMAIN rows |-> IF r = column THEN unit ELSE Cleared(rows[r], unit, column)])
Swapped(rows, r, q) == [rows EXCEPT ![r] = rows[q], ![q] = rows[r]]

\* The first row with a nonzero entry is the pivot.
Eliminate(rows, column) ==
    LET pivots == {r \in column .. Len(rows) : rows[r][column] # 0}
        on(moved) == Reduced(moved, Unit(moved[column], column), column)
    IN  IF pivots = {} THEN Failure
        ELSE on(Swapped(rows, column, CHOOSE r \in pivots : \A q \in pivots : r <= q))

\* Row r of the reduced system ends in unknown r.
Unknowns(rows) ==
    IF rows = Failure THEN Failure ELSE [r \in DOMAIN rows |-> rows[r][Len(rows) + 1]]

SolveGF(locations, s) ==
    LET n == Len(locations)
        rows[column \in 0 .. n] ==
            IF column = 0
            THEN Tuple([row \in 1 .. n |->
                    [c \in 1 .. n |-> Pow(locations[c], row - 1)] \o <<s[row]>>])
            ELSE LET before == rows[column - 1]
                 IN  IF before = Failure THEN Failure ELSE Eliminate(before, column)
    IN  Unknowns(rows[n])

-----------------------------------------------------------------------------
Undecodable == [success |-> FALSE, data |-> Failure, corrected |-> 0]

\* The word with the magnitudes of its located errors taken away.
Corrected(word, s, positions) ==
    LET rank(p) == Cardinality({q \in positions : q <= p})
        place == Tuple([i \in 1 .. Cardinality(positions) |->
                            CHOOSE p \in positions : rank(p) = i])
        repaired(magnitude) ==
            IF magnitude = Failure THEN Failure
            ELSE Tuple([p \in 1 .. CodewordSymbols |->
                    IF p \in positions THEN Add(word[p], magnitude[rank(p)]) ELSE word[p]])
    IN  repaired(SolveGF(Tuple([i \in DOMAIN place |-> Root(CodewordSymbols - place[i])]), s))

DecodeCodeword(word, k) ==
    LET parity == CodewordSymbols - k
        checked(fixed, errors) ==
            IF fixed = Failure \/ ~AllZero(Syndromes(fixed, parity)) THEN Undecodable
            ELSE [success |-> TRUE, data |-> SubSeq(fixed, 1, k), corrected |-> errors]
        placed(s, errors, positions) ==
            IF errors \notin 1 .. parity \div 2 \/ Cardinality(positions) # errors
            THEN Undecodable
            ELSE checked(Corrected(word, s, positions), errors)
        located(s, m) == placed(s, m.degree, FindErrorPositions(m))
        judged(s) ==
            IF AllZero(s) THEN [success |-> TRUE, data |-> SubSeq(word, 1, k), corrected |-> 0]
            ELSE located(s, ErrorLocator(s))
    IN  judged(Syndromes(word, parity))

-----------------------------------------------------------------------------
(* Layers. A profile lists the data symbols of its codewords; the last     *)
(* padding symbols of the whole are zero.                                  *)

EmptyProfile == [data |-> <<>>, padding |-> 0]

\* Data symbols before codeword i of a profile.
Offset(profile, i) ==
    LET sum[j \in 0 .. Len(profile.data)] ==
            IF j = 0 THEN 0 ELSE sum[j - 1] + profile.data[j]
    IN  sum[i - 1]
InputSymbols(profile) == Offset(profile, Len(profile.data) + 1)
RawSymbols(profile)   == InputSymbols(profile) - profile.padding

Codeword(encoded, i) == SubSeq(encoded, (i - 1) * CodewordSymbols + 1, i * CodewordSymbols)

EncodeLayer(raw, profile) ==
    LET padded == raw \o [j \in 1 .. profile.padding |-> 0]
    IN  Seqs!FlattenSeq([i \in 1 .. Len(profile.data) |->
            EncodeCodeword(SubSeq(padded, Offset(profile, i) + 1, Offset(profile, i + 1)))])

\* Failed codewords are numbered from 0; the count itself stands for padding.
DecodeLayer(encoded, profile) ==
    LET n == Len(profile.data)
        trimmed(padded) ==
            IF AllZero(SubSeq(padded, RawSymbols(profile) + 1, InputSymbols(profile)))
            THEN [data |-> SubSeq(padded, 1, RawSymbols(profile)), failures |-> {}]
            ELSE [data |-> Failure, failures |-> {n}]
        joined(results) ==
            IF \A i \in 1 .. n : results[i].success
            THEN trimmed(Seqs!FlattenSeq([i \in 1 .. n |-> results[i].data]))
            ELSE [data |-> Failure, failures |-> {i \in 0 .. n - 1 : ~results[i + 1].success}]
    IN  joined(Tuple([i \in 1 .. n |-> DecodeCodeword(Codeword(encoded, i), profile.data[i])]))
=============================================================================
