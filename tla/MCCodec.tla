------------------------------- MODULE MCCodec -------------------------------
(***************************************************************************)
(* Codec over GF(16): codewords of 15 symbols, 7 or 11 of them data, and   *)
(* profiles of at most three codewords with the shapes of the code's.      *)
(***************************************************************************)
EXTENDS Codec

Profile(data, padding) == [data |-> data, padding |-> padding]

MCProfiles ==
    [symmetric |-> [b \in {2, 4} |-> IF b = 4 THEN Profile(<<7, 11>>, 0) ELSE Profile(<<7, 7>>, 5)],
     base   |-> [b \in {2, 4} |-> IF b = 4 THEN Profile(<<7, 7, 7>>, 3) ELSE Profile(<<7, 7>>, 5)],
     detail |-> [b \in {2, 4} |-> IF b = 4 THEN Profile(<<11, 11>>, 4) ELSE Profile(<<11>>, 2)]]

\* The code's own profiles: every layer of 128 x 128 pixels fills them exactly.
Times(k, n) == [i \in 1 .. n |-> k]
CodeProfiles ==
    [symmetric |-> [b \in {2, 4} |-> IF b = 4 THEN Profile(Times(127, 32) \o Times(191, 22), 74)
                                     ELSE Profile(Times(127, 16) \o Times(191, 11), 37)],
     base   |-> [b \in {2, 4} |-> IF b = 4 THEN Profile(Times(127, 65), 63) ELSE Profile(Times(127, 33), 95)],
     detail |-> [b \in {2, 4} |-> IF b = 4 THEN Profile(Times(191, 43), 21) ELSE Profile(Times(191, 22), 106)]]

ASSUME CodeProfilesFit == Fit(CodeProfiles, 128 * 128, 8)

MCPixels == [i \in 1 .. 18 |-> (53 * i + 17) % 256]

MCFailure == [i \in {0} |-> 0]
MCHeaderWord == <<3, 0, 12, 7, 1, 15, 2>>
MCCapacities == <<40, 44, 30>>

Config(format) == [format |-> format, seed |-> 1]

Job(methods, formats, fractions, scores) ==
    [pair : {1}, method : methods, config : {Config(f) : f \in formats},
     fraction : fractions, scores : {scores}, pixels : {MCPixels}]

MCJobs == Job(Methods, {1, 2}, {25, 50, 75, 100}, <<400, 1000, 0>>)
            \cup Job({"C1_A", "C2_D", "C3_A_D"}, {2}, {75, 100}, <<900, 200, 900>>)

MCHigh == 8
MCFeasibility == {[l \in 0 .. 8 |-> l < 1], [l \in 0 .. 8 |-> l \in 0 .. 3 \cup {5, 6}]}

MCBursts == [first : {1, 6, 13, 17, 22, 31, 44, 51, 68}, length : {1, 3, 5, 9, 20}, value : {3, 5, 14}]

Stranger(pair, method, config, fraction) ==
    [pair |-> pair, method |-> method, config |-> config, fraction |-> fraction,
     scores |-> None, pixels |-> None]

MCStrangers ==
    {Stranger(p, m, Config(2), 100) : p \in {1, 2}, m \in {"C3_NP", "C3_A_D"}}
      \cup {Stranger(1, "C0_FIXED", Config(1), 100), Stranger(1, "C3_A_D", Config(2), 50),
            Stranger(1, "C3_A_D", [format |-> 2, seed |-> 2], 100)}
=============================================================================
