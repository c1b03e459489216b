----------------------------- MODULE QuantKernels -----------------------------
(* The numbers a packed file holds (core/quant.cpp and the half floats of      *)
(* core/serialize.cpp): a row of weights is cut into groups that share a scale *)
(* and are stored as 4- or 8-bit codes; a product with a row of activations    *)
(* runs in integers, in a scalar loop or in the vector kernels, whose 16-bit   *)
(* lanes saturate; the scales are stored as half floats, which two functions   *)
(* decode. Scales multiply a group's integer sum afterwards and are left out of *)
(* the products; values to encode are integers.                                *)
EXTENDS Integers, Sequences, SequencesExt

CONSTANTS
    GroupSize,   \* values of a group (the code: 64)
    Lanes,       \* groups the vector loop takes at a time (the code: 8)
    MaxGroups,   \* model bound: groups of a row
    Nibbles,     \* 4-bit codes of a group that are tried
    ByteCodes,       \* 8-bit codes of a group that are tried
    Activations, \* activation codes of a group that are tried
    Samples,     \* groups of values that are encoded
    Mantissas,   \* mantissas of the half floats tried, and
    Tails        \* the 13 bits a single float has behind them

ASSUME QuantKernelsAssumption ==
    /\ GroupSize \in Nat /\ GroupSize % 4 = 0 /\ Lanes \in Nat \ {0}
    /\ Nibbles \subseteq [1..GroupSize -> -8..7]
    /\ ByteCodes \cup Activations \subseteq [1..GroupSize -> -127..127]

HalfGroup == GroupSize \div 2
Added(s) ==
    LET sum[n \in 0..Len(s)] == IF n = 0 THEN 0 ELSE sum[n - 1] + s[n]
    IN  sum[Len(s)]
AbsOf(x) == IF x < 0 THEN -x ELSE x
Clamp(x, lo, hi) == IF x < lo THEN lo ELSE IF x > hi THEN hi ELSE x
Largest(x) == FoldLeft(LAMBDA m, v : IF AbsOf(v) > m THEN AbsOf(v) ELSE m, 0, x)

\* rint(n / d): to nearest, ties to even.
Rint(n, d) ==
    LET q == n \div d
        twice == 2 * (n % d)
    IN  IF twice < d \/ (twice = d /\ q % 2 = 0) THEN q ELSE q + 1

\* ------------------------------------------------------------------- encoding

\* The 8-bit codes of a group, as quantize_row and the activations have them: the
\* largest value becomes 127.
CodesQ8(x) ==
    LET amax == Largest(x)
    IN  [i \in 1..GroupSize |->
            IF amax = 0 THEN 0 ELSE Clamp(Rint(x[i] * 127, amax), -127, 127)]

\* The 4-bit codes for the step amax / (quarters / 4), and the error they leave,
\* in units of (1 / quarters)^2.
CodesQ4(x, quarters) ==
    LET amax == Largest(x)
    IN  [i \in 1..GroupSize |->
            IF amax = 0 THEN 0 ELSE Clamp(Rint(x[i] * quarters, 4 * amax), -8, 7)]
ErrorQ4(x, quarters) ==
    LET amax == Largest(x)
        q == CodesQ4(x, quarters)
        e(i) == x[i] * quarters - 4 * q[i] * amax
    IN  Added([i \in 1..GroupSize |-> e(i) * e(i)])

\* kQ4Cand in quarters: the first is the obvious one, a later one replaces it when
\* its error is smaller.
Candidates == <<32, 31, 30, 29, 28, 27, 26, 25, 24, 33, 34, 35>>
BestScale(x) ==
    FoldLeft(LAMBDA best, l : IF ErrorQ4(x, l) * best * best < ErrorQ4(x, best) * l * l
                              THEN l ELSE best, 32, Candidates)

\* Byte j holds value j in its low nibble and value j + 32 in its high one.
Packed(q) == [j \in 1..HalfGroup |-> (q[j] + 8) + 16 * (q[j + HalfGroup] + 8)]
Low(b) == b % 16
High(b) == b \div 16
Unpacked(nib) ==
    [i \in 1..GroupSize |-> IF i <= HalfGroup THEN Low(nib[i]) - 8 ELSE High(nib[i - HalfGroup]) - 8]

\* ------------------------------------------------------------------- products

\* The scalar loops. The codes are stored unsigned, hence the correction by the
\* sum of the activations, which their encoder leaves behind.
ScalarQ4(nib, a) ==
    Added([j \in 1..HalfGroup |-> Low(nib[j]) * a[j] + High(nib[j]) * a[j + HalfGroup]])
    - 8 * Added(a)
ScalarQ8(w, a) == Added([j \in 1..GroupSize |-> w[j] * a[j]])

\* The instructions: vpmaddubsw multiplies unsigned by signed bytes and adds
\* neighbours with saturation; vpaddw wraps; vpsignb gives a byte another's sign.
Saturate16(x) == Clamp(x, -32768, 32767)
Wrap16(x) == ((x + 32768) % 65536) - 32768
MAddUbs(u, s) ==
    [k \in 1..(Len(u) \div 2) |->
        Saturate16(u[2 * k - 1] * s[2 * k - 1] + u[2 * k] * s[2 * k])]
SignOf(a, w) ==
    [j \in DOMAIN a |-> IF w[j] > 0 THEN a[j] ELSE IF w[j] < 0 THEN -a[j] ELSE 0]

\* q4_group_dot and q8_group_dot.
VectorQ4(nib, a) ==
    LET lo == MAddUbs([j \in 1..HalfGroup |-> Low(nib[j])], SubSeq(a, 1, HalfGroup))
        hi == MAddUbs([j \in 1..HalfGroup |-> High(nib[j])], SubSeq(a, HalfGroup + 1, GroupSize))
    IN  Added([k \in DOMAIN lo |-> Wrap16(lo[k] + hi[k])])

\* Mutant: the weights' signs are not given to the activations.
MutVectorQ8(w, a) == Added(MAddUbs([j \in DOMAIN w |-> AbsOf(w[j])], a))

VectorQ8(w, a) == Added(MAddUbs([j \in DOMAIN w |-> AbsOf(w[j])], SignOf(a, w)))

\* A row: the scalar loop goes group by group, the vector one a batch of Lanes at
\* a time, the correction shifted in, and the rest one by one.
RowScalar(row) ==
    Added([g \in DOMAIN row |->
        IF row[g].bits = 4 THEN ScalarQ4(Packed(row[g].w), row[g].a)
        ELSE ScalarQ8(row[g].w, row[g].a)])
RowVector(row) ==
    LET one(g) == IF row[g].bits = 4
                  THEN VectorQ4(Packed(row[g].w), row[g].a) - 8 * Added(row[g].a)
                  ELSE VectorQ8(row[g].w, row[g].a)
        whole == (Len(row) \div Lanes) * Lanes
        lane(u) == Added([b \in 1..(whole \div Lanes) |-> one((b - 1) * Lanes + u)])
    IN  Added([u \in 1..Lanes |-> lane(u)])
        + Added([r \in 1..(Len(row) - whole) |-> one(whole + r)])

\* ---------------------------------------------------------------- half floats

\* A single float without its sign is <<exponent field, 23-bit mantissa>>, a half
\* the 15 bits behind its sign.
Bit(x, n) == (x \div 2^n) % 2

FloatToHalf(f) ==
    LET exp == f[1] - 127 + 15
        shift == 14 - exp
        mant == f[2] + 8388608  \* the implicit bit
    IN  IF f[1] = 255 THEN 31744 + (IF f[2] # 0 THEN 512 ELSE 0)
        ELSE IF exp >= 31 THEN 31743
        ELSE IF exp < -10 THEN 0
        ELSE IF exp <= 0 THEN mant \div 2^shift + Bit(mant, shift - 1)
        ELSE exp * 1024 + f[2] \div 8192 + Bit(f[2], 12)

\* The shifts a subnormal needs until its top bit is in place.
Shifts(m) == CHOOSE n \in 1..10 : m * 2^n \in 1024..2047

HalfToFloat(h) ==
    LET exp == h \div 1024
        m == h % 1024
    IN  IF exp = 0
        THEN IF m = 0 THEN <<0, 0>>
             ELSE <<127 - 15 - (Shifts(m) - 1), ((m * 2^Shifts(m)) % 1024) * 8192>>
        ELSE IF exp = 31 THEN <<255, m * 8192>>
        ELSE <<exp + 127 - 15, m * 8192>>

\* h2f of the kernels: a subnormal is a product with 2^-24, which is exact; an
\* infinity is never asked for.
KernelFloat(h) ==
    LET exp == h \div 1024
        m == h % 1024
        top == CHOOSE n \in 0..9 : 2^n <= m /\ m < 2^(n + 1)
    IN  IF exp = 0
        THEN IF m = 0 THEN <<0, 0>> ELSE <<127 - 24 + top, (m - 2^top) * 2^(23 - top)>>
        ELSE <<exp + 112, m * 8192>>

\* -------------------------------------------------------------- inputs to try

VARIABLES row, sample, half, tail

kvars == <<row, sample, half, tail>>

Zeros == [i \in 1..GroupSize |-> 0]

KernelsInit == row = <<>> /\ sample = Zeros /\ half = 0 /\ tail = 0

\* Another group in the row; its width is the row's.
Extend ==
    /\ Len(row) < MaxGroups /\ sample = Zeros /\ half = 0 /\ tail = 0
    /\ \E bits \in {4, 8}, a \in Activations :
          \E w \in IF bits = 4 THEN Nibbles ELSE ByteCodes :
              /\ row # <<>> => row[1].bits = bits
              /\ row' = Append(row, [bits |-> bits, w |-> w, a |-> a])
    /\ UNCHANGED <<sample, half, tail>>

\* A group of values to encode.
Take ==
    /\ row = <<>> /\ sample = Zeros /\ half = 0 /\ tail = 0
    /\ sample' \in Samples
    /\ UNCHANGED <<row, half, tail>>

\* A half float, and a single between it and the next.
Pick ==
    /\ row = <<>> /\ sample = Zeros /\ half = 0 /\ tail = 0
    /\ \E exp \in 0..30, m \in Mantissas : half' = exp * 1024 + m
    /\ tail' \in Tails
    /\ UNCHANGED <<row, sample>>

KernelsNext == Extend \/ Take \/ Pick

KernelsSpec == KernelsInit /\ [][KernelsNext]_kvars

\* ------------------------------------------------------------------ properties

\* The vector kernels give what the scalar loops give (quant.h calls them bitwise
\* identical): no lane saturates or wraps, no group is left out, and both are the
\* product of the codes.
KernelsAgree ==
    /\ RowVector(row) = RowScalar(row)
    /\ RowScalar(row) = Added([g \in DOMAIN row |-> ScalarQ8(row[g].w, row[g].a)])

\* What is encoded decodes to the nearest code: packing loses nothing, the codes
\* of a group are within their bits, and the searched 4-bit scale is never worse
\* than the obvious one.
EncodingIsClose ==
    LET q8 == CodesQ8(sample)
        best == BestScale(sample)
        q4 == CodesQ4(sample, best)
        amax == Largest(sample)
    IN  /\ \A i \in 1..GroupSize : 2 * AbsOf(sample[i] * 127 - q8[i] * amax) <= amax
        /\ Unpacked(Packed(q4)) = q4
        /\ \A j \in 1..HalfGroup : Packed(q4)[j] \in 0..255
        /\ ErrorQ4(sample, best) * 32 * 32 <= ErrorQ4(sample, 32) * best * best

\* The two decoders agree, a half comes back from a single unchanged, and a single
\* between two halves becomes the nearer one, the upper one at the middle. (Above
\* the largest half the code leaves the finite numbers: that one is not tried.)
HalvesAgree ==
    LET f == HalfToFloat(half)
        between == half >= 1024 /\ half < 31743  \* 13 bits are dropped
    IN  /\ KernelFloat(half) = f
        /\ FloatToHalf(f) = half
        /\ between => FloatToHalf(<<f[1], f[2] + tail>>) = half + (IF tail >= 4096 THEN 1 ELSE 0)
=============================================================================
