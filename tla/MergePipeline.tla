----------------------------- MODULE MergePipeline ----------------------------
(* What Coordinator::round() makes of the proposals it has collected           *)
(* (coordinator.cpp): they are added up per source, damped, trimmed, projected *)
(* out of each other where they conflict, and averaged coordinate by           *)
(* coordinate over those that want the elected sign.                           *)
(*                                                                             *)
(* Numbers are exact fractions.  The trust regions scale a whole vector by a   *)
(* positive factor, which Coordinator.OpenGate has; here they let it through.  *)
EXTENDS Integers, Sequences, SequencesExt

CONSTANTS
    NumSources,     \* kNumSources; a source is 1 .. NumSources
    Deltas,         \* what a proposal may say, of the right size or not
    Size,           \* flat_.total
    Stalenesses,    \* version - base_version
    Passing,        \* what the Fisher term lets pass of each coordinate,
    PassBase,          \* as parts of this
    KeepCount,      \* coordinates kept of a proposal
    Importance,     \* priority times credit of each source
    MaxMerged       \* model bound: proposals in a round

ASSUME MergePipelineAssumption ==
    /\ Passing \in [1..Size -> 1..PassBase] /\ KeepCount \in 1..Size
    /\ Importance \in [1..NumSources -> Nat \ {0}] /\ Stalenesses \subseteq Nat

VARIABLE merging    \* the proposals, in the order of the queue

mvars == <<merging>>

\* A vector of fractions: numerators over one denominator, in lowest terms.
RECURSIVE GcdOf(_, _)
GcdOf(a, b) == IF b = 0 THEN a ELSE GcdOf(b, a % b)
Magnitude(x) == IF x < 0 THEN -x ELSE x
Total(s) == FoldLeft(LAMBDA m, n : m + n, 0, s)
Fraction(num, den) ==
    LET g == FoldLeft(LAMBDA m, n : GcdOf(m, Magnitude(n)), den, num)
    IN  [num |-> SubSeq([j \in 1..Len(num) |-> num[j] \div g], 1, Size), den |-> den \div g]

Null == Fraction([j \in 1..Size |-> 0], 1)
Inner(a, b) == Total([j \in 1..Size |-> a[j] * b[j]])   \* of the numerators
Plus(v, w) ==
    Fraction([j \in 1..Size |-> v.num[j] * w.den + w.num[j] * v.den], v.den * w.den)

\* The proposals of a source, each weakened by its staleness; one of another size
\* is dropped.
Gathered(ps, i) ==
    LET its == SelectSeq(ps, LAMBDA p : p.source = i /\ Len(p.delta) = Size)
    IN  FoldLeft(LAMBDA v, p : Plus(v, Fraction(p.delta, 1 + p.stale)), Null, its)

\* Stage 1.
Damped(v) == Fraction([j \in 1..Size |-> v.num[j] * Passing[j]], v.den * PassBase)

\* Stage 3: what is smaller than the KeepCount-th largest goes.
TopOnly(v) ==
    LET sizes == SortSeq([j \in 1..Size |-> Magnitude(v.num[j])], LAMBDA a, b : a > b)
    IN  Fraction([j \in 1..Size |->
                     IF Magnitude(v.num[j]) < sizes[KeepCount] THEN 0 ELSE v.num[j]], v.den)

Prepared(ps) == SubSeq([i \in 1..NumSources |-> TopOnly(Damped(Gathered(ps, i)))], 1, NumSources)

\* Stage 4 for one pair: source i loses what is against source j as it is by now.
Project(d, i, j) ==
    LET a == d[i].num
        b == d[j].num
    IN  IF i = j \/ Inner(a, b) >= 0 THEN d
        ELSE [d EXCEPT ![i] = Fraction([c \in 1..Size |-> a[c] * Inner(b, b) - Inner(a, b) * b[c]],
                                       d[i].den * Inner(b, b))]

\* The pairs in the order of the two loops.
First(n) == (n - 1) \div NumSources + 1
Second(n) == ((n - 1) % NumSources) + 1
Pairs == [n \in 1..(NumSources * NumSources) |-> n]

\* Mutant: a source is compared with the others as they came.
MutProjected(d) ==
    FoldLeft(LAMBDA e, n : [e EXCEPT ![First(n)] =
                               Project([d EXCEPT ![First(n)] = e[First(n)]], First(n), Second(n))[First(n)]],
             d, Pairs)

\* Stage 4: pair after pair, in place.
Projected(d) == FoldLeft(LAMBDA e, n : Project(e, First(n), Second(n)), d, Pairs)

\* Stage 5: a coordinate takes the sign of the larger weighted mass, and the weighted
\* mean of the sources that have this sign.
Elected(d) ==
    LET common == FoldLeft(LAMBDA m, i : (m \div GcdOf(m, d[i].den)) * d[i].den, 1,
                           [i \in 1..NumSources |-> i])
        val(i, j) == Importance[i] * d[i].num[j] * (common \div d[i].den)
        mass(j) == Total([i \in 1..NumSources |-> val(i, j)])
        agrees(i, j) == val(i, j) * mass(j) > 0
        num(j) == Total([i \in 1..NumSources |-> IF agrees(i, j) THEN val(i, j) ELSE 0])
        den(j) == Total([i \in 1..NumSources |-> IF agrees(i, j) THEN Importance[i] ELSE 0])
    IN  [j \in 1..Size |-> IF mass(j) = 0 THEN [num |-> 0, den |-> 1]
                           ELSE LET g == GcdOf(Magnitude(num(j)), den(j) * common)
                                IN  [num |-> num(j) \div g, den |-> (den(j) * common) \div g]]

MergedUpdate(ps) == Elected(Projected(Prepared(ps)))

-----------------------------------------------------------------------------
MergeInit == merging = <<>>

\* One more proposal in the queue.
Collected ==
    /\ Len(merging) < MaxMerged
    /\ \E i \in 1..NumSources, d \in Deltas, s \in Stalenesses :
          merging' = Append(merging, [source |-> i, delta |-> d, stale |-> s])

MergeNext == Collected

\* ------------------------------------------------------------------ properties

Present(d) == {i \in 1..NumSources : d[i] # Null}

\* "After this step no pair of proposals actively fights each other" (coordinator.h),
\* although each projection changes a vector that others were compared with before.
NoneFights(before, after) ==
    \A i, j \in Present(before) : Inner(after[i].num, after[j].num) >= 0

\* A projection makes no proposal longer, so what the trust region allowed it stays
\* enough.
NoneGrows(before, after) ==
    \A i \in 1..NumSources :
        Inner(after[i].num, after[i].num) * before[i].den * before[i].den
          <= Inner(before[i].num, before[i].num) * after[i].den * after[i].den

\* A source that is alone is merged as it is, and what the sources want is not lost
\* altogether.
NothingLost(before, m) ==
    /\ \A i \in 1..NumSources : Present(before) = {i} =>
          \A j \in 1..Size : m[j].num * before[i].den = before[i].num[j] * m[j].den
    /\ Present(before) # {} => \E j \in 1..Size : m[j].num # 0

\* The merge of a round is sound, and the order of the queue is not in it.
MergeSound ==
    LET before == Prepared(merging)
        after == Projected(before)
        m == Elected(after)
    IN  /\ NoneFights(before, after) /\ NoneGrows(before, after)
        /\ NothingLost(before, m)
        /\ m = MergedUpdate(Reverse(merging))
=============================================================================
