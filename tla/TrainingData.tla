----------------------------- MODULE TrainingData -----------------------------
(* The corpora a model is trained and judged on (core/dataset.cpp): token      *)
(* files, the hold-out at the end of each source, windows drawn for training   *)
(* and for the coordinator's hold-out, the mixture of the sources, and batches *)
(* made of finished sequences.                                                 *)
(*                                                                             *)
(* A token is its position in its source, counted from 0.  A behaviour builds  *)
(* a mixture and draws from it, or lays out sequences.  Weights are hundredths.*)
EXTENDS Integers, Sequences, SequencesExt, FiniteSetsExt

CONSTANTS
    Sizes,          \* tokens a source may have
    MinText,        \* a text of fewer tokens is refused
    MinBin,         \* a token file of fewer tokens is refused
    TextShare,      \* a text holds out one token of so many
    BinShare,       \* a token file holds out one token of so many
    Weights,        \* weights a source may be given, 0 for none
    MaxSources,     \* model bound: sources of a mixture
    Windows,        \* tokens of a row
    BatchRows,      \* rows of a batch
    Rounds,         \* hold-out batches of a source
    MaxSequences    \* model bound: sequences laid out

ASSUME TrainingDataAssumption ==
    /\ Sizes \subseteq Nat /\ Windows \subseteq Nat \ {0} /\ Weights \subseteq Nat
    /\ {TextShare, BinShare, BatchRows, Rounds} \subseteq Nat \ {0}
    /\ {MinText, MinBin, MaxSources, MaxSequences} \subseteq Nat

VARIABLES
    binFile,        \* the token file: tokens announced and written; <<>> for none
    sources,        \* the mixture: size, end of the training part, weight, origin
    ready,          \* "spec" while the specification is read, "ready", "refused"
    drawn,          \* the last batch: for "train" or "holdout", source, window, offsets
    lengths         \* the sequences to lay out, by their lengths

dvars == <<binFile, sources, ready, drawn, lengths>>

-----------------------------------------------------------------------------
(* The files and the mixture.                                                  *)

\* write_bin() of slm tokenize: the header, which announces the tokens, comes first; the
\* program may end in it, behind it or before the last token.
WriteBin ==
    /\ ready = "spec" /\ lengths = <<>> /\ binFile = <<>>
    /\ \E n \in Sizes : \E w \in {-1, 0, n - 1, n} : binFile' = <<[announced |-> n, written |-> w]>>
    /\ UNCHANGED <<sources, ready, drawn, lengths>>

\* load_bin(): -1 written is a header that is not whole.
BinLoads(f) == f.written >= 0 /\ f.written >= f.announced /\ f.announced >= MinBin

\* set_holdout(): never more than half.
TrainEnd(n, share) == n - Min({n \div share, n \div 2})

Source(n, share, w, origin) ==
    [size |-> n, end |-> TrainEnd(n, share), weight |-> w, given |-> w, origin |-> origin]

\* add_source(): a text, or the token file.
AddText ==
    /\ ready = "spec" /\ lengths = <<>> /\ Len(sources) < MaxSources
    /\ \E n \in Sizes, w \in Weights :
        IF n < MinText THEN ready' = "refused" /\ UNCHANGED sources
        ELSE sources' = Append(sources, Source(n, TextShare, w, "text")) /\ UNCHANGED ready
    /\ UNCHANGED <<binFile, drawn, lengths>>

AddBin ==
    /\ ready = "spec" /\ lengths = <<>> /\ Len(sources) < MaxSources /\ binFile # <<>>
    /\ \E w \in Weights :
        IF ~BinLoads(binFile[1]) THEN ready' = "refused" /\ UNCHANGED sources
        ELSE /\ sources' = Append(sources, Source(binFile[1].announced, BinShare, w, "bin"))
             /\ UNCHANGED ready
    /\ UNCHANGED <<binFile, drawn, lengths>>

\* Who was given no weight shares what is left of the whole, or takes an equal part.
Shared ==
    LET without == {s \in DOMAIN sources : sources[s].weight = 0}
        explicit == MapThenSumSet(LAMBDA s : sources[s].weight, DOMAIN sources)
        rest == IF without = {} THEN 0 ELSE Max({0, 100 - explicit}) \div Cardinality(without)
    IN  [s \in DOMAIN sources |->
            [sources[s] EXCEPT !.weight =
                IF s \notin without THEN @ ELSE IF rest > 0 THEN rest ELSE 100 \div Len(sources)]]

\* The end of add_spec().
FinishSpec ==
    /\ ready = "spec" /\ lengths = <<>> /\ sources # <<>>
    /\ sources' = Shared /\ ready' = "ready"
    /\ UNCHANGED <<binFile, drawn, lengths>>

-----------------------------------------------------------------------------
(* Windows.  To draw one changes nothing, so a behaviour draws once.           *)

\* Mutant: the windows reach to the end of the training part, wherever they begin.
MutRowStarts(src, T) == IF src.end > 0 THEN 0..(src.end - 1) ELSE {0}

\* TokenDataset::sample_batch(): where a row may begin.
RowStarts(src, T) == IF src.end - T - 1 > 0 THEN 0..(src.end - T - 2) ELSE {0}

\* MixtureDataset::sample_batch() and sample_batch_from(): any source, any windows of it,
\* each row drawn for itself: one of them is followed.
Sample ==
    /\ ready = "ready" /\ drawn.use = "none"
    /\ \E s \in DOMAIN sources, T \in Windows : \E off \in RowStarts(sources[s], T) :
        drawn' = [use |-> "train", source |-> s, T |-> T, batches |-> <<<<off>>>>]
    /\ UNCHANGED <<binFile, sources, ready, lengths>>

\* Where the hold-out's next batch begins, from the one before.
NextCursor(src, T, cursor) ==
    IF cursor + BatchRows * T + T + 1 > src.size THEN src.end ELSE cursor + BatchRows * T

Cursor(src, T) ==
    LET at[c \in 1..Rounds] == IF c = 1 THEN src.end ELSE NextCursor(src, T, at[c - 1]) IN at

\* Row i of the batch at this cursor; beyond the end it begins again inside.
HoldoutOffset(src, T, cursor, i) ==
    LET avail == src.size - src.end - 1
        off == cursor + i * T
    IN  IF off + T + 1 > src.size THEN src.end + ((off - src.end) % Max({1, avail - T})) ELSE off

\* holdout_batches(): none if the hold-out is shorter than a window.
HoldoutBatches(src, T) ==
    IF src.size - src.end - 1 < T + 1 THEN <<>>
    ELSE [c \in 1..Rounds |->
             [i \in 1..BatchRows |-> HoldoutOffset(src, T, Cursor(src, T)[c], i - 1)]]

Judge ==
    /\ ready = "ready" /\ drawn.use = "none"
    /\ \E s \in DOMAIN sources, T \in Windows :
        drawn' = [use |-> "holdout", source |-> s, T |-> T,
                  batches |-> HoldoutBatches(sources[s], T)]
    /\ UNCHANGED <<binFile, sources, ready, lengths>>

-----------------------------------------------------------------------------
(* batches_from_sequences().                                                   *)

AddSequence ==
    /\ sources = <<>> /\ binFile = <<>> /\ ready = "spec" /\ Len(lengths) < MaxSequences
    /\ \E n \in 0..(Max(Windows) + 2) : lengths' = Append(lengths, n)
    /\ UNCHANGED <<binFile, sources, ready, drawn>>

\* The row of a sequence of n tokens: what is read and what is to be said, -1 where
\* nothing is.
RowOf(n, T) ==
    [t \in 1..T |-> IF t < Min({n, T + 1}) THEN <<t - 1, t>> ELSE <<0, -1>>]
EmptyRow(T) == [t \in 1..T |-> <<0, -1>>]

\* A batch in which no row says anything is left out.
SequenceBatches(T) ==
    LET count == (Len(lengths) + BatchRows - 1) \div BatchRows
        batch(b) == [i \in 1..BatchRows |->
                        LET s == (b - 1) * BatchRows + i
                        IN  [seq |-> s, row |-> IF s <= Len(lengths) THEN RowOf(lengths[s], T)
                                                ELSE EmptyRow(T)]]
        says(b) == \E i \in 1..BatchRows, t \in 1..T : b[i].row[t][2] # -1
    IN  SelectSeq([b \in 1..count |-> batch(b)], says)

DataInit ==
    /\ binFile = <<>> /\ sources = <<>> /\ ready = "spec" /\ lengths = <<>>
    /\ drawn = [use |-> "none"]

DataNext == WriteBin \/ AddText \/ AddBin \/ FinishSpec \/ Sample \/ Judge \/ AddSequence

DataSpec == DataInit /\ [][DataNext]_dvars

-----------------------------------------------------------------------------

\* The positions the rows of the last batch read or ask for.
Touched ==
    UNION {UNION {off..(off + drawn.T) : off \in ToSet(batch)} : batch \in ToSet(drawn.batches)}

\* sample_batch(): no window of training reads or asks for a token of the hold-out, as
\* long as the training part is longer than a window; a shorter one is read over its end.
TrainsBeforeHoldout ==
    (drawn.use = "train" /\ sources[drawn.source].end > drawn.T) =>
        Touched \subseteq 0..(sources[drawn.source].end - 1)

\* holdout_batches(): the coordinator judges on the hold-out alone, and all of a row is
\* there, however often the rows begin again.
JudgesOnHoldout ==
    drawn.use = "holdout" =>
        Touched \subseteq sources[drawn.source].end..(sources[drawn.source].size - 1)

\* load_bin(): a token file that was not written to its end is in no mixture.
BinsAreWhole ==
    \A s \in DOMAIN sources :
        sources[s].origin = "bin" => binFile[1].written = sources[s].size

\* add_spec(): every source has a part of the mixture, those that were given a weight in
\* its proportion, those that were not the same as each other, and as much as the rest
\* if something was left.
EverySourceCounts ==
    ready = "ready" =>
        LET without == {s \in DOMAIN sources : sources[s].given = 0}
            explicit == MapThenSumSet(LAMBDA s : sources[s].given, DOMAIN sources)
            total == MapThenSumSet(LAMBDA s : sources[s].weight, DOMAIN sources)
        IN  /\ \A s \in DOMAIN sources : sources[s].weight > 0
            /\ \A s \in DOMAIN sources \ without : sources[s].weight = sources[s].given
            /\ \A s, t \in without : sources[s].weight = sources[t].weight
            /\ (without # {} /\ explicit < 100) => total <= 100 /\ total + Cardinality(without) > 100

\* batches_from_sequences(): every pair of neighbours of a sequence, up to the window, is
\* in exactly one row, and nothing else is asked for.
PairsLaidOutOnce ==
    \A T \in Windows :
        LET bs == SequenceBatches(T)
            cells == {c \in (DOMAIN bs) \X (1..BatchRows) \X (1..T) :
                          bs[c[1]][c[2]].row[c[3]][2] # -1}
            said == {<<bs[c[1]][c[2]].seq, bs[c[1]][c[2]].row[c[3]]>> : c \in cells}
            pairs(s) == {<<s, <<t - 1, t>>>> : t \in 1..Min({lengths[s] - 1, T})}
        IN  /\ said = UNION {pairs(s) : s \in DOMAIN lengths}
            /\ Cardinality(cells) = Cardinality(said)

DataSound ==
    /\ TrainsBeforeHoldout /\ JudgesOnHoldout /\ BinsAreWhole
    /\ EverySourceCounts /\ PairsLaidOutOnce
=============================================================================
